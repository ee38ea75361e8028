------------------------------- MODULE MCApi -------------------------------
(* Instance of Api for TLC. *)
EXTENDS Api

CONSTANTS alert, server, account_name, admin, analyst, T1, T1_001, Discovery, Impact, q1, q2

(* Requests, of whatever service, have no order among them. *)
RequestSymmetry == Permutations({q1, q2})

MCKindOf == (alert :> "alert") @@ (server :> "asset") @@ (account_name :> "account")

MCEstablished == (admin :> "ORG_ADMIN") @@ (analyst :> "SOC_MANAGER")

MCParentOf == (T1 :> NoParent) @@ (T1_001 :> T1)

Stix(id, phases, withdrawn) == [id |-> id, phases |-> phases, withdrawn |-> withdrawn]

(* A release; one that moves both techniques, with a repeated object; one  *)
(* that withdraws the sub-technique; and a file without techniques.        *)
MCBundle ==
    {<<Stix(Discovery, {}, FALSE), Stix(Impact, {}, FALSE), Stix(T1, {Discovery}, FALSE),
       Stix(Malformed, {}, FALSE), Stix(T1_001, {Discovery, Impact}, FALSE)>>,
     <<Stix(Discovery, {}, FALSE), Stix(T1_001, {Discovery}, FALSE),
       Stix(T1_001, {Impact}, FALSE), Stix(T1, {Impact}, FALSE)>>,
     <<Stix(T1_001, {Discovery}, TRUE)>>,
     <<Stix(Impact, {}, FALSE), Stix(Malformed, {}, FALSE)>>}

-----------------------------------------------------------------------------
(* Conditions of every operator, on a keyword, a number, an address and a  *)
(* field that is not declared, with values that suit it and values that do *)
(* not, alone, negated and nested; and documents in which the field is     *)
(* absent, null, of another type or letter case, a list or below a list.   *)
Name == <<"user", "name">>
Port == <<"source_port">>
Ip == <<"source_ip">>
Vendor == <<"vendor">>

Leaf(op, path, v, cs) == [op |-> op, path |-> path, value |-> v, cs |-> cs]

MCLeaf ==
    {Leaf(op, Name, Text(t), cs) : op \in {"equals", "not_equals", "contains", "not_contains",
                                           "starts_with", "ends_with", "matches"},
                                   t \in {<<"a">>, <<"A", "*">>}, cs \in BOOLEAN}
    \cup {Leaf(op, Name, List(<<Text(<<"a">>), Text(<<"b">>)>>), FALSE) : op \in {"in", "not_in"}}
    \cup {Leaf("exists", p, [bool |-> b], FALSE) : p \in {Name, Port}, b \in BOOLEAN}
    \cup {Leaf(op, Port, v, FALSE) : op \in {"equals", "not_equals", "gt", "gte", "lt", "lte"},
                                     v \in {Number(1), Text(<<"1">>)}}
    \cup {Leaf("cidr", Ip, v, FALSE) :
            v \in {Text(<<"10">>), List(<<Text(<<"20">>), Text(<<"10", "30">>)>>)}}
    \cup {Leaf(op, Ip, Text(<<"10", "20">>), FALSE) : op \in {"equals", "not_equals"}}
    \cup {Leaf("equals", Name, Text(<<"1">>), FALSE)}

(* With values, and in fields, that need not suit the operator. *)
MCOddLeaf ==
    {Leaf(op, p[1], p[2], FALSE) :
        op \in {"equals", "not_equals", "cidr", "gt", "lte", "contains", "starts_with"},
        p \in {<<Name, Text(<<"10">>)>>, <<Port, Text(<<"a">>)>>, <<Port, Number(1)>>,
               <<Ip, Text(<<"a">>)>>, <<Ip, Text(<<"10">>)>>, <<Ip, Text(<<"20", "10">>)>>,
               <<Vendor, Text(<<"a">>)>>}}
    \cup {Leaf(op, p, List(v), FALSE) :
            op \in {"in", "cidr"}, p \in {Name, Port, Ip},
            v \in {<<>>, <<Number(1), Text(<<"10", "20">>)>>, <<Text(<<"10", "20">>)>>}}

MCTree ==
    MCLeaf \cup MCOddLeaf \cup {[not |-> l] : l \in MCLeaf}
    \cup {[all |-> <<Leaf("not_equals", Name, Text(<<"a">>), FALSE),
                     [any |-> <<Leaf("exists", Port, [bool |-> FALSE], FALSE), l>>]>>] :
            l \in {m \in MCLeaf : m.op \in {"not_in", "starts_with", "lt", "cidr"}}}

MCWaiver == {Leaf("matches", Name, Text(<<"b">>), FALSE),
             [not |-> Leaf("not_contains", Name, Text(<<"b">>), TRUE)]}

MCDocument ==
    {Object(f) : f \in
       {"class" :> Text(<<"b">>)}
       \cup {"user" :> Object("name" :> v) :
               v \in {Null_, Text(<<"a">>), Text(<<"A", "b">>), Text(<<"b", "a", "*">>),
                      Text(<<"0", "1">>), Number(1), List(<<>>),
                      List(<<Text(<<"a">>), Text(<<"b">>)>>)}}
       \cup {"user" :> List(<<Object("name" :> Text(<<"b">>)), Object("id" :> Number(1)),
                              Object("name" :> Null_)>>)}
       \cup {"vendor" :> Text(<<"a">>)}
       \cup {"source_port" :> v : v \in {Number(1), Number(2), Text(<<"0", "1">>), Null_}}
       \cup {"source_ip" :> v : v \in {Text(<<"10", "20">>),
                                       List(<<Text(<<"20", "30">>), Text(<<"10", "30">>)>>)}}}

-----------------------------------------------------------------------------
(* Two events of one tenant and one of another that look alike. *)
Stored(tenant, time, fields) ==
    Object(("tenant_id" :> Text(tenant)) @@ ("timestamp" :> Number(time)) @@ fields)
By(name, host) == ("user" :> Object("name" :> Text(name))) @@ ("hostname" :> Text(host))

MCEventDoc ==
    (1 :> Stored(<<"t1">>, 1, By(<<"a">>, <<"A">>) @@ ("source_ip" :> Text(<<"10", "20">>))
                              @@ ("process" :> Object("name" :> Text(<<"b">>)))
                              @@ ("hash" :> Object("sha256" :> Text(<<"a">>)))))
 @@ (2 :> Stored(<<"t1">>, 2, By(<<"A">>, <<"b">>) @@ ("url" :> Text(<<"b", "a", "*">>))
                              @@ ("device" :> Object("ip" :> Text(<<"10", "20">>)))
                              @@ ("domain" :> Text(<<"a">>))))
 @@ (3 :> Stored(<<"t2">>, 3, By(<<"a">>, <<"a">>) @@ ("source_ip" :> Text(<<"10", "20">>))))

MCTenant == {<<"t1">>, <<"t2">>}
MCMappedField == {Name, <<"url">>, Ip}
MCPivotValue == {<<"a">>, <<"10", "20">>}

Ask(free, filters, since, until) ==
    [free_text |-> free, filters |-> filters, since |-> since, until |-> until]

(* One has an operator without a translation, and the last a value that    *)
(* its field cannot take.                                                  *)
MCQuery ==
    {Ask(<<"a", "*">>, NoFilter, 2, 0),
     Ask(<<>>, Leaf("equals", Name, Text(<<"a">>), FALSE), 0, 2),
     Ask(<<"b">>, [not |-> Leaf("not_equals", <<"url">>, Text(<<"b">>), FALSE)], 0, 0),
     Ask(<<>>, Leaf("matches", Name, Text(<<"a">>), FALSE), 0, 0),
     Ask(<<>>, Leaf("contains", Ip, Text(<<"10">>), FALSE), 0, 0)}

-----------------------------------------------------------------------------
(* Subjects that are and are not in the inventory, with indicators of all  *)
(* strengths and values that are out of range.                             *)
About(document, criticality, observables, matches) ==
    [document |-> document, asset |-> criticality, observables |-> observables, matches |-> matches]
Ioc(class, confidence) == [classification |-> class, confidence |-> confidence]
Ueba(risk) == "risk_context" :> ("user_risk_score" :> <<risk>>)
Anomaly(score, confidence) == "anomaly" :> <<[score |-> score, confidence |-> confidence]>>

MCSubject ==
    {About(<<>>, Absent, FALSE, {}),
     About(<<>>, <<"LOW">>, TRUE, {}),
     About(Ueba(0), <<"HIGH">>, TRUE, {Ioc("malicious", 40), Ioc("suspicious", 100)}),
     About(Ueba(500), <<"CRITICAL">>, TRUE, {Ioc("benign", 100)}),
     About(Anomaly(9000, 60), <<"unrated">>, TRUE, {Ioc("malicious", 250), Ioc("odd", 100)}),
     About(Anomaly(20000, 100) @@ Ueba(70), Absent, TRUE, {Ioc("malicious", 95)})}

MCRiskRule ==
    {[severity |-> <<s>>, confidence |-> <<c>>, techniques |-> T] :
        s \in {"informational", "medium", "critical"}, c \in {0, 60, 95},
        T \in {{}, {<<"T1110", "001">>, <<"T9999">>}, {<<"T1059">>, <<"T1486">>}}}
=============================================================================
