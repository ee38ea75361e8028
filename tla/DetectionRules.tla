--------------------------- MODULE DetectionRules ---------------------------
(***************************************************************************)
(* The lifecycle of a detection rule (backend/app/services/detection_rules.*)
(* py, api/rules.py): its row, its version history and its exceptions, and *)
(* the transactions that create, edit, enable, disable and except it. Rows *)
(* of different rules are independent, so there is one. PostgreSQL runs    *)
(* the transactions READ COMMITTED; none of them locks what it reads.      *)
(***************************************************************************)
EXTENDS Integers, FiniteSets

CONSTANTS
    Content,       \* what a definition can say, its status left out
    Submitted,     \* the definitions editors may submit
    FirstVersion,  \* the versions a submitted definition may start with
    Exception,     \* exceptions that may be added to the rule
    Editor         \* bound: edit requests in flight at once

RuleStatus == {"enabled", "testing", "disabled"}

(* A definition_yaml: what it says, and whether its text is what           *)
(* rule_to_yaml writes.                                                    *)
Yaml == [content : Content, status : RuleStatus, canonical : BOOLEAN]

ASSUME RuleConstants ==
    Submitted \subseteq Yaml /\ FirstVersion \subseteq Nat \ {0}

VARIABLES
    row,           \* the committed row of detection_rules
    versions,      \* the committed rows of detection_rule_versions
    exceptions,    \* the committed rows of rule_exceptions
    edit,          \* edit requests in flight, with the row they loaded
    overlapped,    \* history: two edit requests were in flight at once
    edits          \* bound: edit requests left

ruleVars == <<row, versions, exceptions, edit, overlapped, edits>>

(* columns stands for the columns derived from the definition: severity,   *)
(* name, rule_type and so on.                                              *)
RuleRow == [columns : Content, status : RuleStatus, yaml : Yaml, current_version : Nat \ {0}]

NoRule == [current_version |-> 0]

EditState == [phase : {"read"}, kind : {"update", "status"}, row : RuleRow, yaml : Yaml]

NoEdit == [phase |-> "idle"]

RulesTypeOK ==
    /\ row \in RuleRow \cup {NoRule}
    /\ versions \subseteq [version : Nat \ {0}, content : Content]
    /\ exceptions \subseteq Exception
    /\ edit \in [Editor -> EditState \cup {NoEdit}]
    /\ overlapped \in BOOLEAN
    /\ edits \in Nat

RulesInit ==
    /\ row = NoRule
    /\ versions = {}
    /\ exceptions = {}
    /\ edit = [d \in Editor |-> NoEdit]
    /\ overlapped = FALSE

-----------------------------------------------------------------------------
Stored == row # NoRule

(* create_rule, and install_default_rules for a rule the tenant lacks. The *)
(* unique key makes a second one fail, whenever it looked.                 *)
create_rule(yaml, v) ==
    /\ ~Stored
    /\ row' = [columns |-> yaml.content, status |-> yaml.status, yaml |-> yaml,
               current_version |-> v]
    /\ versions' = versions \cup {[version |-> v, content |-> yaml.content]}
    /\ UNCHANGED <<exceptions, edit, overlapped, edits>>

(* A request loads the row. update_rule takes the submitted definition;    *)
(* set_rule_status rewrites the stored one with the new status.            *)
LoadRule(d, kind, yaml) ==
    /\ Stored
    /\ edit[d] = NoEdit
    /\ edits > 0
    /\ \/ kind = "update" /\ yaml \in Submitted
       \/ kind = "status" /\ yaml.content = row.yaml.content /\ yaml.canonical
    /\ edits' = edits - 1
    /\ edit' = [edit EXCEPT ![d] = [phase |-> "read", kind |-> kind, row |-> row, yaml |-> yaml]]
    /\ overlapped' = (overlapped \/ \E f \in Editor \ {d} : edit[f] # NoEdit)
    /\ UNCHANGED <<row, versions, exceptions>>

(* An UPDATE names only the columns that differ from the loaded row. *)
Written(now, loaded, new) == IF new = loaded THEN now ELSE new

(* Mutant of VersionTaken: detection_rule_versions has no unique key. *)
NoUniqueKey(v) == FALSE

(* The unique key over rule_id and version. *)
VersionTaken(v) == \E h \in versions : h.version = v

(* Mutant of update_rule: the version is not written back to the row. *)
UpdateKeepsVersion(d) ==
    LET e == edit[d]
        v == e.row.current_version + 1
    IN  /\ e # NoEdit /\ e.kind = "update"
        /\ ~VersionTaken(v)
        /\ row' = [columns |-> Written(row.columns, e.row.columns, e.yaml.content),
                   status |-> Written(row.status, e.row.status, e.yaml.status),
                   yaml |-> Written(row.yaml, e.row.yaml, e.yaml),
                   current_version |-> row.current_version]
        /\ versions' = versions \cup {[version |-> v, content |-> e.yaml.content]}
        /\ edit' = [edit EXCEPT ![d] = NoEdit]
        /\ UNCHANGED <<exceptions, overlapped, edits>>

(* update_rule is committed: the row and its new version. *)
update_rule(d) ==
    LET e == edit[d]
        v == e.row.current_version + 1
    IN  /\ e # NoEdit /\ e.kind = "update"
        /\ ~VersionTaken(v)
        /\ row' = [columns |-> Written(row.columns, e.row.columns, e.yaml.content),
                   status |-> Written(row.status, e.row.status, e.yaml.status),
                   yaml |-> Written(row.yaml, e.row.yaml, e.yaml),
                   current_version |-> v]
        /\ versions' = versions \cup {[version |-> v, content |-> e.yaml.content]}
        /\ edit' = [edit EXCEPT ![d] = NoEdit]
        /\ UNCHANGED <<exceptions, overlapped, edits>>

(* update_rule violates the unique key, or a request is cut off. *)
AbortEdit(d) ==
    /\ edit[d] # NoEdit
    /\ edit' = [edit EXCEPT ![d] = NoEdit]
    /\ UNCHANGED <<row, versions, exceptions, overlapped, edits>>

(* set_rule_status is committed: no new version. *)
set_rule_status(d) ==
    LET e == edit[d]
    IN  /\ e # NoEdit /\ e.kind = "status"
        /\ row' = [row EXCEPT !.status = Written(@, e.row.status, e.yaml.status),
                              !.yaml = Written(@, e.row.yaml, e.yaml)]
        /\ edit' = [edit EXCEPT ![d] = NoEdit]
        /\ UNCHANGED <<versions, exceptions, overlapped, edits>>

add_exception(x) ==
    /\ Stored
    /\ x \notin exceptions
    /\ exceptions' = exceptions \cup {x}
    /\ UNCHANGED <<row, versions, edit, overlapped, edits>>

RulesNext ==
    \/ \E y \in Submitted, v \in FirstVersion : create_rule(y, v)
    \/ \E d \in Editor, k \in {"update", "status"}, y \in Yaml : LoadRule(d, k, y)
    \/ \E d \in Editor : update_rule(d) \/ set_rule_status(d) \/ AbortEdit(d)
    \/ \E x \in Exception : add_exception(x)
=============================================================================
