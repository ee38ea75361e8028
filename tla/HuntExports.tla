---------------------------- MODULE HuntExports -----------------------------
(***************************************************************************)
(* The ration and the record of hunt exports (export_hunt of               *)
(* backend/app/services/hunting.py behind api/hunting.py): a counter per   *)
(* tenant and hour in Redis, an audit row for every request that was       *)
(* rationed or served, and the files. What an export searches for, and the *)
(* validation in front of it, are in Hunting.                              *)
(***************************************************************************)
EXTENDS Naturals, FiniteSets

CONSTANTS
    Tenant,           \* organizations, by the text of their id
    Query,            \* the hunt queries analysts write
    Rows,             \* the rows exports ask for
    ExportRequest,    \* bound: exports in flight at once
    MAX_LIMIT,        \* 1000, and hunt_export_max_rows
    EXPORT_LIMIT      \* hunt_export_rate_limit_per_hour

ASSUME ExportConstants ==
    /\ <<>> \notin Tenant
    /\ Rows \subseteq Nat /\ MAX_LIMIT \in Nat \ {0} /\ EXPORT_LIMIT \in Nat
    /\ IsFiniteSet(ExportRequest)

VARIABLES
    exporting,        \* exports between their quota and their search
    exports,          \* the tenants' counters of the current hour
    exportAudit,      \* EXPORT_DATA rows, per tenant: success and failure
    handedOut         \* history: files handed out per tenant, in all and on this hour's quota

exportVars == <<exporting, exports, exportAudit, handedOut>>

Least(m, n) == IF m < n THEN m ELSE n

NoExport == [tenant |-> <<>>]

ExportsInit ==
    /\ exporting = [x \in ExportRequest |-> NoExport]
    /\ exports = [t \in Tenant |-> 0]
    /\ exportAudit = [t \in Tenant |-> [success |-> 0, failure |-> 0]]
    /\ handedOut = [t \in Tenant |-> [all |-> 0, hour |-> 0]]

(* The counter goes up either way, and a request that is over is refused   *)
(* and leaves a row.                                                       *)
_within_export_rate_limit(x, t, q, rows) ==
    /\ exporting[x] = NoExport
    /\ exports' = [exports EXCEPT ![t] = @ + 1]
    /\ \/ /\ exports[t] + 1 <= EXPORT_LIMIT
          /\ exporting' = [exporting EXCEPT ![x] = [tenant |-> t, query |-> q,
                                                    rows |-> Least(rows, MAX_LIMIT), hour |-> TRUE]]
          /\ UNCHANGED exportAudit
       \/ /\ exports[t] + 1 > EXPORT_LIMIT
          /\ exportAudit' = [exportAudit EXCEPT ![t].failure = @ + 1]
          /\ UNCHANGED exporting
    /\ UNCHANGED handedOut

(* After the search: the row and the commit, and only then the file. *)
HandOut(x) ==
    /\ exporting[x] # NoExport
    /\ LET t == exporting[x].tenant IN
       /\ exportAudit' = [exportAudit EXCEPT ![t].success = @ + 1]
       /\ handedOut' = [handedOut EXCEPT ![t].all = @ + 1,
                                         ![t].hour = IF exporting[x].hour THEN @ + 1 ELSE @]
    /\ exporting' = [exporting EXCEPT ![x] = NoExport]
    /\ UNCHANGED exports

(* The event store or the database fails: no row, no file, and the quota   *)
(* stays used.                                                             *)
ExportFails(x) ==
    /\ exporting[x] # NoExport
    /\ exporting' = [exporting EXCEPT ![x] = NoExport]
    /\ UNCHANGED <<exports, exportAudit, handedOut>>

(* The counters of the next hour. *)
NextHour ==
    /\ \E t \in Tenant : exports[t] > 0
    /\ exports' = [t \in Tenant |-> 0]
    /\ handedOut' = [t \in Tenant |-> [handedOut[t] EXCEPT !.hour = 0]]
    /\ exporting' = [x \in ExportRequest |-> IF exporting[x] = NoExport THEN NoExport
                                             ELSE [exporting[x] EXCEPT !.hour = FALSE]]
    /\ UNCHANGED exportAudit

ExportsNext ==
    \/ \E x \in ExportRequest : \/ \E t \in Tenant, q \in Query, n \in Rows :
                                     _within_export_rate_limit(x, t, q, n)
                                \/ HandOut(x)
                                \/ ExportFails(x)
    \/ NextHour

ExportsSpec == ExportsInit /\ [][ExportsNext]_exportVars

-----------------------------------------------------------------------------
(* Every file that was handed out is on record, and no more of them on the *)
(* quota of an hour than the limit, however many exports overlap, fail or  *)
(* fall on the turn of the hour (export_hunt, _within_export_rate_limit).  *)
ExportsAreOnRecord ==
    \A t \in Tenant : /\ exportAudit[t].success = handedOut[t].all
                      /\ handedOut[t].hour <= EXPORT_LIMIT
=============================================================================
