---------------------------- MODULE ThreatIntel ----------------------------
(***************************************************************************)
(* Indicators and the feeds they come from (backend/app/services/          *)
(* threat_intel.py, services/feeds.py, workers/feed_worker.py): analysts   *)
(* create, amend and delete their tenant's indicators; the one feed worker *)
(* reads every enabled feed in turn, in one transaction for the shared     *)
(* feeds and one for the tenant's own.                                     *)
(*                                                                         *)
(* An indicator is one value under one source, which is the identity       *)
(* constraint of iocs. Classification stands for confidence as well: both  *)
(* are carried, defaulted and overwritten by the same code.                *)
(***************************************************************************)
EXTENDS Integers, FiniteSets, Sequences

CONSTANTS
    SharedFeed,    \* feeds that belong to no tenant
    TenantFeed,    \* the tenant's own feeds
    ByHand,        \* the source an analyst names
    IocRequest,    \* bound: update requests in flight at once
    MaxIntelWork,  \* bound: analysts' requests and passes of the feed worker
    Nothing        \* a classification that is not asserted

ASSUME IntelConstants ==
    /\ SharedFeed \cap TenantFeed = {} /\ ByHand \notin SharedFeed \cup TenantFeed
    /\ MaxIntelWork \in Nat
    /\ Nothing \notin {"malicious", "suspicious", "benign", "unknown", "error", "absent", "garbage"}

VARIABLES
    ioc,           \* rows of iocs, per source
    iocHistory,    \* rows of ioc_history, per indicator
    feed,          \* rows of ioc_feeds: last_sync_status and the pass it is of
    pass,          \* the feed worker's pass, with what its transaction wrote
    passes,        \* passes begun
    iocReq,        \* update requests in flight
    asserted,      \* history: classifications somebody asserted for the row
    created,       \* history: the classification the row was created with
    muddled,       \* history: rows a feed reclassified or two updates overlapped on
    intelWork      \* requests and passes so far

intelVars == <<ioc, iocHistory, feed, pass, passes, iocReq, asserted, created, muddled,
               intelWork>>

Feed == SharedFeed \cup TenantFeed
Source == Feed \cup {ByHand}
CLASSIFICATIONS == {"malicious", "suspicious", "benign", "unknown"}
Asserts == {"malicious", "benign"}     \* two of them, enough to tell a change

NoIoc == [exists |-> FALSE, class |-> "unknown", lapsed |-> FALSE, last_seen |-> 0]

(* What a fetch can bring: a failure, a list without the value (or with    *)
(* one canonicalize refuses), the value with no classification, with one,  *)
(* or with a word that is no classification.                               *)
Published == {"error", "absent", Nothing, "garbage"} \cup Asserts

IdlePass == [phase |-> "idle", todo |-> {}, rows |-> <<>>, status |-> <<>>, got |-> <<>>]

IntelInit ==
    /\ ioc = [s \in Source |-> NoIoc]
    /\ iocHistory = [s \in Source |-> <<>>]
    /\ feed = [f \in Feed |-> [status |-> "never", synced |-> 0, got |-> "absent"]]
    /\ pass = IdlePass
    /\ passes = 0
    /\ iocReq = [q \in IocRequest |-> "idle"]
    /\ asserted = [s \in Source |-> {}]
    /\ created = [s \in Source |-> "unknown"]
    /\ muddled = {}

IntelRequest == intelWork < MaxIntelWork /\ intelWork' = intelWork + 1

(* A row the pass has written is locked until its commit. *)
Locked(s) == s \in DOMAIN pass.rows

-----------------------------------------------------------------------------
(* create_ioc: a tenant's own source; the identity constraint refuses a    *)
(* second row.                                                             *)
create_ioc(s, class) ==
    /\ s \in TenantFeed \cup {ByHand}
    /\ ~ioc[s].exists /\ ~Locked(s)
    /\ IntelRequest
    /\ ioc' = [ioc EXCEPT ![s] = [exists |-> TRUE, class |-> class, lapsed |-> FALSE,
                                  last_seen |-> passes]]
    /\ asserted' = [asserted EXCEPT ![s] = {class}]
    /\ created' = [created EXCEPT ![s] = class]
    /\ iocHistory' = [iocHistory EXCEPT ![s] = <<>>]
    /\ UNCHANGED <<feed, pass, passes, iocReq, muddled>>

(* update_ioc up to its write: the row is the tenant's, and read without a *)
(* lock; Nothing is an edit of a column that is not tracked here.          *)
update_ioc(q, s, class) ==
    /\ iocReq[q] = "idle"
    /\ s \notin SharedFeed
    /\ ioc[s].exists
    /\ IntelRequest
    /\ iocReq' = [iocReq EXCEPT ![q] = <<s, class, ioc[s].class>>]
    /\ muddled' = muddled \cup
         ({s} \cap {iocReq[p][1] : p \in {r \in IocRequest : iocReq[r] # "idle"}})
    /\ UNCHANGED <<ioc, iocHistory, feed, pass, passes, asserted, created>>

(* Mutant of CommitIoc: a change to benign leaves no trace. *)
CommitQuietly(q) ==
    /\ iocReq[q] # "idle"
    /\ LET s == iocReq[q][1]  class == iocReq[q][2]  seen == iocReq[q][3] IN
       /\ ~Locked(s)
       /\ LET new == IF class \notin {Nothing, seen} THEN class ELSE ioc[s].class IN
          /\ ioc' = [ioc EXCEPT ![s].class = new]
          /\ iocHistory' = IF new \in {seen, "benign"} THEN iocHistory
                           ELSE [iocHistory EXCEPT ![s] = Append(@, <<seen, new>>)]
          /\ asserted' = [asserted EXCEPT ![s] = @ \cup ({class} \ {Nothing})]
    /\ iocReq' = [iocReq EXCEPT ![q] = "idle"]
    /\ UNCHANGED <<feed, pass, passes, created, muddled, intelWork>>

(* The rest of update_ioc: the UPDATE writes what differs from the row it  *)
(* read, the row is read again, and a history row is written when it now   *)
(* differs from the first reading.                                         *)
CommitIoc(q) ==
    /\ iocReq[q] # "idle"
    /\ LET s == iocReq[q][1]  class == iocReq[q][2]  seen == iocReq[q][3] IN
       /\ ~Locked(s)
       /\ LET new == IF class \notin {Nothing, seen} THEN class ELSE ioc[s].class IN
          /\ ioc' = [ioc EXCEPT ![s].class = new]
          /\ iocHistory' = IF new = seen THEN iocHistory
                           ELSE [iocHistory EXCEPT ![s] = Append(@, <<seen, new>>)]
          /\ asserted' = [asserted EXCEPT ![s] = @ \cup ({class} \ {Nothing})]
    /\ iocReq' = [iocReq EXCEPT ![q] = "idle"]
    /\ UNCHANGED <<feed, pass, passes, created, muddled, intelWork>>

(* The request ends without a commit. *)
RollbackIoc(q) ==
    /\ iocReq[q] # "idle"
    /\ iocReq' = [iocReq EXCEPT ![q] = "idle"]
    /\ UNCHANGED <<ioc, iocHistory, feed, pass, passes, asserted, created, muddled,
                   intelWork>>

(* delete_ioc: never a shared row; its history goes with it, and an update *)
(* in flight on it will find no row and fail.                              *)
delete_ioc(s) ==
    /\ s \notin SharedFeed
    /\ ioc[s].exists /\ ~Locked(s)
    /\ IntelRequest
    /\ ioc' = [ioc EXCEPT ![s] = NoIoc]
    /\ iocHistory' = [iocHistory EXCEPT ![s] = <<>>]
    /\ asserted' = [asserted EXCEPT ![s] = {}]
    /\ iocReq' = [q \in IocRequest |-> IF iocReq[q] # "idle" /\ iocReq[q][1] = s THEN "idle"
                                       ELSE iocReq[q]]
    /\ UNCHANGED <<feed, pass, passes, created, muddled>>

(* expires_at passes: every read filters the row out from now on. *)
Lapse(s) ==
    /\ ioc[s].exists /\ ~ioc[s].lapsed /\ ~Locked(s)
    /\ ioc' = [ioc EXCEPT ![s].lapsed = TRUE]
    /\ UNCHANGED <<iocHistory, feed, pass, passes, iocReq, asserted, created, muddled,
                   intelWork>>

(* match: what an observable of this value finds. *)
match == {s \in Source : ioc[s].exists /\ ~ioc[s].lapsed}

-----------------------------------------------------------------------------
(* sync_once: the shared feeds first. *)
sync_once ==
    /\ pass.phase = "idle"
    /\ IntelRequest
    /\ passes' = passes + 1
    /\ pass' = [IdlePass EXCEPT !.phase = "shared", !.todo = SharedFeed]
    /\ UNCHANGED <<ioc, iocHistory, feed, iocReq, asserted, created, muddled>>

(* upsert_from_feed for one indicator: created as unknown unless the feed  *)
(* says otherwise; seen again, its expiry is renewed and its               *)
(* classification replaced when the feed asserts one, up or down, without  *)
(* a row of history.                                                       *)
Upserted(row, class) ==
    [exists |-> TRUE, lapsed |-> FALSE, last_seen |-> passes,
     class |-> IF class # Nothing THEN class
               ELSE IF row.exists THEN row.class ELSE "unknown"]

(* sync_feed, and _record_failure when the fetch failed: into the open     *)
(* transaction. An update request that waits for the row has read it       *)
(* before.                                                                 *)
sync_feed(f, got) ==
    /\ pass.phase \in {"shared", "tenant"}
    /\ f \in pass.todo
    /\ got # "garbage"
    /\ LET listed == got \in Asserts \cup {Nothing}
           row == Upserted(ioc[f], got) IN
       pass' = [pass EXCEPT
          !.todo = @ \ {f},
          !.rows = IF listed THEN [s \in DOMAIN @ \cup {f} |-> IF s = f THEN row ELSE @[s]]
                   ELSE @,
          !.status = [g \in DOMAIN @ \cup {f} |->
                        IF g # f THEN @[g] ELSE IF got = "error" THEN "failed" ELSE "ok"],
          !.got = [g \in DOMAIN @ \cup {f} |-> IF g = f THEN got ELSE @[g]]]
    /\ UNCHANGED <<ioc, iocHistory, feed, passes, iocReq, asserted, created, muddled,
                   intelWork>>

(* A classification the schema refuses fails the flush: the exception      *)
(* leaves sync_feed, and the transaction of all its feeds is rolled back.  *)
(* From the shared feeds it ends the pass.                                 *)
FlushFails(f) ==
    /\ pass.phase \in {"shared", "tenant"}
    /\ f \in pass.todo
    /\ pass' = IdlePass
    /\ UNCHANGED <<ioc, iocHistory, feed, passes, iocReq, asserted, created, muddled,
                   intelWork>>

(* The commit of sync_shared_feeds or of sync_tenant_feeds. *)
CommitFeeds ==
    /\ pass.phase \in {"shared", "tenant"}
    /\ pass.todo = {}
    /\ LET wrote(s) == s \in DOMAIN pass.rows
           listed(s) == {pass.got[s]} \ {Nothing} IN
       /\ ioc' = [s \in Source |-> IF wrote(s) THEN pass.rows[s] ELSE ioc[s]]
       /\ asserted' = [s \in Source |-> IF wrote(s) THEN asserted[s] \cup listed(s)
                                        ELSE asserted[s]]
       /\ created' = [s \in Source |-> IF wrote(s) /\ ~ioc[s].exists THEN pass.rows[s].class
                                       ELSE created[s]]
       /\ muddled' = muddled \cup
             {s \in Source : wrote(s) /\ ioc[s].exists /\ pass.rows[s].class # ioc[s].class}
    /\ feed' = [f \in Feed |-> IF f \in DOMAIN pass.status
                               THEN [status |-> pass.status[f], synced |-> passes,
                                     got |-> pass.got[f]]
                               ELSE feed[f]]
    /\ pass' = IF pass.phase = "shared"
               THEN [IdlePass EXCEPT !.phase = "tenant", !.todo = TenantFeed]
               ELSE IdlePass
    /\ UNCHANGED <<iocHistory, passes, iocReq, intelWork>>

(* The worker or the database goes away: the open transaction is lost. *)
PassCutShort ==
    /\ pass.phase # "idle"
    /\ pass' = IdlePass
    /\ UNCHANGED <<ioc, iocHistory, feed, passes, iocReq, asserted, created, muddled, intelWork>>

IntelNext ==
    \/ \E s \in Source, c \in Asserts \cup {"unknown"} : create_ioc(s, c)
    \/ \E s \in Source : delete_ioc(s) \/ Lapse(s)
    \/ \E q \in IocRequest :
         \/ \E s \in Source, c \in Asserts \cup {Nothing} : update_ioc(q, s, c)
         \/ CommitIoc(q)
         \/ RollbackIoc(q)
    \/ sync_once
    \/ \E f \in Feed : FlushFails(f) \/ \E got \in Published : sync_feed(f, got)
    \/ CommitFeeds
    \/ PassCutShort

IntelSpec == IntelInit /\ intelWork \in 0..MaxIntelWork /\ [][IntelNext]_intelVars

-----------------------------------------------------------------------------
(* What an indicator says was said by somebody, and since when is on       *)
(* record: nothing is malicious, or benign, that no feed and no analyst    *)
(* asserted (upsert_from_feed), and an indicator's history leads from the  *)
(* classification it was created with to the one it has (update_ioc),      *)
(* however often a feed saw it again: what breaks the record is only a     *)
(* feed that asserted another classification, and two updates at once.     *)
IndicatorsAreExplained ==
    \A s \in Source : ioc[s].exists =>
        /\ ioc[s].class \in asserted[s] \cup {"unknown"}
        /\ s \notin muddled =>
             LET h == iocHistory[s] IN
             /\ \A k \in 1..Len(h) : h[k][1] = (IF k = 1 THEN created[s] ELSE h[k - 1][2])
             /\ ioc[s].class = (IF h = <<>> THEN created[s] ELSE h[Len(h)][2])

(* A feed row tells the operator the truth: when it says the last sync was *)
(* fine, what the feed then listed matches until it lapses or is deleted,  *)
(* as seen in that very sync; a sync that failed left the indicators as    *)
(* they were (sync_feed, _record_failure).                                 *)
FeedRowsAreTrue ==
    \A f \in Feed :
        LET listed == feed[f].status = "ok" /\ feed[f].got \in Asserts \cup {Nothing} IN
        /\ listed /\ ioc[f].exists => ioc[f].last_seen >= feed[f].synced
        /\ listed => f \in match \/ ioc[f].lapsed \/ (f \in TenantFeed /\ ~ioc[f].exists)
        /\ f \in SharedFeed /\ ioc[f].exists /\ ~listed => ioc[f].last_seen < feed[f].synced

(* Every indicator is explained by what was asserted, and every feed's row *)
(* by what that feed brought (services/threat_intel.py, feeds.py).         *)
IntelligenceIsExplained == IndicatorsAreExplained /\ FeedRowsAreTrue
=============================================================================
