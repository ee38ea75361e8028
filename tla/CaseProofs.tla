----------------------------- MODULE CaseProofs -----------------------------
(***************************************************************************)
(* Proofs about Cases, for every set of incidents, requests and accounts,  *)
(* any finite number of linkable objects, and timelines of any length.     *)
(*                                                                         *)
(* A timeline is only ever continued. What it tells of a status is read    *)
(* off the positions of its status changes, so that entries of any other   *)
(* kind leave it as it was (ToldQuietly), and one more status change tells *)
(* of what was just committed as long as the transition had read what it   *)
(* replaced (ToldChange). That it had is what contended is for: of two     *)
(* transitions in flight on a case, the case is on record.                 *)
(***************************************************************************)
EXTENDS Cases, FiniteSetTheorems, SequenceTheorems, WellFoundedInduction, TLAPS

(* The entries the service writes. *)
EntryKind == {"created", "status_change", "assignment", "alert_linked", "asset_linked",
              "ioc_linked", "note", "task"}

EntryDetail == Linkable \cup Account \cup INCIDENT_STATUSES \cup TASK_STATUSES \cup {None, "none"}

TimelineEntry == [kind : EntryKind, from : EntryDetail, to : EntryDetail]

(* u is the timeline t with more entries after it. *)
Continues(t, u) ==
    /\ t \in Seq(TimelineEntry) /\ u \in Seq(TimelineEntry)
    /\ Len(t) <= Len(u)
    /\ \A k \in 1..Len(t) : u[k] = t[k]

(* Those entries are not status changes. *)
ContinuesQuietly(t, u) ==
    /\ Continues(t, u)
    /\ \A k \in 1..Len(u) : k > Len(t) => u[k].kind # "status_change"

-----------------------------------------------------------------------------
(* Recording entries on a timeline adds them after those there. *)
LEMMA Recorded ==
    ASSUME NEW t \in Seq(TimelineEntry), NEW e \in Seq(TimelineEntry), NEW u, u = t \o e
    PROVE  /\ Continues(t, u)
           /\ Len(u) = Len(t) + Len(e)
           /\ \A k \in 1..Len(u) : k > Len(t) => k - Len(t) \in 1..Len(e) /\ u[k] = e[k - Len(t)]
<1>1. /\ u \in Seq(TimelineEntry) /\ Len(u) = Len(t) + Len(e)
      /\ \A k \in 1..Len(t) + Len(e) : u[k] = IF k <= Len(t) THEN t[k] ELSE e[k - Len(t)]
      BY ConcatProperties
<1>2. Len(t) \in Nat /\ Len(e) \in Nat
      OBVIOUS
<1>3. \A k \in 1..Len(t) : u[k] = t[k]
      BY <1>1, <1>2
<1> QED BY <1>1, <1>2, <1>3 DEF Continues

(* Recording one entry. *)
LEMMA RecordedOne ==
    ASSUME NEW t \in Seq(TimelineEntry), NEW x \in TimelineEntry, NEW u, u = t \o <<x>>
    PROVE  Continues(t, u) /\ Len(u) = Len(t) + 1 /\ Len(t) \in Nat /\ u[Len(t) + 1] = x
<1>1. PICK e : e = <<x>>
      OBVIOUS
<1>2. e \in Seq(TimelineEntry) /\ Len(e) = 1 /\ e[1] = x /\ u = t \o e
      BY <1>1
<1>3. /\ u \in Seq(TimelineEntry) /\ Len(u) = Len(t) + Len(e)
      /\ \A k \in 1..Len(t) + Len(e) : u[k] = IF k <= Len(t) THEN t[k] ELSE e[k - Len(t)]
      BY <1>2, ConcatProperties
<1>4. /\ Len(t) \in Nat /\ Len(u) = Len(t) + 1
      /\ \A k \in 1..Len(t) : u[k] = t[k]
      BY <1>2, <1>3
<1>5. Len(t) + 1 \in 1..Len(t) + Len(e) /\ Len(t) + 1 - Len(t) = 1 /\ ~(Len(t) + 1 <= Len(t))
      BY <1>2, <1>4
<1>6. u[Len(t) + 1] = x
      BY <1>2, <1>3, <1>5
<1> QED BY <1>3, <1>4, <1>6 DEF Continues

(* A set of naturals has a least element. *)
LEMMA LeastNatural ==
    ASSUME NEW T \in SUBSET Nat, T # {}
    PROVE  \E n \in T : \A m \in T : n <= m
<1>1. PICK R : R = OpToRel(<, Nat)
      OBVIOUS
<1>2. IsWellFoundedOn(R, Nat)
      BY <1>1, NatLessThanWellFounded
<1>3. PICK x \in T : \A y \in T : ~(<<y, x>> \in R)
      BY <1>2, WFMin
<1>4. \A y \in T : y < x => <<y, x>> \in R
      BY <1>1 DEF OpToRel
<1>5. \A y \in T : ~(y < x)
      BY <1>3, <1>4, Zenon
<1>6. \A y \in T : x <= y
      BY <1>5
<1> QED BY <1>6

(* A bounded one has a greatest. *)
LEMMA GreatestNatural ==
    ASSUME NEW n \in Nat, NEW T \in SUBSET (1..n), T # {}
    PROVE  \E k \in T : \A l \in T : l <= k
<1>1. PICK U : U = {n - k : k \in T}
      OBVIOUS
<1>a. \A k \in T : k \in 1..n /\ n - k \in Nat
      OBVIOUS
<1>2. U \in SUBSET Nat /\ U # {}
      BY <1>1, <1>a
<1>3. PICK m \in U : \A l \in U : m <= l
      BY <1>2, LeastNatural
<1>4. PICK k \in T : m = n - k
      BY <1>1, <1>3
<1>5. \A l \in T : n - k <= n - l
      BY <1>1, <1>3, <1>4
<1> QED BY <1>5

(* The latest of some positions of a timeline is the one CHOOSE finds. *)
LEMMA LatestPosition ==
    ASSUME NEW n \in Nat, NEW T \in SUBSET (1..n), NEW k \in T, \A l \in T : l <= k
    PROVE  (CHOOSE m \in T : \A l \in T : l <= m) = k
<1>1. PICK m : m = CHOOSE j \in T : \A l \in T : l <= j
      OBVIOUS
<1>2. m \in T /\ \A l \in T : l <= m
      BY <1>1
<1>3. m <= k /\ k <= m /\ m \in Nat /\ k \in Nat
      BY <1>2
<1> QED BY <1>1, <1>3

(* The same for the first. *)
LEMMA FirstPosition ==
    ASSUME NEW T \in SUBSET Nat, NEW k \in T, \A l \in T : k <= l
    PROVE  (CHOOSE m \in T : \A l \in T : m <= l) = k
<1>1. PICK m : m = CHOOSE j \in T : \A l \in T : j <= l
      OBVIOUS
<1>2. m \in T /\ \A l \in T : m <= l
      BY <1>1
<1>3. m <= k /\ k <= m /\ m \in Nat /\ k \in Nat
      BY <1>2
<1> QED BY <1>1, <1>3

(* What a timeline tells of a moment, later entries do not change. *)
LEMMA PastStays ==
    ASSUME NEW t, NEW u, Continues(t, u), NEW n \in Nat, n <= Len(t) + 1
    PROVE  StatusBefore(u, n) = StatusBefore(t, n)
<1>1. /\ Len(t) \in Nat /\ Len(u) \in Nat /\ Len(t) <= Len(u)
      /\ DOMAIN t = 1..Len(t) /\ DOMAIN u = 1..Len(u)
      /\ \A k \in 1..Len(t) : u[k] = t[k]
      BY DEF Continues
<1>2. PICK T : T = {k \in StatusChanges(t) : k < n}
      OBVIOUS
<1>3. {k \in StatusChanges(u) : k < n} = T
      BY <1>1, <1>2 DEF StatusChanges
<1>4. T \in SUBSET (1..Len(t))
      BY <1>1, <1>2 DEF StatusChanges
<1>5. CASE T = {}
      BY <1>2, <1>3, <1>5 DEF StatusBefore
<1>6. CASE T # {}
  <2>1. PICK k \in T : \A l \in T : l <= k
        BY <1>1, <1>4, <1>6, GreatestNatural
  <2>2. (CHOOSE m \in T : \A l \in T : l <= m) = k
        BY <1>1, <1>4, <2>1, LatestPosition
  <2>3. StatusBefore(t, n) = t[k].to
        BY <1>2, <1>6, <2>2 DEF StatusBefore
  <2>4. StatusBefore(u, n) = u[k].to
        BY <1>3, <1>6, <2>2 DEF StatusBefore
  <2> QED BY <1>1, <1>4, <2>1, <2>3, <2>4
<1> QED BY <1>5, <1>6

(* Entries of other kinds leave the status changes as they are. *)
LEMMA QuietEntries ==
    ASSUME NEW t, NEW u, ContinuesQuietly(t, u)
    PROVE  /\ StatusChanges(u) = StatusChanges(t)
           /\ \A s : ChangesTo(u, s) = ChangesTo(t, s)
           /\ \A n \in Nat : n <= Len(t) + 1 => StatusBefore(u, n) = StatusBefore(t, n)
           /\ StatusBefore(u, Len(u) + 1) = StatusBefore(t, Len(t) + 1)
<1>1. /\ Len(t) \in Nat /\ Len(u) \in Nat /\ Len(t) <= Len(u)
      /\ DOMAIN t = 1..Len(t) /\ DOMAIN u = 1..Len(u)
      /\ \A k \in 1..Len(t) : u[k] = t[k]
      BY DEF ContinuesQuietly, Continues
<1>2. StatusChanges(u) = StatusChanges(t)
      BY <1>1 DEF StatusChanges, ContinuesQuietly
<1>3. StatusChanges(t) \subseteq 1..Len(t)
      BY <1>1 DEF StatusChanges
<1>4. \A s : ChangesTo(u, s) = ChangesTo(t, s)
      BY <1>1, <1>2, <1>3 DEF ChangesTo
<1>5. Continues(t, u)
      BY DEF ContinuesQuietly
<1>6. \A n \in Nat : n <= Len(t) + 1 => StatusBefore(u, n) = StatusBefore(t, n)
      BY <1>5, PastStays
<1>7. {k \in StatusChanges(u) : k < Len(u) + 1} = {k \in StatusChanges(u) : k < Len(t) + 1}
      BY <1>1, <1>2, <1>3
<1>8. StatusBefore(u, Len(u) + 1) = StatusBefore(u, Len(t) + 1)
  <2>1. PICK m, n : m = Len(u) + 1 /\ n = Len(t) + 1
        OBVIOUS
  <2>2. PICK T : T = {k \in StatusChanges(u) : k < m} /\ T = {k \in StatusChanges(u) : k < n}
        BY <1>7, <2>1
  <2>3. StatusBefore(u, m) =
          (IF T = {} THEN "NEW" ELSE u[CHOOSE k \in T : \A l \in T : l <= k].to)
        BY <2>2 DEF StatusBefore
  <2>a. T = {k \in StatusChanges(u) : k < n}
        BY <2>2
  <2>4. StatusBefore(u, n) =
          (IF T = {} THEN "NEW" ELSE u[CHOOSE k \in T : \A l \in T : l <= k].to)
        BY <2>a DEF StatusBefore
  <2> QED BY <2>1, <2>3, <2>4
<1>9. Len(t) + 1 \in Nat /\ Len(t) + 1 <= Len(t) + 1
      BY <1>1
<1> QED BY <1>2, <1>4, <1>6, <1>8, <1>9

(* A status change becomes the last one. *)
LEMMA ChangeEntry ==
    ASSUME NEW t, NEW u, Continues(t, u), Len(u) = Len(t) + 1,
           u[Len(t) + 1].kind = "status_change"
    PROVE  /\ StatusChanges(u) = StatusChanges(t) \cup {Len(t) + 1}
           /\ \A s : ChangesTo(u, s) = ChangesTo(t, s) \cup
                       {k \in {Len(t) + 1} : u[Len(t) + 1].to = s}
           /\ StatusBefore(u, Len(u) + 1) = u[Len(t) + 1].to
<1>1. /\ Len(t) \in Nat /\ Len(u) \in Nat /\ Len(t) <= Len(u)
      /\ DOMAIN t = 1..Len(t) /\ DOMAIN u = 1..Len(u)
      /\ \A k \in 1..Len(t) : u[k] = t[k]
      BY DEF Continues
<1>2. StatusChanges(t) \subseteq 1..Len(t)
      BY <1>1 DEF StatusChanges
<1>3. StatusChanges(u) = StatusChanges(t) \cup {Len(t) + 1}
      BY <1>1 DEF StatusChanges
<1>4. \A s : ChangesTo(u, s) = ChangesTo(t, s) \cup {k \in {Len(t) + 1} : u[Len(t) + 1].to = s}
      BY <1>1, <1>2, <1>3 DEF ChangesTo
<1>5. PICK T : T = {k \in StatusChanges(u) : k < Len(u) + 1}
      OBVIOUS
<1>6. T \in SUBSET (1..Len(u)) /\ Len(t) + 1 \in T /\ \A l \in T : l <= Len(t) + 1
      BY <1>1, <1>2, <1>3, <1>5
<1>7. (CHOOSE m \in T : \A l \in T : l <= m) = Len(t) + 1
      BY <1>1, <1>6, LatestPosition
<1>8. StatusBefore(u, Len(u) + 1) = u[Len(t) + 1].to
      BY <1>5, <1>6, <1>7 DEF StatusBefore
<1> QED BY <1>3, <1>4, <1>8

-----------------------------------------------------------------------------
(* SetToSeq lists a finite set, each element once. *)
LEMMA SetToSeqLists ==
    ASSUME NEW S, IsFiniteSet(S)
    PROVE  /\ Cardinality(S) \in Nat
           /\ SetToSeq(S) \in [1..Cardinality(S) -> S]
           /\ \A k, l \in 1..Cardinality(S) : SetToSeq(S)[k] = SetToSeq(S)[l] => k = l
           /\ \A x \in S : \E k \in 1..Cardinality(S) : SetToSeq(S)[k] = x
<1>1. PICK n \in Nat : n = Cardinality(S)
      BY FS_CardinalityType
<1>2. PICK f : f \in Bijection(1..n, S)
      BY <1>1, FS_CardinalityType DEF ExistsBijection
<1>3. f \in [1..n -> S] /\ IsInjective(f)
      BY <1>2 DEF Bijection, Injection
<1>4. PICK g : g = SetToSeq(S)
      OBVIOUS
<1>5. g = CHOOSE h \in [1..n -> S] : IsInjective(h)
      BY <1>1, <1>4 DEF SetToSeq
<1>6. g \in [1..n -> S] /\ IsInjective(g)
      BY <1>3, <1>5, Zenon
<1>7. g \in Injection(1..n, S)
      BY <1>6 DEF Injection
<1>8. Cardinality(1..n) = n
      BY FS_Interval
<1>9. g \in Surjection(1..n, S)
      BY <1>1, <1>7, <1>8, FS_Injection
<1>10. \A x \in S : \E k \in 1..n : g[k] = x
      BY <1>9 DEF Surjection
<1>11. \A k, l \in 1..n : g[k] = g[l] => k = l
      BY <1>6 DEF IsInjective
<1> QED BY <1>1, <1>4, <1>6, <1>10, <1>11

CaseAlerts == {o \in Linkable : KindOf[o] = "alert"}

Opening(S) == <<Entry("created", None, None)>> \o
                  [k \in 1..Cardinality(S) |-> Entry("alert_linked", None, SetToSeq(S)[k])]

(* The entries of a new case: its creation, and one link for each alert. *)
LEMMA OpeningEntries ==
    ASSUME NEW S \in SUBSET CaseAlerts
    PROVE  /\ Opening(S) \in Seq(TimelineEntry)
           /\ \A k \in 1..Len(Opening(S)) :
                \/ Opening(S)[k].kind = "created" /\ Opening(S)[k].to = None
                \/ Opening(S)[k].kind = "alert_linked" /\ Opening(S)[k].to \in S
           /\ \A k, l \in 1..Len(Opening(S)) :
                /\ Opening(S)[k].kind = "alert_linked" /\ Opening(S)[l].kind = "alert_linked"
                /\ Opening(S)[k].to = Opening(S)[l].to
                => k = l
           /\ \A o \in S : \E k \in 1..Len(Opening(S)) :
                Opening(S)[k].kind = "alert_linked" /\ Opening(S)[k].to = o
<1>1. IsFiniteSet(S) /\ S \subseteq Linkable
  <2>1. S \in SUBSET Linkable
        BY DEF CaseAlerts
  <2> QED BY <2>1, FS_Subset, CaseConstants
<1>2. PICK n, g :
        /\ n \in Nat /\ g \in [1..n -> S]
        /\ n = Cardinality(S) /\ g = SetToSeq(S)
        /\ \A k, l \in 1..n : g[k] = g[l] => k = l
        /\ \A x \in S : \E k \in 1..n : g[k] = x
      BY <1>1, SetToSeqLists
<1>3. PICK h : h = [k \in 1..n |-> Entry("alert_linked", None, g[k])]
      OBVIOUS
<1>4. \A x \in S : Entry("alert_linked", None, x) \in TimelineEntry
      BY <1>1 DEF Entry, TimelineEntry, EntryKind, EntryDetail
<1>5. h \in Seq(TimelineEntry) /\ Len(h) = n
      BY <1>2, <1>3, <1>4
<1>6. \A k \in 1..n : h[k].kind = "alert_linked" /\ h[k].to = g[k]
      BY <1>3 DEF Entry
<1>7. PICK c : c = <<Entry("created", None, None)>>
      OBVIOUS
<1>8. Entry("created", None, None) \in TimelineEntry
      BY DEF Entry, TimelineEntry, EntryKind, EntryDetail
<1>9. c \in Seq(TimelineEntry) /\ Len(c) = 1 /\ c[1].kind = "created" /\ c[1].to = None
      BY <1>7, <1>8 DEF Entry
<1>10. PICK e : e = c \o h
      OBVIOUS
<1>11. /\ e \in Seq(TimelineEntry) /\ Len(e) = Len(c) + Len(h)
       /\ \A k \in 1..Len(c) + Len(h) : e[k] = IF k <= Len(c) THEN c[k] ELSE h[k - Len(c)]
      BY <1>5, <1>9, <1>10, ConcatProperties
<1>12. /\ Len(e) = n + 1
       /\ e[1].kind = "created" /\ e[1].to = None
       /\ \A k \in 1..n+1 : k # 1 => /\ k - 1 \in 1..n
                                     /\ e[k].kind = "alert_linked" /\ e[k].to = g[k - 1]
       /\ \A k \in 1..n : e[k + 1].kind = "alert_linked" /\ e[k + 1].to = g[k]
  <2>1. Len(e) = n + 1 /\ 1 \in 1..Len(c) + Len(h)
        BY <1>5, <1>9, <1>11
  <2>2. e[1] = c[1]
        BY <1>9, <1>11, <2>1
  <2>3. \A k \in 1..n+1 : k # 1 => k - 1 \in 1..n /\ e[k] = h[k - 1]
        BY <1>5, <1>9, <1>11
  <2>4. \A k \in 1..n : k + 1 \in 1..n+1 /\ k + 1 # 1 /\ k + 1 - 1 = k
        BY <1>2
  <2>5. \A k \in 1..n : e[k + 1] = h[k]
        BY <2>3, <2>4
  <2> QED BY <1>6, <1>9, <2>1, <2>2, <2>3, <2>5
<1>13. Opening(S) = e
      BY <1>2, <1>3, <1>7, <1>10 DEF Opening
<1>14. \A k \in 1..Len(e) : \/ e[k].kind = "created" /\ e[k].to = None
                            \/ e[k].kind = "alert_linked" /\ e[k].to \in S
      BY <1>2, <1>12
<1>15. \A k, l \in 1..Len(e) :
          /\ e[k].kind = "alert_linked" /\ e[l].kind = "alert_linked" /\ e[k].to = e[l].to
          => k = l
  <2> SUFFICES ASSUME NEW k \in 1..n+1, NEW l \in 1..n+1, e[k].kind = "alert_linked",
                      e[l].kind = "alert_linked", e[k].to = e[l].to
               PROVE  k = l
      BY <1>12
  <2>1. k # 1 /\ l # 1
        BY <1>12
  <2>2. k - 1 \in 1..n /\ l - 1 \in 1..n /\ g[k - 1] = g[l - 1]
        BY <1>12, <2>1
  <2> QED BY <1>2, <2>2
<1>16. \A o \in S : \E k \in 1..Len(e) : e[k].kind = "alert_linked" /\ e[k].to = o
  <2> TAKE o \in S
  <2>1. PICK k \in 1..n : g[k] = o
        BY <1>2
  <2>2. k + 1 \in 1..Len(e)
        BY <1>2, <1>12
  <2> QED BY <1>12, <2>1, <2>2
<1> QED BY <1>11, <1>13, <1>14, <1>15, <1>16

-----------------------------------------------------------------------------
CaseRow == [status : INCIDENT_STATUSES \cup {"none"}, number : Nat, severity : Severities,
            analyst : Account \cup {None}, contained : Nat, closed : Nat, resolved : BOOLEAN]

TaskRow == [status : TASK_STATUSES \cup {"none"}, completed : BOOLEAN]

CaseTypes ==
    /\ incident \in [Incident -> CaseRow]
    /\ lastIncident \in Nat
    /\ timeline \in [Incident -> Seq(TimelineEntry)]
    /\ linked \in SUBSET (Incident \X Linkable)
    /\ task \in [Incident -> TaskRow]
    /\ present \in SUBSET Linkable
    /\ caseReq = [q \in CaseRequest |-> caseReq[q]]

(* The columns of incident i that a transition reads and writes. *)
Milestones(i) == <<incident[i].status, incident[i].contained, incident[i].closed>>

(* What a request in flight may rely on when it commits. *)
CaseStands(r) ==
    \/ r.op = "idle"
    \/ /\ r.op = "create"
       /\ r.actor \in Account /\ r.alerts \in SUBSET CaseAlerts /\ r.number = lastIncident + 1
    \/ /\ r.op = "transition"
       /\ r.incident \in Incident /\ get_incident(r.incident)
       /\ r.target \in INCIDENT_STATUSES /\ r.row \in CaseRow
       /\ r.target \in INCIDENT_TRANSITIONS[r.row.status]
       /\ r.row.contained # 0 => incident[r.incident].contained # 0
       /\ r.incident \notin contended =>
            Milestones(r.incident) = <<r.row.status, r.row.contained, r.row.closed>>
    \/ /\ r.op = "link"
       /\ r.incident \in Incident /\ get_incident(r.incident) /\ r.object \in Linkable
    \/ /\ r.op = "task"
       /\ r.incident \in Incident /\ get_incident(r.incident)
       /\ r.target \in TASK_STATUSES /\ r.row \in TaskRow
       /\ r.row.completed => task[r.incident].completed

(* The counter's lock lets one request create a case at a time, and two    *)
(* transitions in flight on one case are on record.                        *)
CaseRequests ==
    /\ \A q \in CaseRequest : CaseStands(caseReq[q])
    /\ \A p, q \in CaseRequest : caseReq[p].op = "create" /\ caseReq[q].op = "create" => p = q
    /\ \A p, q \in CaseRequest :
         /\ p # q /\ caseReq[p].op = "transition" /\ caseReq[q].op = "transition"
         /\ caseReq[p].incident = caseReq[q].incident
         => caseReq[p].incident \in contended

(* Nothing is recorded of a case that was not opened. *)
BlankUntilOpened ==
    \A i \in Incident : ~get_incident(i) => timeline[i] = <<>> /\ task[i] = NoTask

CaseNumbers == IsFiniteSet({i \in Incident : get_incident(i)}) /\ IncidentNumbersGapless

(* The timeline t tells of this status, containment and closing. *)
Told(t, status, contained, closed) ==
    /\ status # "none" =>
         /\ \A k \in StatusChanges(t) :
              /\ t[k].from = StatusBefore(t, k)
              /\ t[k].to \in INCIDENT_TRANSITIONS[t[k].from]
         /\ status = StatusBefore(t, Len(t) + 1)
    /\ contained = (IF ChangesTo(t, "CONTAINMENT") = {} THEN 0
                    ELSE CHOOSE k \in ChangesTo(t, "CONTAINMENT") :
                           \A l \in ChangesTo(t, "CONTAINMENT") : k <= l)
    /\ closed = (IF status # "CLOSED" THEN 0
                 ELSE CHOOSE k \in ChangesTo(t, "CLOSED") :
                        \A l \in ChangesTo(t, "CLOSED") : l <= k)

(* And what it tells of a case that transitions overlapped on: each change *)
(* was allowed to whoever asked for it, and the last one committed counts. *)
ToldAnyway(t, status, contained, closed) ==
    /\ status # "none" =>
         /\ \A k \in StatusChanges(t) : t[k].to \in INCIDENT_TRANSITIONS[t[k].from]
         /\ status = StatusBefore(t, Len(t) + 1)
    /\ contained \in (IF ChangesTo(t, "CONTAINMENT") = {} THEN {0} ELSE ChangesTo(t, "CONTAINMENT"))
    /\ status = "CLOSED" =>
         closed \in ChangesTo(t, "CLOSED") /\ \A k \in ChangesTo(t, "CLOSED") : k <= closed

StatusTold ==
    /\ \A i \in Incident :
         ToldAnyway(timeline[i], incident[i].status, incident[i].contained, incident[i].closed)
    /\ \A i \in Incident \ contended :
         Told(timeline[i], incident[i].status, incident[i].contained, incident[i].closed)

DoneTold == \A i \in Incident : task[i].completed <=> TellsOfDone(timeline[i])

CaseInv ==
    /\ CaseTypes /\ CaseRequests /\ BlankUntilOpened /\ CaseNumbers
    /\ StatusTold /\ DoneTold /\ LinksAreOnTheTimeline

-----------------------------------------------------------------------------
(* Only an alert is linked by an entry alert_linked, and NULL is none.   *)
LEMMA LinkKinds ==
    \A o \in Linkable :
        /\ LinkKind[KindOf[o]] \in {"alert_linked", "asset_linked", "ioc_linked", "note"}
        /\ LinkKind[KindOf[o]] = "alert_linked" <=> KindOf[o] = "alert"
        /\ o # None
<1> TAKE o \in Linkable
<1>1. KindOf[o] \in {"alert", "asset", "ioc", "account"} /\ o # None
      BY CaseConstants
<1> QED BY <1>1 DEF LinkKind

(* u is the timeline t with the entry x after it. *)
Adds(t, u, x) ==
    /\ Continues(t, u) /\ Len(t) \in Nat /\ Len(u) = Len(t) + 1 /\ u[Len(t) + 1] = x
    /\ x.kind # "status_change" => ContinuesQuietly(t, u)
    /\ TellsOfDone(u) <=> TellsOfDone(t) \/ (x.kind = "task" /\ x.to = "done")
    /\ \A o \in Linkable : LinksTo(u, o) =
         LinksTo(t, o) \cup {k \in {Len(t) + 1} : x.kind = LinkKind[KindOf[o]] /\ x.to = o}

(* A timeline that got one more entry. *)
LEMMA OneEntry ==
    ASSUME NEW t \in Seq(TimelineEntry), NEW x \in TimelineEntry, NEW u, u = t \o <<x>>
    PROVE  Adds(t, u, x)
<1>1. Continues(t, u) /\ Len(t) \in Nat /\ Len(u) = Len(t) + 1 /\ u[Len(t) + 1] = x
      BY RecordedOne
<1>2. /\ DOMAIN t = 1..Len(t) /\ DOMAIN u = 1..Len(u)
      /\ \A k \in 1..Len(t) : u[k] = t[k]
      /\ 1..Len(u) = 1..Len(t) \cup {Len(t) + 1}
      BY <1>1 DEF Continues
<1>3. x.kind # "status_change" => ContinuesQuietly(t, u)
      BY <1>1, <1>2 DEF ContinuesQuietly
<1>4. TellsOfDone(u) <=> TellsOfDone(t) \/ (x.kind = "task" /\ x.to = "done")
      BY <1>1, <1>2 DEF TellsOfDone
<1>5. \A o : LinksTo(u, o) =
                LinksTo(t, o) \cup
                  {k \in {Len(t) + 1} : x.kind = LinkKind[KindOf[o]] /\ x.to = o}
  <2> TAKE o
  <2>1. PICK L : L = LinkKind[KindOf[o]]
        OBVIOUS
  <2>2. LinksTo(u, o) = {k \in 1..Len(u) : u[k].kind = L /\ u[k].to = o}
        BY <1>2, <2>1 DEF LinksTo
  <2>3. LinksTo(t, o) = {k \in 1..Len(t) : t[k].kind = L /\ t[k].to = o}
        BY <1>2, <2>1 DEF LinksTo
  <2>4. {k \in 1..Len(u) : u[k].kind = L /\ u[k].to = o} =
          {k \in 1..Len(t) : t[k].kind = L /\ t[k].to = o} \cup
             {k \in {Len(t) + 1} : x.kind = L /\ x.to = o}
        BY <1>1, <1>2
  <2> QED BY <2>1, <2>2, <2>3, <2>4
<1> QED BY <1>1, <1>3, <1>4, <1>5 DEF Adds

(* One entry on the timeline of incident i. *)
LEMMA RecordsOne ==
    ASSUME CaseTypes, NEW i \in Incident, NEW x \in TimelineEntry, record_timeline(i, <<x>>)
    PROVE  /\ timeline' \in [Incident -> Seq(TimelineEntry)]
           /\ Adds(timeline[i], timeline'[i], x)
           /\ \A j \in Incident : j # i => timeline'[j] = timeline[j]
           /\ x.kind # "status_change" =>
                \A j \in Incident : ContinuesQuietly(timeline[j], timeline'[j])
           /\ ~(x.kind = "task" /\ x.to = "done") =>
                \A j \in Incident : TellsOfDone(timeline'[j]) <=> TellsOfDone(timeline[j])
           /\ x.to = None \/ x.kind \notin {"alert_linked", "asset_linked", "ioc_linked", "note"}
              => \A j \in Incident, o \in Linkable :
                   LinksTo(timeline'[j], o) = LinksTo(timeline[j], o)
<1>1. PICK t, u : t = timeline[i] /\ u = t \o <<x>>
      OBVIOUS
<1>2. t \in Seq(TimelineEntry) /\ u = t \o <<x>>
      BY <1>1 DEF CaseTypes
<1>a. Adds(t, u, x)
      BY <1>2, OneEntry
<1>3. /\ Continues(t, u)
      /\ x.kind # "status_change" => ContinuesQuietly(t, u)
      /\ TellsOfDone(u) <=> TellsOfDone(t) \/ (x.kind = "task" /\ x.to = "done")
      /\ \A o \in Linkable : LinksTo(u, o) =
           LinksTo(t, o) \cup {k \in {Len(t) + 1} : x.kind = LinkKind[KindOf[o]] /\ x.to = o}
      BY <1>a DEF Adds
<1>4. timeline' = [timeline EXCEPT ![i] = u]
      BY <1>1 DEF record_timeline
<1>5. /\ timeline' \in [Incident -> Seq(TimelineEntry)]
      /\ timeline'[i] = u
      /\ \A j \in Incident : j # i => timeline'[j] = timeline[j]
      BY <1>3, <1>4 DEF CaseTypes, Continues
<1>6. \A j \in Incident : j # i => ContinuesQuietly(timeline[j], timeline'[j])
  <2>1. \A s \in Seq(TimelineEntry) : Len(s) \in Nat
        OBVIOUS
  <2> QED BY <1>5, <2>1 DEF ContinuesQuietly, Continues, CaseTypes
<1>7. ASSUME x.to = None \/ x.kind \notin {"alert_linked", "asset_linked", "ioc_linked", "note"},
             NEW o \in Linkable
      PROVE  LinksTo(u, o) = LinksTo(t, o)
  <2>1. ~(x.kind = LinkKind[KindOf[o]] /\ x.to = o)
        BY <1>7, LinkKinds
  <2> QED BY <1>3, <2>1
<1> QED BY <1>1, <1>a, <1>3, <1>5, <1>6, <1>7

(* Quiet entries leave told what was. *)
LEMMA ToldQuietly ==
    ASSUME NEW t, NEW u, ContinuesQuietly(t, u), NEW s, NEW c, NEW d, Told(t, s, c, d)
    PROVE  Told(u, s, c, d)
<1>1. /\ StatusChanges(u) = StatusChanges(t)
      /\ \A x : ChangesTo(u, x) = ChangesTo(t, x)
      /\ \A n \in Nat : n <= Len(t) + 1 => StatusBefore(u, n) = StatusBefore(t, n)
      /\ StatusBefore(u, Len(u) + 1) = StatusBefore(t, Len(t) + 1)
      BY QuietEntries
<1>2. Len(t) \in Nat /\ DOMAIN t = 1..Len(t) /\ \A k \in 1..Len(t) : u[k] = t[k]
      BY DEF ContinuesQuietly, Continues
<1>3. \A k \in StatusChanges(t) : u[k] = t[k] /\ StatusBefore(u, k) = StatusBefore(t, k)
  <2>1. \A k \in StatusChanges(t) : k \in 1..Len(t) /\ k \in Nat /\ k <= Len(t) + 1
        BY <1>2 DEF StatusChanges
  <2> QED BY <1>1, <1>2, <2>1
<1>4. s # "none" =>
         /\ \A k \in StatusChanges(u) :
              u[k].from = StatusBefore(u, k) /\ u[k].to \in INCIDENT_TRANSITIONS[u[k].from]
         /\ s = StatusBefore(u, Len(u) + 1)
      BY <1>1, <1>3 DEF Told
<1>5. PICK A, B : A = ChangesTo(t, "CONTAINMENT") /\ B = ChangesTo(t, "CLOSED")
      OBVIOUS
<1>6. A = ChangesTo(u, "CONTAINMENT") /\ B = ChangesTo(u, "CLOSED")
      BY <1>1, <1>5
<1>7. /\ c = (IF A = {} THEN 0 ELSE CHOOSE k \in A : \A l \in A : k <= l)
      /\ d = (IF s # "CLOSED" THEN 0 ELSE CHOOSE k \in B : \A l \in B : l <= k)
      BY <1>5 DEF Told
<1> QED BY <1>4, <1>6, <1>7 DEF Told

(* So they do of a case that transitions overlapped on. *)
LEMMA ToldAnywayQuietly ==
    ASSUME NEW t, NEW u, ContinuesQuietly(t, u), NEW s, NEW c, NEW d, ToldAnyway(t, s, c, d)
    PROVE  ToldAnyway(u, s, c, d)
<1>1. /\ StatusChanges(u) = StatusChanges(t)
      /\ \A x : ChangesTo(u, x) = ChangesTo(t, x)
      /\ StatusBefore(u, Len(u) + 1) = StatusBefore(t, Len(t) + 1)
      BY QuietEntries
<1>2. DOMAIN t = 1..Len(t) /\ \A k \in 1..Len(t) : u[k] = t[k]
      BY DEF ContinuesQuietly, Continues
<1>3. \A k \in StatusChanges(t) : u[k] = t[k]
      BY <1>2 DEF StatusChanges
<1>4. s # "none" =>
         /\ \A k \in StatusChanges(u) : u[k].to \in INCIDENT_TRANSITIONS[u[k].from]
         /\ s = StatusBefore(u, Len(u) + 1)
      BY <1>1, <1>3 DEF ToldAnyway
<1>5. PICK A, B : A = ChangesTo(t, "CONTAINMENT") /\ B = ChangesTo(t, "CLOSED")
      OBVIOUS
<1>6. A = ChangesTo(u, "CONTAINMENT") /\ B = ChangesTo(u, "CLOSED")
      BY <1>1, <1>5
<1>7. /\ c \in (IF A = {} THEN {0} ELSE A)
      /\ s = "CLOSED" => d \in B /\ \A k \in B : k <= d
      BY <1>5 DEF ToldAnyway
<1> QED BY <1>4, <1>6, <1>7 DEF ToldAnyway

(* A transition that read another status s than the committed one, or      *)
(* another containment, leaves its own change the last one.                *)
LEMMA ToldAnywayChange ==
    ASSUME NEW t, NEW u, NEW now, NEW c, NEW d, ToldAnyway(t, now, c, d), now # "none",
           NEW s, NEW target \in INCIDENT_TRANSITIONS[s],
           Adds(t, u, Entry("status_change", s, target)),
           NEW e, e \in {c, Len(t) + 1}, e # c => target = "CONTAINMENT",
           target = "CONTAINMENT" => e # 0,
           NEW f, target = "CLOSED" => f = Len(t) + 1
    PROVE  ToldAnyway(u, target, e, f)
<1>1. /\ Continues(t, u) /\ Len(t) \in Nat /\ Len(u) = Len(t) + 1
      /\ u[Len(t) + 1] = Entry("status_change", s, target)
      BY DEF Adds
<1>2. u[Len(t) + 1].kind = "status_change" /\ u[Len(t) + 1].from = s /\ u[Len(t) + 1].to = target
      BY <1>1 DEF Entry
<1>3. /\ StatusChanges(u) = StatusChanges(t) \cup {Len(t) + 1}
      /\ \A x : ChangesTo(u, x) = ChangesTo(t, x) \cup
                       {k \in {Len(t) + 1} : u[Len(t) + 1].to = x}
      /\ StatusBefore(u, Len(u) + 1) = u[Len(t) + 1].to
      BY <1>1, <1>2, ChangeEntry
<1>4. DOMAIN t = 1..Len(t) /\ \A k \in 1..Len(t) : u[k] = t[k]
      BY <1>1 DEF Continues
<1>5. \A k \in StatusChanges(u) : u[k].to \in INCIDENT_TRANSITIONS[u[k].from]
  <2>1. \A k \in StatusChanges(t) : u[k] = t[k]
        BY <1>4 DEF StatusChanges
  <2> QED BY <1>2, <1>3, <2>1 DEF ToldAnyway
<1>6. PICK A, B, A2, B2, n :
        /\ n = Len(t) + 1
        /\ A = ChangesTo(t, "CONTAINMENT") /\ B = ChangesTo(t, "CLOSED")
        /\ A2 = ChangesTo(u, "CONTAINMENT") /\ B2 = ChangesTo(u, "CLOSED")
      OBVIOUS
<1>7. A \in SUBSET (1..Len(t)) /\ B \in SUBSET (1..Len(t))
      BY <1>4, <1>6 DEF ChangesTo, StatusChanges
<1>8. /\ A2 = A \cup {k \in {n} : target = "CONTAINMENT"}
      /\ B2 = B \cup {k \in {n} : target = "CLOSED"}
      BY <1>2, <1>3, <1>6
<1>9. c \in (IF A = {} THEN {0} ELSE A)
      BY <1>6 DEF ToldAnyway
<1>10. e \in (IF A2 = {} THEN {0} ELSE A2)
  <2>1. CASE target = "CONTAINMENT"
        BY <1>6, <1>8, <1>9, <2>1
  <2>2. CASE target # "CONTAINMENT"
        BY <1>8, <1>9, <2>2
  <2> QED BY <2>1, <2>2
<1>11. target = "CLOSED" => f \in B2 /\ \A k \in B2 : k <= f
       BY <1>1, <1>6, <1>7, <1>8
<1> QED BY <1>2, <1>3, <1>5, <1>6, <1>10, <1>11 DEF ToldAnyway

(* A transition that read what is committed leaves told what it commits. *)
LEMMA ToldChange ==
    ASSUME NEW t, NEW u, NEW s, NEW c \in Nat, NEW d, Told(t, s, c, d), s # "none",
           NEW target \in INCIDENT_TRANSITIONS[s], target # "none",
           Adds(t, u, Entry("status_change", s, target))
    PROVE  Told(u, target,
                IF target = "CONTAINMENT" /\ c = 0 THEN Len(t) + 1 ELSE c,
                IF target = "CLOSED" THEN Len(t) + 1 ELSE IF d # 0 THEN 0 ELSE d)
<1>1. /\ Continues(t, u) /\ Len(t) \in Nat /\ Len(u) = Len(t) + 1
      /\ u[Len(t) + 1] = Entry("status_change", s, target)
      BY DEF Adds
<1>2. u[Len(t) + 1].kind = "status_change" /\ u[Len(t) + 1].from = s /\ u[Len(t) + 1].to = target
      BY <1>1 DEF Entry
<1>3. /\ StatusChanges(u) = StatusChanges(t) \cup {Len(t) + 1}
      /\ \A x : ChangesTo(u, x) = ChangesTo(t, x) \cup
                       {k \in {Len(t) + 1} : u[Len(t) + 1].to = x}
      /\ StatusBefore(u, Len(u) + 1) = u[Len(t) + 1].to
      BY <1>1, <1>2, ChangeEntry
<1>4. \A n \in Nat : n <= Len(t) + 1 => StatusBefore(u, n) = StatusBefore(t, n)
      BY <1>1, PastStays
<1>5. DOMAIN t = 1..Len(t) /\ \A k \in 1..Len(t) : u[k] = t[k]
      BY <1>1 DEF Continues
<1>6. \A k \in StatusChanges(u) :
        u[k].from = StatusBefore(u, k) /\ u[k].to \in INCIDENT_TRANSITIONS[u[k].from]
  <2>1. \A k \in StatusChanges(t) : k \in 1..Len(t) /\ k \in Nat /\ k <= Len(t) + 1
        BY <1>1, <1>5 DEF StatusChanges
  <2>2. \A k \in StatusChanges(t) :
          u[k].from = StatusBefore(u, k) /\ u[k].to \in INCIDENT_TRANSITIONS[u[k].from]
        BY <1>4, <1>5, <2>1 DEF Told
  <2>3. StatusBefore(u, Len(t) + 1) = s
    <3>1. Len(t) + 1 \in Nat /\ Len(t) + 1 <= Len(t) + 1
          BY <1>1
    <3> QED BY <1>4, <3>1 DEF Told
  <2> QED BY <1>2, <1>3, <2>2, <2>3
<1>7. PICK A, B, A2, B2, n :
        /\ n = Len(t) + 1
        /\ A = ChangesTo(t, "CONTAINMENT") /\ B = ChangesTo(t, "CLOSED")
        /\ A2 = ChangesTo(u, "CONTAINMENT") /\ B2 = ChangesTo(u, "CLOSED")
      OBVIOUS
<1>8. A \in SUBSET (1..Len(t)) /\ B \in SUBSET (1..Len(t))
      BY <1>5, <1>7 DEF ChangesTo, StatusChanges
<1>9. /\ A2 = A \cup {k \in {n} : target = "CONTAINMENT"}
      /\ B2 = B \cup {k \in {n} : target = "CLOSED"}
      BY <1>2, <1>3, <1>7
<1>10. /\ c = (IF A = {} THEN 0 ELSE CHOOSE k \in A : \A l \in A : k <= l)
       /\ d = (IF s # "CLOSED" THEN 0 ELSE CHOOSE k \in B : \A l \in B : l <= k)
      BY <1>7 DEF Told
<1>11. (IF target = "CONTAINMENT" /\ c = 0 THEN n ELSE c) =
         (IF A2 = {} THEN 0 ELSE CHOOSE k \in A2 : \A l \in A2 : k <= l)
  <2>1. CASE A = {}
    <3>1. c = 0
          BY <1>10, <2>1
    <3>2. CASE target = "CONTAINMENT"
      <4>1. A2 = {n}
            BY <1>9, <2>1, <3>2
      <4>2. A2 \in SUBSET Nat /\ n \in A2 /\ \A l \in A2 : n <= l
            BY <1>1, <1>7, <4>1
      <4>3. (CHOOSE k \in A2 : \A l \in A2 : k <= l) = n
            BY <4>2, FirstPosition
      <4> QED BY <3>1, <3>2, <4>1, <4>3
    <3>3. CASE target # "CONTAINMENT"
      <4>1. A2 = {}
            BY <1>9, <2>1, <3>3
      <4> QED BY <3>1, <3>3, <4>1
    <3> QED BY <3>2, <3>3
  <2>2. CASE A # {}
    <3>1. A \in SUBSET Nat
          BY <1>8
    <3>2. PICK m \in A : \A l \in A : m <= l
          BY <2>2, <3>1, LeastNatural
    <3>3. (CHOOSE k \in A : \A l \in A : k <= l) = m
          BY <3>1, <3>2, FirstPosition
    <3>4. c = m /\ m \in 1..Len(t)
          BY <1>8, <1>10, <2>2, <3>2, <3>3
    <3>5. A2 \in SUBSET Nat /\ m \in A2 /\ \A l \in A2 : m <= l
          BY <1>1, <1>7, <1>8, <1>9, <3>2, <3>4
    <3>6. (CHOOSE k \in A2 : \A l \in A2 : k <= l) = m
          BY <3>5, FirstPosition
    <3>7. c # 0 /\ A2 # {}
          BY <1>1, <3>4, <3>5
    <3> QED BY <3>4, <3>6, <3>7
  <2> QED BY <2>1, <2>2
<1>12. (IF target = "CLOSED" THEN n ELSE IF d # 0 THEN 0 ELSE d) =
         (IF target # "CLOSED" THEN 0 ELSE CHOOSE k \in B2 : \A l \in B2 : l <= k)
  <2>1. CASE target = "CLOSED"
    <3>1. n \in Nat /\ B2 \in SUBSET (1..n) /\ n \in B2 /\ \A l \in B2 : l <= n
          BY <1>1, <1>7, <1>8, <1>9, <2>1
    <3>2. (CHOOSE k \in B2 : \A l \in B2 : l <= k) = n
          BY <3>1, LatestPosition
    <3> QED BY <2>1, <3>2
  <2>2. CASE target # "CLOSED"
        BY <2>2
  <2> QED BY <2>1, <2>2
<1>13. target = StatusBefore(u, Len(u) + 1)
      BY <1>2, <1>3
<1> QED BY <1>6, <1>7, <1>11, <1>12, <1>13 DEF Told

-----------------------------------------------------------------------------
(* A request in flight stands as long as what it relies on does. *)
LEMMA StandsStill ==
    ASSUME NEW r, CaseStands(r), contended \subseteq contended',
           r.op = "create" => lastIncident' = lastIncident,
           \A j \in Incident : get_incident(j) =>
              /\ incident'[j].status # "none"
              /\ incident[j].contained # 0 => incident'[j].contained # 0,
           \A j \in Incident : task[j].completed => task'[j].completed,
           \A j \in Incident : r.op = "transition" /\ r.incident = j /\ j \notin contended =>
              Milestones(j)' = Milestones(j)
    PROVE  CaseStands(r)'
<1>1. CASE r.op = "idle"
      BY <1>1 DEF CaseStands
<1>2. CASE r.op = "create"
      BY <1>2 DEF CaseStands
<1>3. CASE r.op = "transition"
  <2>1. /\ r.incident \in Incident /\ get_incident(r.incident)
        /\ r.target \in INCIDENT_STATUSES /\ r.row \in CaseRow
        /\ r.target \in INCIDENT_TRANSITIONS[r.row.status]
        /\ r.row.contained # 0 => incident[r.incident].contained # 0
        /\ r.incident \notin contended =>
             Milestones(r.incident) = <<r.row.status, r.row.contained, r.row.closed>>
        BY <1>3 DEF CaseStands
  <2>2. /\ incident'[r.incident].status # "none"
        /\ r.row.contained # 0 => incident'[r.incident].contained # 0
        BY <2>1
  <2>3. r.incident \notin contended' => Milestones(r.incident)' = Milestones(r.incident)
        BY <1>3, <2>1
  <2>4. r.incident \notin contended' =>
            Milestones(r.incident)' = <<r.row.status, r.row.contained, r.row.closed>>
        BY <2>1, <2>3
  <2> QED BY <1>3, <2>1, <2>2, <2>4 DEF CaseStands, get_incident
<1>4. CASE r.op = "link"
      BY <1>4 DEF CaseStands, get_incident
<1>5. CASE r.op = "task"
      BY <1>5 DEF CaseStands, get_incident
<1> QED BY <1>1, <1>2, <1>3, <1>4, <1>5 DEF CaseStands

(* Requests after one ended, or none did. *)
LEMMA RequestsAfter ==
    ASSUME CaseTypes, CaseRequests, contended' = contended,
           \/ caseReq' = caseReq
           \/ \E q \in CaseRequest : caseReq' = [caseReq EXCEPT ![q] = NoCaseReq],
           \A p \in CaseRequest : \A r \in {caseReq[p]} :
              caseReq'[p] = r /\ r.op # "idle" => CaseStands(r)'
    PROVE  CaseRequests' /\ caseReq' = [q \in CaseRequest |-> caseReq'[q]]
<1>1. PICK n : n = NoCaseReq
      OBVIOUS
<1>2. n.op = "idle"
      BY <1>1 DEF NoCaseReq
<1>3. /\ caseReq' = [q \in CaseRequest |-> caseReq'[q]]
      /\ \A p \in CaseRequest : caseReq'[p] = caseReq[p] \/ caseReq'[p] = n
  <2>1. CASE caseReq' = caseReq
        BY <2>1 DEF CaseTypes
  <2>2. ASSUME NEW q \in CaseRequest, caseReq' = [caseReq EXCEPT ![q] = NoCaseReq]
        PROVE  /\ caseReq' = [p \in CaseRequest |-> caseReq'[p]]
               /\ \A p \in CaseRequest : caseReq'[p] = caseReq[p] \/ caseReq'[p] = n
        BY <1>1, <2>2 DEF CaseTypes
  <2> QED BY <2>1, <2>2
<1>4. ASSUME NEW p \in CaseRequest PROVE CaseStands(caseReq[p])'
  <2>1. PICK r : r = caseReq'[p]
        OBVIOUS
  <2>2. r.op = "idle" => CaseStands(r)'
        BY DEF CaseStands
  <2>3. r.op # "idle" => r = caseReq[p]
        BY <1>2, <1>3, <2>1
  <2>4. CaseStands(r)'
        BY <2>1, <2>2, <2>3
  <2> QED BY <2>1, <2>4 DEF CaseStands, Milestones, get_incident
<1>5. \A p, q \in CaseRequest : caseReq'[p].op = "create" /\ caseReq'[q].op = "create" => p = q
      BY <1>2, <1>3 DEF CaseRequests
<1>6. \A p, q \in CaseRequest :
         /\ p # q /\ caseReq'[p].op = "transition" /\ caseReq'[q].op = "transition"
         /\ caseReq'[p].incident = caseReq'[q].incident
         => caseReq'[p].incident \in contended'
      BY <1>2, <1>3 DEF CaseRequests
<1> QED BY <1>3, <1>4, <1>5, <1>6 DEF CaseRequests

(* A step that records nothing of the status. *)
LEMMA ToldKept ==
    ASSUME CaseTypes, StatusTold, contended \subseteq contended',
           \A j \in Incident : Milestones(j)' = Milestones(j),
           \A j \in Incident : ContinuesQuietly(timeline[j], timeline'[j])
    PROVE  StatusTold'
<1> SUFFICES ASSUME NEW j \in Incident
             PROVE  /\ ToldAnyway(timeline'[j], incident'[j].status, incident'[j].contained,
                                  incident'[j].closed)
                    /\ j \notin contended' =>
                         Told(timeline'[j], incident'[j].status, incident'[j].contained,
                              incident'[j].closed)
    BY DEF StatusTold
<1>1. PICK t, u, s, c, d : /\ t = timeline[j] /\ u = timeline'[j] /\ s = incident[j].status
                           /\ c = incident[j].contained /\ d = incident[j].closed
      OBVIOUS
<1>2. ToldAnyway(t, s, c, d) /\ (j \notin contended' => Told(t, s, c, d))
      BY <1>1 DEF StatusTold
<1>3. ContinuesQuietly(t, u)
      BY <1>1
<1>4. ToldAnyway(u, s, c, d) /\ (j \notin contended' => Told(u, s, c, d))
      BY <1>2, <1>3, ToldQuietly, ToldAnywayQuietly
<1>5. /\ incident'[j].status = s /\ incident'[j].contained = c /\ incident'[j].closed = d
      BY <1>1 DEF Milestones
<1> QED BY <1>1, <1>4, <1>5

(* A step that opens no case and renumbers none. *)
LEMMA NumbersKept ==
    ASSUME CaseNumbers, lastIncident' = lastIncident,
           \A j \in Incident : /\ incident'[j].number = incident[j].number
                               /\ incident'[j].status = "none" <=> incident[j].status = "none"
    PROVE  CaseNumbers'
<1>1. PICK O : O = {i \in Incident : incident[i].status # "none"}
      OBVIOUS
<1>2. O = {i \in Incident : incident'[i].status # "none"}
      BY <1>1
<1>3. PICK N : N = {incident[i].number : i \in O}
      OBVIOUS
<1>4. N = {incident'[i].number : i \in O}
      BY <1>1, <1>3
<1>5. IsFiniteSet(O) /\ N = 1..lastIncident /\ Cardinality(O) = lastIncident
      BY <1>1, <1>3 DEF CaseNumbers, IncidentNumbersGapless, get_incident
<1> QED BY <1>2, <1>4, <1>5 DEF CaseNumbers, IncidentNumbersGapless, get_incident

(* A step that links nothing and records no link. *)
LEMMA LinksKept ==
    ASSUME LinksAreOnTheTimeline, UNCHANGED <<linked, present>>,
           \A j \in Incident, o \in Linkable : LinksTo(timeline'[j], o) = LinksTo(timeline[j], o)
    PROVE  LinksAreOnTheTimeline'
<1> SUFFICES ASSUME NEW j \in Incident, NEW o \in Linkable
             PROVE  /\ \A k, l \in LinksTo(timeline'[j], o) : k = l
                    /\ <<j, o>> \in linked' <=>
                         LinksTo(timeline'[j], o) # {} /\ (KindOf[o] = "account" \/ o \in present')
    BY DEF LinksAreOnTheTimeline
<1>1. /\ \A k, l \in LinksTo(timeline[j], o) : k = l
      /\ <<j, o>> \in linked <=>
           LinksTo(timeline[j], o) # {} /\ (KindOf[o] = "account" \/ o \in present)
      BY DEF LinksAreOnTheTimeline
<1>2. PICK T : T = LinksTo(timeline[j], o) /\ T = LinksTo(timeline'[j], o)
      OBVIOUS
<1> QED BY <1>1, <1>2

(* A step of the requests alone. *)
LEMMA CaseKept ==
    ASSUME CaseInv, UNCHANGED <<incident, lastIncident, timeline, linked, task, present>>,
           contended \subseteq contended', CaseRequests',
           caseReq' = [q \in CaseRequest |-> caseReq'[q]]
    PROVE  CaseInv'
<1>1. CaseTypes'
      BY DEF CaseInv, CaseTypes
<1>2. BlankUntilOpened'
      BY DEF CaseInv, BlankUntilOpened, get_incident
<1>3. CaseNumbers'
      BY NumbersKept DEF CaseInv
<1>4. StatusTold'
      BY DEF CaseInv, StatusTold
<1>5. DoneTold'
      BY DEF CaseInv, DoneTold
<1>6. LinksAreOnTheTimeline'
      BY DEF CaseInv, LinksAreOnTheTimeline
<1> QED BY <1>1, <1>2, <1>3, <1>4, <1>5, <1>6 DEF CaseInv

(* A request begins. *)
LEMMA CaseBegins ==
    ASSUME CaseInv, UNCHANGED <<incident, lastIncident, timeline, linked, task, present>>,
           contended \subseteq contended',
           NEW q \in CaseRequest, NEW tx, Begins(q, tx), CaseStands(tx)',
           \A p \in CaseRequest : tx.op = "create" => caseReq[p].op # "create",
           \A p \in CaseRequest :
              /\ tx.op = "transition" /\ caseReq[p].op = "transition"
              /\ caseReq[p].incident = tx.incident
              => tx.incident \in contended'
    PROVE  CaseInv'
<1>1. /\ caseReq' = [p \in CaseRequest |-> caseReq'[p]]
      /\ caseReq'[q] = tx
      /\ \A p \in CaseRequest : p # q => caseReq'[p] = caseReq[p]
      BY DEF Begins, CaseInv, CaseTypes
<1>2. ASSUME NEW p \in CaseRequest PROVE CaseStands(caseReq[p])'
  <2>1. PICK r : r = caseReq'[p]
        OBVIOUS
  <2>2. CaseStands(r)'
    <3>1. CASE p = q
          BY <1>1, <2>1, <3>1
    <3>2. CASE p # q
      <4>1. CaseStands(r)
            BY <1>1, <2>1, <3>2 DEF CaseInv, CaseRequests
      <4>2. /\ \A j \in Incident : get_incident(j) => incident'[j].status # "none"
            /\ \A j \in Incident : task[j].completed => task'[j].completed
            /\ \A j \in Incident : Milestones(j)' = Milestones(j)
            BY DEF Milestones, get_incident
      <4> QED BY <4>1, <4>2, StandsStill
    <3> QED BY <3>1, <3>2
  <2> QED BY <2>1, <2>2 DEF CaseStands, Milestones, get_incident
<1>3. \A p, r \in CaseRequest : caseReq'[p].op = "create" /\ caseReq'[r].op = "create" => p = r
      BY <1>1 DEF CaseInv, CaseRequests
<1>4. \A p, r \in CaseRequest :
         /\ p # r /\ caseReq'[p].op = "transition" /\ caseReq'[r].op = "transition"
         /\ caseReq'[p].incident = caseReq'[r].incident
         => caseReq'[p].incident \in contended'
      BY <1>1 DEF CaseInv, CaseRequests
<1>5. CaseRequests'
      BY <1>2, <1>3, <1>4 DEF CaseRequests
<1> QED BY <1>1, <1>5, CaseKept

(* The counter is locked and read: it still says so at the commit. *)
LEMMA CaseNumberTaken ==
    ASSUME CaseInv, NEW q \in CaseRequest, NEW u \in Account, NEW S \in SUBSET CaseAlerts,
           next_incident_id(q, u, S)
    PROVE  CaseInv'
<1>1. PICK tx : tx = [op |-> "create", actor |-> u, alerts |-> S, number |-> lastIncident + 1]
      OBVIOUS
<1>2. tx.op = "create" /\ tx.actor = u /\ tx.alerts = S /\ tx.number = lastIncident + 1
      BY <1>1
<1>3. /\ Begins(q, tx) /\ \A p \in CaseRequest : caseReq[p].op # "create"
      /\ UNCHANGED <<incident, lastIncident, timeline, linked, task, present, contended>>
      BY <1>1 DEF next_incident_id
<1>4. CaseStands(tx)'
      BY <1>2, <1>3 DEF CaseStands
<1> QED BY <1>2, <1>3, <1>4, CaseBegins

(* A transition reads the row, and another in flight is put on record. *)
LEMMA TransitionBegins ==
    ASSUME CaseInv, NEW q \in CaseRequest, NEW i \in Incident, NEW s \in INCIDENT_STATUSES,
           transition(q, i, s)
    PROVE  CaseInv'
<1>1. PICK tx : tx = [op |-> "transition", incident |-> i, target |-> s, row |-> incident[i]]
      OBVIOUS
<1>2. tx.op = "transition" /\ tx.incident = i /\ tx.target = s /\ tx.row = incident[i]
      BY <1>1
<1>3. /\ Begins(q, tx) /\ get_incident(i) /\ s \in INCIDENT_TRANSITIONS[incident[i].status]
      /\ UNCHANGED <<incident, lastIncident, timeline, linked, task, present>>
      /\ contended' = contended \cup
           {c \in {i} : \E p \in CaseRequest :
                          caseReq[p].op = "transition" /\ caseReq[p].incident = i}
      BY <1>1 DEF transition
<1>4. incident[i] \in CaseRow
      BY DEF CaseInv, CaseTypes
<1>5. CaseStands(tx)'
      BY <1>2, <1>3, <1>4 DEF CaseStands, Milestones, get_incident
<1>6. \A p \in CaseRequest :
        caseReq[p].op = "transition" /\ caseReq[p].incident = i => i \in contended'
      BY <1>3
<1>7. contended \subseteq contended'
      BY <1>3
<1> QED BY <1>2, <1>3, <1>5, <1>6, <1>7, CaseBegins

(* A link is asked for. *)
LEMMA LinkBegins ==
    ASSUME CaseInv, NEW q \in CaseRequest, NEW i \in Incident, NEW o \in Linkable, link(q, i, o)
    PROVE  CaseInv'
<1>1. PICK tx : tx = [op |-> "link", incident |-> i, object |-> o]
      OBVIOUS
<1>2. tx.op = "link" /\ tx.incident = i /\ tx.object = o
      BY <1>1
<1>3. /\ Begins(q, tx) /\ get_incident(i)
      /\ UNCHANGED <<incident, lastIncident, timeline, linked, task, present, contended>>
      BY <1>1 DEF link
<1>4. CaseStands(tx)'
      BY <1>2, <1>3 DEF CaseStands, get_incident
<1> QED BY <1>2, <1>3, <1>4, CaseBegins

(* A task's row is read. *)
LEMMA TaskBegins ==
    ASSUME CaseInv, NEW q \in CaseRequest, NEW i \in Incident, NEW s \in TASK_STATUSES,
           update_task(q, i, s)
    PROVE  CaseInv'
<1>1. PICK tx : tx = [op |-> "task", incident |-> i, target |-> s, row |-> task[i]]
      OBVIOUS
<1>2. tx.op = "task" /\ tx.incident = i /\ tx.target = s /\ tx.row = task[i]
      BY <1>1
<1>3. /\ Begins(q, tx) /\ task[i] # NoTask
      /\ UNCHANGED <<incident, lastIncident, timeline, linked, task, present, contended>>
      BY <1>1 DEF update_task
<1>4. get_incident(i) /\ task[i] \in TaskRow
      BY <1>3 DEF CaseInv, CaseTypes, BlankUntilOpened
<1>5. CaseStands(tx)'
      BY <1>2, <1>3, <1>4 DEF CaseStands, get_incident
<1> QED BY <1>2, <1>3, <1>5, CaseBegins

(* A step that leaves the requests in flight what they rely on. *)
LEMMA OthersStand ==
    ASSUME CaseInv, lastIncident' = lastIncident, contended' = contended,
           \/ caseReq' = caseReq
           \/ \E q \in CaseRequest : caseReq' = [caseReq EXCEPT ![q] = NoCaseReq],
           \A j \in Incident : task[j].completed => task'[j].completed,
           \A j \in Incident : Milestones(j)' = Milestones(j)
    PROVE  CaseRequests' /\ caseReq' = [q \in CaseRequest |-> caseReq'[q]]
<1>1. ASSUME NEW p \in CaseRequest, NEW r \in {caseReq[p]} PROVE CaseStands(r)'
  <2>1. CaseStands(r)
        BY DEF CaseInv, CaseRequests
  <2>2. \A j \in Incident : get_incident(j) =>
           /\ incident'[j].status # "none"
           /\ incident[j].contained # 0 => incident'[j].contained # 0
        BY DEF Milestones, get_incident
  <2> QED BY <2>1, <2>2, StandsStill
<1> QED BY <1>1, RequestsAfter DEF CaseInv

(* A request ends without a commit. *)
LEMMA CaseRollsBack ==
    ASSUME CaseInv, NEW q \in CaseRequest, RollbackCase(q)
    PROVE  CaseInv'
<1>1. /\ caseReq' = [caseReq EXCEPT ![q] = NoCaseReq]
      /\ UNCHANGED <<incident, lastIncident, timeline, linked, task, present, contended>>
      BY DEF RollbackCase, Ends
<1>2. /\ \A j \in Incident : task[j].completed => task'[j].completed
      /\ \A j \in Incident : Milestones(j)' = Milestones(j)
      BY <1>1 DEF Milestones
<1>3. CaseRequests' /\ caseReq' = [p \in CaseRequest |-> caseReq'[p]]
      BY <1>1, <1>2, OthersStand
<1> QED BY <1>1, <1>3, CaseKept

-----------------------------------------------------------------------------
(* An edit of other columns, with or without an entry of its own. *)
LEMMA CaseEdited ==
    ASSUME CaseInv, NEW i \in Incident, get_incident(i),
           UNCHANGED <<lastIncident, linked, task, present, contended, caseReq>>,
           incident' \in [Incident -> CaseRow],
           \A j \in Incident :
              incident'[j].number = incident[j].number /\ Milestones(j)' = Milestones(j),
           NEW x \in TimelineEntry,
           x.kind = "assignment" \/ (x.kind = "note" /\ x.to = None),
           timeline' = timeline \/ record_timeline(i, <<x>>)
    PROVE  CaseInv'
<1>1. \A j \in Incident : /\ incident'[j].status = incident[j].status
                          /\ incident'[j].contained = incident[j].contained
                          /\ incident'[j].closed = incident[j].closed
      BY DEF Milestones
<1>2. CaseTypes
      BY DEF CaseInv
<1>3. /\ timeline' \in [Incident -> Seq(TimelineEntry)]
      /\ \A j \in Incident : j # i => timeline'[j] = timeline[j]
      /\ \A j \in Incident : ContinuesQuietly(timeline[j], timeline'[j])
      /\ \A j \in Incident : TellsOfDone(timeline'[j]) <=> TellsOfDone(timeline[j])
      /\ \A j \in Incident, o \in Linkable : LinksTo(timeline'[j], o) = LinksTo(timeline[j], o)
  <2>1. CASE timeline' = timeline
    <3>1. \A j \in Incident : ContinuesQuietly(timeline[j], timeline[j])
      <4>1. \A s \in Seq(TimelineEntry) : Len(s) \in Nat
            OBVIOUS
      <4> QED BY <1>2, <4>1 DEF CaseTypes, ContinuesQuietly, Continues
    <3> QED BY <1>2, <2>1, <3>1 DEF CaseTypes
  <2>2. CASE record_timeline(i, <<x>>)
        BY <1>2, <2>2, RecordsOne
  <2> QED BY <2>1, <2>2
<1>4. CaseTypes'
      BY <1>2, <1>3 DEF CaseTypes
<1>5. CaseRequests'
  <2>1. \A j \in Incident : task[j].completed => task'[j].completed
        OBVIOUS
  <2> QED BY <2>1, OthersStand
<1>6. BlankUntilOpened'
      BY <1>1, <1>3 DEF CaseInv, BlankUntilOpened, get_incident
<1>7. CaseNumbers'
      BY <1>1, NumbersKept DEF CaseInv
<1>8. StatusTold'
      BY <1>2, <1>3, ToldKept DEF CaseInv
<1>9. DoneTold'
      BY <1>3 DEF CaseInv, DoneTold
<1>10. LinksAreOnTheTimeline'
      BY <1>3, LinksKept DEF CaseInv
<1> QED BY <1>4, <1>5, <1>6, <1>7, <1>8, <1>9, <1>10 DEF CaseInv

(* An assignment and its entry. *)
LEMMA CaseAssigned ==
    ASSUME CaseInv, NEW i \in Incident, NEW u \in Account \cup {None}, assign_incident(i, u)
    PROVE  CaseInv'
<1>1. PICK x : x = Entry("assignment", None, u)
      OBVIOUS
<1>2. x \in TimelineEntry /\ x.kind = "assignment"
      BY <1>1 DEF Entry, TimelineEntry, EntryKind, EntryDetail
<1>3. /\ get_incident(i) /\ record_timeline(i, <<x>>)
      /\ UNCHANGED <<lastIncident, linked, task, present, contended, caseReq>>
      /\ incident' = [incident EXCEPT ![i].analyst = u]
      BY <1>1 DEF assign_incident, AtOnce
<1>4. incident \in [Incident -> CaseRow]
      BY DEF CaseInv, CaseTypes
<1>5. /\ incident' \in [Incident -> CaseRow]
      /\ \A j \in Incident :
           incident'[j].number = incident[j].number /\ Milestones(j)' = Milestones(j)
      BY <1>3, <1>4 DEF CaseRow, Milestones
<1> QED BY <1>2, <1>3, <1>5, CaseEdited

(* An edit without an entry. *)
LEMMA CaseUpdated ==
    ASSUME CaseInv, NEW i \in Incident, NEW s \in Severities, update_incident(i, s)
    PROVE  CaseInv'
<1>1. PICK x : x = Entry("note", None, None)
      OBVIOUS
<1>2. x \in TimelineEntry /\ x.kind = "note" /\ x.to = None
      BY <1>1 DEF Entry, TimelineEntry, EntryKind, EntryDetail
<1>3. /\ get_incident(i) /\ timeline' = timeline
      /\ UNCHANGED <<lastIncident, linked, task, present, contended, caseReq>>
      /\ incident' = [incident EXCEPT ![i].severity = s]
      BY DEF update_incident, AtOnce
<1>4. incident \in [Incident -> CaseRow]
      BY DEF CaseInv, CaseTypes
<1>5. /\ incident' \in [Incident -> CaseRow]
      /\ \A j \in Incident :
           incident'[j].number = incident[j].number /\ Milestones(j)' = Milestones(j)
      BY <1>3, <1>4 DEF CaseRow, Milestones
<1> QED BY <1>2, <1>3, <1>5, CaseEdited

(* A note. *)
LEMMA CaseNoted ==
    ASSUME CaseInv, NEW i \in Incident, add_note(i)
    PROVE  CaseInv'
<1>1. PICK x : x = Entry("note", None, None)
      OBVIOUS
<1>2. x \in TimelineEntry /\ x.kind = "note" /\ x.to = None
      BY <1>1 DEF Entry, TimelineEntry, EntryKind, EntryDetail
<1>3. /\ get_incident(i) /\ record_timeline(i, <<x>>)
      /\ UNCHANGED <<lastIncident, linked, task, present, contended, caseReq>>
      /\ incident' = incident
      BY <1>1 DEF add_note, AtOnce
<1>4. /\ incident' \in [Incident -> CaseRow]
      /\ \A j \in Incident :
           incident'[j].number = incident[j].number /\ Milestones(j)' = Milestones(j)
      BY <1>3 DEF CaseInv, CaseTypes, Milestones
<1> QED BY <1>2, <1>3, <1>4, CaseEdited

(* An object is deleted with its links. *)
LEMMA ObjectDeleted ==
    ASSUME CaseInv, NEW d \in Linkable, delete_asset(d)
    PROVE  CaseInv'
<1>1. /\ KindOf[d] \in {"asset", "ioc"}
      /\ present' = present \ {d} /\ linked' = {l \in linked : l[2] # d}
      /\ UNCHANGED <<incident, lastIncident, timeline, task, contended, caseReq>>
      BY DEF delete_asset, AtOnce
<1>2. CaseTypes'
      BY <1>1 DEF CaseInv, CaseTypes
<1>3. CaseRequests'
  <2>1. /\ \A j \in Incident : task[j].completed => task'[j].completed
        /\ \A j \in Incident : Milestones(j)' = Milestones(j)
        BY <1>1 DEF Milestones
  <2> QED BY <1>1, <2>1, OthersStand
<1>4. BlankUntilOpened'
      BY <1>1 DEF CaseInv, BlankUntilOpened, get_incident
<1>5. CaseNumbers'
      BY <1>1, NumbersKept DEF CaseInv
<1>6. StatusTold' /\ DoneTold'
      BY <1>1 DEF CaseInv, StatusTold, DoneTold
<1>7. LinksAreOnTheTimeline'
  <2> SUFFICES ASSUME NEW i \in Incident, NEW o \in Linkable
               PROVE  /\ \A k, l \in LinksTo(timeline[i], o) : k = l
                      /\ <<i, o>> \in linked' <=>
                           LinksTo(timeline[i], o) # {} /\ (KindOf[o] = "account" \/ o \in present')
      BY <1>1 DEF LinksAreOnTheTimeline
  <2>1. /\ \A k, l \in LinksTo(timeline[i], o) : k = l
        /\ <<i, o>> \in linked <=>
             LinksTo(timeline[i], o) # {} /\ (KindOf[o] = "account" \/ o \in present)
        BY DEF CaseInv, LinksAreOnTheTimeline
  <2>2. <<i, o>> \in linked' <=> <<i, o>> \in linked /\ o # d
        BY <1>1
  <2>3. o \in present' <=> o \in present /\ o # d
        BY <1>1
  <2>4. o = d => KindOf[o] # "account"
        BY <1>1
  <2> QED BY <2>1, <2>2, <2>3, <2>4
<1> QED BY <1>2, <1>3, <1>4, <1>5, <1>6, <1>7 DEF CaseInv

(* A task is added or updated: its row is row, the entry x says so. *)
LEMMA TaskChanged ==
    ASSUME CaseInv, NEW i \in Incident, get_incident(i),
           UNCHANGED <<incident, lastIncident, linked, present, contended>>,
           \/ caseReq' = caseReq
           \/ \E q \in CaseRequest : caseReq' = [caseReq EXCEPT ![q] = NoCaseReq],
           NEW row \in TaskRow, task' = [task EXCEPT ![i] = row],
           NEW x \in TimelineEntry, x.kind = "task", record_timeline(i, <<x>>),
           row.completed <=> task[i].completed \/ x.to = "done"
    PROVE  CaseInv'
<1>1. CaseTypes
      BY DEF CaseInv
<1>2. /\ timeline' \in [Incident -> Seq(TimelineEntry)]
      /\ Adds(timeline[i], timeline'[i], x)
      /\ \A j \in Incident : j # i => timeline'[j] = timeline[j]
      /\ \A j \in Incident : ContinuesQuietly(timeline[j], timeline'[j])
      /\ \A j \in Incident, o \in Linkable : LinksTo(timeline'[j], o) = LinksTo(timeline[j], o)
      BY <1>1, RecordsOne
<1>3. /\ task' \in [Incident -> TaskRow] /\ task'[i] = row
      /\ \A j \in Incident : j # i => task'[j] = task[j]
      BY <1>1 DEF CaseTypes
<1>4. /\ \A j \in Incident : task[j].completed => task'[j].completed
      /\ \A j \in Incident : Milestones(j)' = Milestones(j)
      BY <1>3 DEF Milestones
<1>5. CaseRequests' /\ caseReq' = [q \in CaseRequest |-> caseReq'[q]]
      BY <1>4, OthersStand
<1>6. CaseTypes'
      BY <1>1, <1>2, <1>3, <1>5 DEF CaseTypes
<1>7. BlankUntilOpened'
      BY <1>2, <1>3 DEF CaseInv, BlankUntilOpened, get_incident
<1>8. CaseNumbers'
      BY NumbersKept DEF CaseInv
<1>9. StatusTold'
      BY <1>1, <1>2, <1>4, ToldKept DEF CaseInv
<1>10. DoneTold'
  <2>1. TellsOfDone(timeline'[i]) <=> TellsOfDone(timeline[i]) \/ x.to = "done"
        BY <1>2 DEF Adds
  <2>2. task[i].completed <=> TellsOfDone(timeline[i])
        BY DEF CaseInv, DoneTold
  <2>3. task'[i].completed <=> TellsOfDone(timeline'[i])
        BY <1>3, <2>1, <2>2
  <2> QED BY <1>2, <1>3, <2>3 DEF CaseInv, DoneTold
<1>11. LinksAreOnTheTimeline'
      BY <1>2, LinksKept DEF CaseInv
<1> QED BY <1>5, <1>6, <1>7, <1>8, <1>9, <1>10, <1>11 DEF CaseInv

(* A task is added, open. *)
LEMMA TaskAdded ==
    ASSUME CaseInv, NEW i \in Incident, add_task(i)
    PROVE  CaseInv'
<1>1. PICK x, row : /\ x = Entry("task", None, "open")
                    /\ row = [status |-> "open", completed |-> FALSE]
      OBVIOUS
<1>2. x \in TimelineEntry /\ x.kind = "task" /\ x.to = "open"
      BY <1>1 DEF Entry, TimelineEntry, EntryKind, EntryDetail, TASK_STATUSES
<1>3. /\ get_incident(i) /\ record_timeline(i, <<x>>) /\ task[i] = NoTask
      /\ task' = [task EXCEPT ![i] = row]
      /\ UNCHANGED <<incident, lastIncident, linked, present, contended, caseReq>>
      BY <1>1 DEF add_task, AtOnce
<1>4. row \in TaskRow /\ ~row.completed
      BY <1>1 DEF TaskRow, TASK_STATUSES
<1>5. ~task[i].completed
      BY <1>3 DEF NoTask
<1> QED BY <1>2, <1>3, <1>4, <1>5, TaskChanged

(* A task's update commits: done stays done whoever else updates it. *)
LEMMA TaskCommits ==
    ASSUME CaseInv, NEW q \in CaseRequest, CommitTask(q)
    PROVE  CaseInv'
<1>1. PICK i, seen, status : /\ i = caseReq[q].incident /\ seen = caseReq[q].row
                             /\ status = caseReq[q].target
      OBVIOUS
<1>2. PICK x, row : /\ x = Entry("task", seen.status, status)
                    /\ row = TaskUpdated(task[i], seen, status)
      OBVIOUS
<1>3. /\ caseReq[q].op = "task" /\ record_timeline(i, <<x>>)
      /\ task' = [task EXCEPT ![i] = row]
      /\ caseReq' = [caseReq EXCEPT ![q] = NoCaseReq]
      /\ UNCHANGED <<incident, lastIncident, linked, present, contended>>
      BY <1>1, <1>2 DEF CommitTask, Ends
<1>4. /\ i \in Incident /\ get_incident(i) /\ status \in TASK_STATUSES /\ seen \in TaskRow
      /\ seen.completed => task[i].completed
      BY <1>1, <1>3 DEF CaseInv, CaseRequests, CaseStands
<1>5. x \in TimelineEntry /\ x.kind = "task" /\ x.to = status
      BY <1>2, <1>4 DEF Entry, TimelineEntry, EntryKind, EntryDetail, TaskRow
<1>6. task[i] \in TaskRow
      BY <1>4 DEF CaseInv, CaseTypes
<1>7. row \in TaskRow /\ (row.completed <=> task[i].completed \/ x.to = "done")
      BY <1>2, <1>4, <1>5, <1>6 DEF TaskUpdated, TaskRow
<1> QED BY <1>3, <1>4, <1>5, <1>7, TaskChanged

(* The first link to an object is its only entry. *)
LEMMA LinkCommits ==
    ASSUME CaseInv, NEW q \in CaseRequest, CommitLink(q)
    PROVE  CaseInv'
<1>1. PICK i, o : i = caseReq[q].incident /\ o = caseReq[q].object
      OBVIOUS
<1>2. PICK x : x = Entry(LinkKind[KindOf[o]], None, o)
      OBVIOUS
<1>3. /\ caseReq[q].op = "link" /\ record_timeline(i, <<x>>)
      /\ <<i, o>> \notin linked /\ (KindOf[o] = "account" \/ o \in present)
      /\ linked' = linked \cup {<<i, o>>}
      /\ caseReq' = [caseReq EXCEPT ![q] = NoCaseReq]
      /\ UNCHANGED <<incident, lastIncident, task, present, contended>>
      BY <1>1, <1>2 DEF CommitLink, Ends
<1>4. i \in Incident /\ get_incident(i) /\ o \in Linkable
      BY <1>1, <1>3 DEF CaseInv, CaseRequests, CaseStands
<1>5. /\ x.kind = LinkKind[KindOf[o]] /\ x.to = o
      /\ x.kind \in {"alert_linked", "asset_linked", "ioc_linked", "note"}
      /\ x \in TimelineEntry
  <2>1. LinkKind[KindOf[o]] \in {"alert_linked", "asset_linked", "ioc_linked", "note"}
        BY <1>4, LinkKinds
  <2> QED BY <1>2, <1>4, <2>1 DEF Entry, TimelineEntry, EntryKind, EntryDetail
<1>6. CaseTypes
      BY DEF CaseInv
<1>7. /\ timeline' \in [Incident -> Seq(TimelineEntry)]
      /\ Adds(timeline[i], timeline'[i], x)
      /\ \A j \in Incident : j # i => timeline'[j] = timeline[j]
      /\ \A j \in Incident : ContinuesQuietly(timeline[j], timeline'[j])
      /\ \A j \in Incident : TellsOfDone(timeline'[j]) <=> TellsOfDone(timeline[j])
      BY <1>3, <1>4, <1>5, <1>6, RecordsOne
<1>8. /\ \A j \in Incident : task[j].completed => task'[j].completed
      /\ \A j \in Incident : Milestones(j)' = Milestones(j)
      BY <1>3 DEF Milestones
<1>9. CaseRequests' /\ caseReq' = [p \in CaseRequest |-> caseReq'[p]]
      BY <1>3, <1>8, OthersStand
<1>10. CaseTypes'
      BY <1>3, <1>4, <1>6, <1>7, <1>9 DEF CaseTypes
<1>11. BlankUntilOpened'
      BY <1>3, <1>4, <1>7 DEF CaseInv, BlankUntilOpened, get_incident
<1>12. CaseNumbers'
      BY <1>3, NumbersKept DEF CaseInv
<1>13. StatusTold'
      BY <1>3, <1>6, <1>7, <1>8, ToldKept DEF CaseInv
<1>14. DoneTold'
      BY <1>3, <1>7 DEF CaseInv, DoneTold
<1>15. LinksAreOnTheTimeline'
  <2> SUFFICES ASSUME NEW j \in Incident, NEW p \in Linkable
               PROVE  /\ \A k, l \in LinksTo(timeline'[j], p) : k = l
                      /\ <<j, p>> \in linked' <=>
                           /\ LinksTo(timeline'[j], p) # {}
                           /\ KindOf[p] = "account" \/ p \in present'
      BY DEF LinksAreOnTheTimeline
  <2>1. PICK T, U : T = LinksTo(timeline[j], p) /\ U = LinksTo(timeline'[j], p)
        OBVIOUS
  <2>2. /\ \A k, l \in T : k = l
        /\ <<j, p>> \in linked <=> T # {} /\ (KindOf[p] = "account" \/ p \in present)
        BY <2>1 DEF CaseInv, LinksAreOnTheTimeline
  <2>3. PICK n : n = Len(timeline[i]) + 1
        OBVIOUS
  <2>4. j = i => U = T \cup {k \in {n} : x.kind = LinkKind[KindOf[p]] /\ x.to = p}
        BY <1>7, <2>1, <2>3 DEF Adds
  <2>5. CASE j = i /\ p = o
    <3>1. T = {}
          BY <1>3, <2>2, <2>5
    <3>2. U = {n}
          BY <1>5, <2>4, <2>5, <3>1
    <3>3. <<j, p>> \in linked'
          BY <1>3, <2>5
    <3> QED BY <1>3, <2>1, <2>5, <3>2, <3>3
  <2>6. CASE ~(j = i /\ p = o)
    <3>1. U = T
      <4>1. CASE j = i
        <5>1. x.to # p
              BY <1>5, <2>6, <4>1
        <5> QED BY <2>4, <4>1, <5>1
      <4>2. CASE j # i
            BY <1>7, <2>1, <4>2
      <4> QED BY <4>1, <4>2
    <3>2. <<j, p>> \in linked' <=> <<j, p>> \in linked
          BY <1>3, <2>6
    <3> QED BY <1>3, <2>1, <2>2, <3>1, <3>2
  <2> QED BY <2>5, <2>6
<1> QED BY <1>9, <1>10, <1>11, <1>12, <1>13, <1>14, <1>15 DEF CaseInv

(* A transition commits. *)
LEMMA StatusCommits ==
    ASSUME CaseInv, NEW q \in CaseRequest, NEW note \in BOOLEAN, CommitStatus(q, note)
    PROVE  CaseInv'
<1>1. PICK i, seen, target : /\ i = caseReq[q].incident /\ seen = caseReq[q].row
                             /\ target = caseReq[q].target
      OBVIOUS
<1>2. PICK x, at : x = Entry("status_change", seen.status, target) /\ at = Len(timeline[i]) + 1
      OBVIOUS
<1>3. /\ caseReq[q].op = "transition" /\ record_timeline(i, <<x>>)
      /\ incident' = [incident EXCEPT ![i] = Transitioned(@, seen, target, at, note)]
      /\ caseReq' = [caseReq EXCEPT ![q] = NoCaseReq]
      /\ UNCHANGED <<lastIncident, linked, task, present, contended>>
      BY <1>1, <1>2 DEF CommitStatus, Ends
<1>4. /\ i \in Incident /\ get_incident(i) /\ target \in INCIDENT_STATUSES /\ seen \in CaseRow
      /\ target \in INCIDENT_TRANSITIONS[seen.status]
      /\ seen.contained # 0 => incident[i].contained # 0
      /\ i \notin contended => Milestones(i) = <<seen.status, seen.contained, seen.closed>>
      BY <1>1, <1>3 DEF CaseInv, CaseRequests, CaseStands
<1>5. x \in TimelineEntry /\ x.kind = "status_change"
      BY <1>2, <1>4 DEF Entry, TimelineEntry, EntryKind, EntryDetail, CaseRow
<1>6. CaseTypes
      BY DEF CaseInv
<1>7. /\ timeline' \in [Incident -> Seq(TimelineEntry)]
      /\ Adds(timeline[i], timeline'[i], x)
      /\ \A j \in Incident : j # i => timeline'[j] = timeline[j]
      /\ \A j \in Incident : TellsOfDone(timeline'[j]) <=> TellsOfDone(timeline[j])
      /\ \A j \in Incident, o \in Linkable : LinksTo(timeline'[j], o) = LinksTo(timeline[j], o)
      BY <1>3, <1>4, <1>5, <1>6, RecordsOne
<1>8. at \in Nat
      BY <1>2, <1>7 DEF Adds
<1>9. PICK row : row = Transitioned(incident[i], seen, target, at, note)
      OBVIOUS
<1>10. /\ row \in CaseRow /\ row.status = target /\ row.number = incident[i].number
       /\ row.contained =
            (IF target = "CONTAINMENT" /\ seen.contained = 0 THEN at ELSE incident[i].contained)
       /\ row.closed =
            (IF target = "CLOSED" THEN at ELSE IF seen.closed # 0 THEN 0 ELSE incident[i].closed)
  <2>1. incident[i] \in CaseRow
        BY <1>4, <1>6 DEF CaseTypes
  <2> QED BY <1>4, <1>8, <1>9, <2>1 DEF Transitioned, CaseRow
<1>11. /\ incident' \in [Incident -> CaseRow] /\ incident'[i] = row
       /\ \A j \in Incident : j # i => incident'[j] = incident[j]
      BY <1>3, <1>4, <1>6, <1>9, <1>10 DEF CaseTypes
<1>12. "none" \notin INCIDENT_STATUSES
      BY DEF INCIDENT_STATUSES
<1>13. \A j \in Incident : /\ incident'[j].number = incident[j].number
                           /\ incident'[j].status = "none" <=> incident[j].status = "none"
      BY <1>4, <1>10, <1>11, <1>12 DEF get_incident
<1>14. CaseRequests' /\ caseReq' = [p \in CaseRequest |-> caseReq'[p]]
  <2>1. ASSUME NEW p \in CaseRequest, NEW r \in {caseReq[p]}, caseReq'[p] = r, r.op # "idle"
        PROVE  CaseStands(r)'
    <3>1. p # q
      <4>1. PICK n : n = NoCaseReq
            OBVIOUS
      <4>2. n.op = "idle"
            BY <4>1 DEF NoCaseReq
      <4>3. p = q => caseReq'[p] = n
            BY <1>3, <1>6, <4>1 DEF CaseTypes
      <4> QED BY <2>1, <4>2, <4>3
    <3>2. CaseStands(r)
          BY DEF CaseInv, CaseRequests
    <3>3. /\ \A j \in Incident : get_incident(j) =>
                /\ incident'[j].status # "none"
                /\ incident[j].contained # 0 => incident'[j].contained # 0
          /\ \A j \in Incident : task[j].completed => task'[j].completed
          BY <1>2, <1>3, <1>7, <1>10, <1>11, <1>13 DEF get_incident, Adds
    <3>4. \A j \in Incident : r.op = "transition" /\ r.incident = j /\ j \notin contended =>
            Milestones(j)' = Milestones(j)
      <4>1. r.op = "transition" /\ r.incident = i => i \in contended
            BY <1>1, <1>3, <3>1 DEF CaseInv, CaseRequests
      <4>2. \A j \in Incident : j # i => Milestones(j)' = Milestones(j)
            BY <1>11 DEF Milestones
      <4> QED BY <4>1, <4>2
    <3> QED BY <1>3, <3>2, <3>3, <3>4, StandsStill
  <2> QED BY <1>3, <2>1, RequestsAfter DEF CaseInv
<1>15. CaseTypes'
      BY <1>3, <1>6, <1>7, <1>11, <1>14 DEF CaseTypes
<1>16. BlankUntilOpened'
      BY <1>3, <1>4, <1>7, <1>13 DEF CaseInv, BlankUntilOpened, get_incident
<1>17. CaseNumbers'
      BY <1>3, <1>13, NumbersKept DEF CaseInv
<1>a. ASSUME NEW j \in Incident
      PROVE  ToldAnyway(timeline'[j], incident'[j].status, incident'[j].contained,
                        incident'[j].closed)
  <2>1. ToldAnyway(timeline[j], incident[j].status, incident[j].contained, incident[j].closed)
        BY DEF CaseInv, StatusTold
  <2>2. CASE j # i
        BY <1>7, <1>11, <2>1, <2>2
  <2>3. CASE j = i
    <3>1. PICK t, u, now, c, d, s, e, f :
               /\ t = timeline[i] /\ u = timeline'[i] /\ now = incident[i].status
               /\ c = incident[i].contained /\ d = incident[i].closed /\ s = seen.status
               /\ e = row.contained /\ f = row.closed
          OBVIOUS
    <3>2. ToldAnyway(t, now, c, d) /\ now # "none"
          BY <1>4, <2>1, <2>3, <3>1 DEF get_incident
    <3>3. target \in INCIDENT_TRANSITIONS[s] /\ Adds(t, u, Entry("status_change", s, target))
          BY <1>2, <1>4, <1>7, <3>1
    <3>4. Len(t) \in Nat /\ at = Len(t) + 1
          BY <1>2, <3>1, <3>3 DEF Adds
    <3>5. /\ e \in {c, Len(t) + 1} /\ (e # c => target = "CONTAINMENT")
          /\ target = "CONTAINMENT" => e # 0
          /\ target = "CLOSED" => f = Len(t) + 1
          BY <1>4, <1>10, <3>1, <3>4
    <3>6. ToldAnyway(u, target, e, f)
          BY <3>2, <3>3, <3>5, ToldAnywayChange
    <3> QED BY <1>10, <1>11, <2>3, <3>1, <3>6
  <2> QED BY <2>2, <2>3
<1>18. StatusTold'
  <2> SUFFICES ASSUME NEW j \in Incident, j \notin contended
               PROVE  Told(timeline'[j], incident'[j].status, incident'[j].contained,
                           incident'[j].closed)
      BY <1>3, <1>a DEF StatusTold
  <2>1. Told(timeline[j], incident[j].status, incident[j].contained, incident[j].closed)
        BY DEF CaseInv, StatusTold
  <2>2. CASE j # i
        BY <1>7, <1>11, <2>1, <2>2
  <2>3. CASE j = i
    <3>1. PICK t, u, s, c, d : /\ t = timeline[i] /\ u = timeline'[i] /\ s = seen.status
                               /\ c = seen.contained /\ d = seen.closed
          OBVIOUS
    <3>2. incident[i].status = s /\ incident[i].contained = c /\ incident[i].closed = d
          BY <1>4, <2>3, <3>1 DEF Milestones
    <3>3. Told(t, s, c, d) /\ s # "none" /\ c \in Nat /\ target # "none"
          BY <1>4, <1>12, <2>1, <2>3, <3>1, <3>2 DEF get_incident, CaseRow
    <3>4. target \in INCIDENT_TRANSITIONS[s] /\ Adds(t, u, Entry("status_change", s, target))
          BY <1>2, <1>4, <1>7, <2>3, <3>1
    <3>5. Told(u, target,
                IF target = "CONTAINMENT" /\ c = 0 THEN Len(t) + 1 ELSE c,
                IF target = "CLOSED" THEN Len(t) + 1 ELSE IF d # 0 THEN 0 ELSE d)
          BY <3>3, <3>4, ToldChange
    <3>6. /\ incident'[i].contained =
               (IF target = "CONTAINMENT" /\ c = 0 THEN Len(t) + 1 ELSE c)
          /\ incident'[i].closed =
               (IF target = "CLOSED" THEN Len(t) + 1 ELSE IF d # 0 THEN 0 ELSE d)
          /\ incident'[i].status = target
          BY <1>2, <1>10, <1>11, <3>1, <3>2
    <3> QED BY <2>3, <3>1, <3>5, <3>6
  <2> QED BY <2>2, <2>3
<1>19. DoneTold'
      BY <1>3, <1>7 DEF CaseInv, DoneTold
<1>20. LinksAreOnTheTimeline'
      BY <1>3, <1>7, LinksKept DEF CaseInv
<1> QED BY <1>14, <1>15, <1>16, <1>17, <1>18, <1>19, <1>20 DEF CaseInv

(* A case is opened. *)
LEMMA CaseOpened ==
    ASSUME CaseInv, NEW q \in CaseRequest, NEW i \in Incident, create_incident(q, i)
    PROVE  CaseInv'
<1>1. PICK S, n, u : S = caseReq[q].alerts /\ n = caseReq[q].number /\ u = caseReq[q].actor
      OBVIOUS
<1>2. PICK e, row : /\ e = Opening(S)
                    /\ row = [NoIncident EXCEPT !.status = "NEW", !.number = n, !.analyst = u]
      OBVIOUS
<1>3. /\ caseReq[q].op = "create" /\ ~get_incident(i) /\ S \subseteq present
      /\ incident' = [incident EXCEPT ![i] = row]
      /\ lastIncident' = n
      /\ record_timeline(i, e)
      /\ linked' = linked \cup ({i} \X S)
      /\ caseReq' = [caseReq EXCEPT ![q] = NoCaseReq]
      /\ UNCHANGED <<task, present, contended>>
      BY <1>1, <1>2 DEF create_incident, Ends, Opening
<1>4. u \in Account /\ S \in SUBSET CaseAlerts /\ n = lastIncident + 1
      BY <1>1, <1>3 DEF CaseInv, CaseRequests, CaseStands
<1>5. CaseTypes
      BY DEF CaseInv
<1>6. n \in Nat
      BY <1>4, <1>5 DEF CaseTypes
<1>7. /\ row.status = "NEW" /\ row.number = n /\ row.contained = 0 /\ row.closed = 0
      /\ row \in CaseRow
      BY <1>2, <1>4, <1>6 DEF NoIncident, CaseRow, INCIDENT_STATUSES, Severities
<1>8. /\ incident' \in [Incident -> CaseRow] /\ incident'[i] = row
      /\ \A j \in Incident : j # i => incident'[j] = incident[j]
      BY <1>3, <1>5, <1>7 DEF CaseTypes
<1>9. /\ e \in Seq(TimelineEntry)
      /\ \A k \in 1..Len(e) : \/ e[k].kind = "created" /\ e[k].to = None
                              \/ e[k].kind = "alert_linked" /\ e[k].to \in S
      /\ \A k, l \in 1..Len(e) :
           /\ e[k].kind = "alert_linked" /\ e[l].kind = "alert_linked" /\ e[k].to = e[l].to
           => k = l
      /\ \A o \in S : \E k \in 1..Len(e) : e[k].kind = "alert_linked" /\ e[k].to = o
      BY <1>2, <1>4, OpeningEntries
<1>10. DOMAIN e = 1..Len(e) /\ Len(e) \in Nat
      BY <1>9
<1>11. timeline[i] = <<>> /\ task[i] = NoTask
      BY <1>3 DEF CaseInv, BlankUntilOpened
<1>12. <<>> \o e = e
      BY <1>9, ConcatEmptySeq
<1>13. /\ timeline' \in [Incident -> Seq(TimelineEntry)] /\ timeline'[i] = e
       /\ \A j \in Incident : j # i => timeline'[j] = timeline[j]
      BY <1>3, <1>5, <1>9, <1>11, <1>12 DEF record_timeline, CaseTypes
<1>14. CaseRequests' /\ caseReq' = [p \in CaseRequest |-> caseReq'[p]]
  <2>1. ASSUME NEW p \in CaseRequest, NEW r \in {caseReq[p]}, caseReq'[p] = r, r.op # "idle"
        PROVE  CaseStands(r)'
    <3>1. p # q
      <4>1. PICK m : m = NoCaseReq
            OBVIOUS
      <4>2. m.op = "idle"
            BY <4>1 DEF NoCaseReq
      <4>3. p = q => caseReq'[p] = m
            BY <1>3, <1>5, <4>1 DEF CaseTypes
      <4> QED BY <2>1, <4>2, <4>3
    <3>2. CaseStands(r)
          BY DEF CaseInv, CaseRequests
    <3>3. r.op # "create"
          BY <1>3, <3>1 DEF CaseInv, CaseRequests
    <3>4. /\ \A j \in Incident : get_incident(j) =>
                /\ incident'[j].status # "none"
                /\ incident[j].contained # 0 => incident'[j].contained # 0
          /\ \A j \in Incident : task[j].completed => task'[j].completed
          BY <1>3, <1>7, <1>8 DEF get_incident
    <3>5. \A j \in Incident :
            r.op = "transition" /\ r.incident = j => Milestones(j)' = Milestones(j)
      <4>1. r.op = "transition" => r.incident # i
            BY <1>3, <3>2 DEF CaseStands
      <4>2. \A j \in Incident : j # i => Milestones(j)' = Milestones(j)
            BY <1>8 DEF Milestones
      <4> QED BY <4>1, <4>2
    <3> QED BY <1>3, <3>2, <3>3, <3>4, <3>5, StandsStill
  <2> QED BY <1>3, <2>1, RequestsAfter DEF CaseInv
<1>15. CaseTypes'
  <2>1. S \in SUBSET Linkable
        BY <1>4 DEF CaseAlerts
  <2>2. linked' \in SUBSET (Incident \X Linkable)
        BY <1>3, <1>5, <2>1 DEF CaseTypes
  <2> QED BY <1>3, <1>5, <1>6, <1>8, <1>13, <1>14, <2>2 DEF CaseTypes
<1>16. BlankUntilOpened'
      BY <1>3, <1>7, <1>8, <1>13 DEF CaseInv, BlankUntilOpened, get_incident
<1>17. CaseNumbers'
  <2>1. PICK O : O = {j \in Incident : incident[j].status # "none"}
        OBVIOUS
  <2>2. /\ IsFiniteSet(O) /\ {incident[j].number : j \in O} = 1..lastIncident
        /\ Cardinality(O) = lastIncident
        BY <2>1 DEF CaseInv, CaseNumbers, IncidentNumbersGapless, get_incident
  <2>3. i \notin O
        BY <1>3, <2>1 DEF get_incident
  <2>4. IsFiniteSet(O \cup {i}) /\ Cardinality(O \cup {i}) = lastIncident + 1
        BY <2>2, <2>3, FS_AddElement
  <2>5. {j \in Incident : incident'[j].status # "none"} = O \cup {i}
        BY <1>7, <1>8, <2>1
  <2>6. {incident'[j].number : j \in O \cup {i}} = 1..n
    <3>1. \A j \in O : incident'[j].number = incident[j].number
          BY <1>8, <2>1, <2>3
    <3>2. incident'[i].number = n
          BY <1>7, <1>8
    <3>3. 1..n = 1..lastIncident \cup {n}
          BY <1>4, <1>5 DEF CaseTypes
    <3>4. {incident'[j].number : j \in O \cup {i}} = {incident[j].number : j \in O} \cup {n}
          BY <3>1, <3>2
    <3> QED BY <2>2, <3>3, <3>4
  <2> QED BY <1>3, <1>4, <2>4, <2>5, <2>6 DEF CaseNumbers, IncidentNumbersGapless, get_incident
<1>18. StatusTold'
  <2> SUFFICES ASSUME NEW j \in Incident
               PROVE  /\ ToldAnyway(timeline'[j], incident'[j].status, incident'[j].contained,
                                    incident'[j].closed)
                      /\ j \notin contended =>
                           Told(timeline'[j], incident'[j].status, incident'[j].contained,
                                incident'[j].closed)
      BY <1>3 DEF StatusTold
  <2>1. CASE j # i
        BY <1>8, <1>13, <2>1 DEF CaseInv, StatusTold
  <2>2. CASE j = i
    <3>1. StatusChanges(e) = {}
          BY <1>9, <1>10 DEF StatusChanges
    <3>2. ChangesTo(e, "CONTAINMENT") = {}
          BY <3>1 DEF ChangesTo
    <3>3. StatusBefore(e, Len(e) + 1) = "NEW"
          BY <3>1 DEF StatusBefore
    <3>4. Told(e, "NEW", 0, 0) /\ ToldAnyway(e, "NEW", 0, 0)
          BY <3>1, <3>2, <3>3 DEF Told, ToldAnyway
    <3> QED BY <1>7, <1>8, <1>13, <2>2, <3>4
  <2> QED BY <2>1, <2>2
<1>19. DoneTold'
  <2>1. ~TellsOfDone(e)
        BY <1>9, <1>10 DEF TellsOfDone
  <2>2. ~task[i].completed
        BY <1>11 DEF NoTask
  <2> QED BY <1>3, <1>13, <2>1, <2>2 DEF CaseInv, DoneTold
<1>20. LinksAreOnTheTimeline'
  <2> SUFFICES ASSUME NEW j \in Incident, NEW o \in Linkable
               PROVE  /\ \A k, l \in LinksTo(timeline'[j], o) : k = l
                      /\ <<j, o>> \in linked' <=>
                           /\ LinksTo(timeline'[j], o) # {}
                           /\ KindOf[o] = "account" \/ o \in present'
      BY DEF LinksAreOnTheTimeline
  <2>1. /\ \A k, l \in LinksTo(timeline[j], o) : k = l
        /\ <<j, o>> \in linked <=>
             LinksTo(timeline[j], o) # {} /\ (KindOf[o] = "account" \/ o \in present)
        BY DEF CaseInv, LinksAreOnTheTimeline
  <2>2. CASE j # i
    <3>1. timeline'[j] = timeline[j]
          BY <1>13, <2>2
    <3>2. <<j, o>> \in linked' <=> <<j, o>> \in linked
          BY <1>3, <2>2
    <3> QED BY <1>3, <2>1, <3>1, <3>2
  <2>3. CASE j = i
    <3>1. LinksTo(timeline[i], o) = {}
          BY <1>11 DEF LinksTo
    <3>2. <<i, o>> \in linked' <=> o \in S
          BY <1>3, <2>1, <2>3, <3>1
    <3>3. PICK L : L = LinkKind[KindOf[o]]
          OBVIOUS
    <3>4. LinksTo(e, o) = {k \in 1..Len(e) : e[k].kind = L /\ e[k].to = o}
          BY <1>10, <3>3 DEF LinksTo
    <3>5. /\ L # "created" /\ o # None
          /\ L = "alert_linked" <=> KindOf[o] = "alert"
          BY <3>3, LinkKinds
    <3>6. \A k \in LinksTo(e, o) : L = "alert_linked" /\ e[k].kind = "alert_linked" /\ e[k].to = o
                                   /\ o \in S /\ k \in 1..Len(e)
          BY <1>9, <3>4, <3>5
    <3>7. \A k, l \in LinksTo(e, o) : k = l
          BY <1>9, <3>6
    <3>8. o \in S => LinksTo(e, o) # {}
      <4> SUFFICES ASSUME o \in S PROVE LinksTo(e, o) # {}
          OBVIOUS
      <4>1. PICK k \in 1..Len(e) : e[k].kind = "alert_linked" /\ e[k].to = o
            BY <1>9
      <4>2. L = "alert_linked"
            BY <1>4, <3>5 DEF CaseAlerts
      <4> QED BY <3>4, <4>1, <4>2
    <3>9. o \in S => o \in present'
          BY <1>3
    <3> QED BY <1>13, <2>3, <3>2, <3>6, <3>7, <3>8, <3>9
  <2> QED BY <2>2, <2>3
<1> QED BY <1>14, <1>15, <1>16, <1>17, <1>18, <1>19, <1>20 DEF CaseInv

-----------------------------------------------------------------------------
(* Nothing is open and nothing recorded at first. *)
LEMMA CasesInitially == CasesInit => CaseInv
<1> SUFFICES ASSUME CasesInit PROVE CaseInv
    OBVIOUS
<1>1. \A i \in Incident : /\ incident[i] = NoIncident /\ timeline[i] = <<>> /\ task[i] = NoTask
      BY DEF CasesInit
<1>2. CaseTypes
  <2>1. NoIncident \in CaseRow
        BY DEF NoIncident, CaseRow, Severities
  <2>2. NoTask \in TaskRow
        BY DEF NoTask, TaskRow
  <2>3. <<>> \in Seq(TimelineEntry)
        OBVIOUS
  <2>4. caseReq = [q \in CaseRequest |-> caseReq[q]]
        BY DEF CasesInit
  <2> QED BY <2>1, <2>2, <2>3, <2>4 DEF CasesInit, CaseTypes
<1>3. CaseRequests
  <2>1. PICK n : n = NoCaseReq
        OBVIOUS
  <2>2. n.op = "idle"
        BY <2>1 DEF NoCaseReq
  <2>3. \A q \in CaseRequest : caseReq[q] = n
        BY <2>1 DEF CasesInit
  <2>4. \A q \in CaseRequest : CaseStands(caseReq[q])
        BY <2>2, <2>3 DEF CaseStands
  <2> QED BY <2>2, <2>3, <2>4 DEF CaseRequests
<1>4. BlankUntilOpened
      BY <1>1 DEF BlankUntilOpened
<1>5. CaseNumbers
  <2>1. {i \in Incident : incident[i].status # "none"} = {}
        BY <1>1 DEF NoIncident
  <2>2. lastIncident = 0 /\ 1..0 = {}
        BY DEF CasesInit
  <2>3. IsFiniteSet({}) /\ Cardinality({}) = 0
        BY FS_EmptySet
  <2>4. {incident[i].number : i \in {}} = {}
        OBVIOUS
  <2> QED BY <2>1, <2>2, <2>3, <2>4 DEF CaseNumbers, IncidentNumbersGapless, get_incident
<1>6. StatusTold
  <2>1. StatusChanges(<<>>) = {}
        BY DEF StatusChanges
  <2>2. ChangesTo(<<>>, "CONTAINMENT") = {}
        BY <2>1 DEF ChangesTo
  <2>3. Told(<<>>, "none", 0, 0) /\ ToldAnyway(<<>>, "none", 0, 0)
        BY <2>2 DEF Told, ToldAnyway
  <2>4. NoIncident.status = "none" /\ NoIncident.contained = 0 /\ NoIncident.closed = 0
        BY DEF NoIncident
  <2> QED BY <1>1, <2>3, <2>4 DEF StatusTold
<1>7. DoneTold
  <2>1. ~TellsOfDone(<<>>)
        BY DEF TellsOfDone
  <2>2. ~NoTask.completed
        BY DEF NoTask
  <2> QED BY <1>1, <2>1, <2>2 DEF DoneTold
<1>8. LinksAreOnTheTimeline
  <2>1. \A o : LinksTo(<<>>, o) = {}
        BY DEF LinksTo
  <2> QED BY <1>1, <2>1 DEF LinksAreOnTheTimeline, CasesInit
<1> QED BY <1>2, <1>3, <1>4, <1>5, <1>6, <1>7, <1>8 DEF CaseInv

(* Every request keeps the invariant. *)
LEMMA CasesStep == CaseInv /\ [CasesNext]_caseVars => CaseInv'
<1> SUFFICES ASSUME CaseInv, [CasesNext]_caseVars PROVE CaseInv'
    OBVIOUS
<1>1. ASSUME NEW q \in CaseRequest, NEW u \in Account,
             NEW S \in SUBSET {o \in Linkable : KindOf[o] = "alert"}, next_incident_id(q, u, S)
      PROVE  CaseInv'
      BY <1>1, CaseNumberTaken DEF CaseAlerts
<1>2. ASSUME NEW q \in CaseRequest, NEW i \in Incident, create_incident(q, i) PROVE CaseInv'
      BY <1>2, CaseOpened
<1>3. ASSUME NEW q \in CaseRequest, NEW i \in Incident, NEW s \in INCIDENT_STATUSES,
             transition(q, i, s)
      PROVE  CaseInv'
      BY <1>3, TransitionBegins
<1>4. ASSUME NEW q \in CaseRequest, NEW note \in BOOLEAN, CommitStatus(q, note) PROVE CaseInv'
      BY <1>4, StatusCommits
<1>5. ASSUME NEW q \in CaseRequest, NEW i \in Incident, NEW o \in Linkable, link(q, i, o)
      PROVE  CaseInv'
      BY <1>5, LinkBegins
<1>6. ASSUME NEW q \in CaseRequest, CommitLink(q) PROVE CaseInv'
      BY <1>6, LinkCommits
<1>7. ASSUME NEW q \in CaseRequest, NEW i \in Incident, NEW s \in TASK_STATUSES,
             update_task(q, i, s)
      PROVE  CaseInv'
      BY <1>7, TaskBegins
<1>8. ASSUME NEW q \in CaseRequest, CommitTask(q) PROVE CaseInv'
      BY <1>8, TaskCommits
<1>9. ASSUME NEW q \in CaseRequest, RollbackCase(q) PROVE CaseInv'
      BY <1>9, CaseRollsBack
<1>10. ASSUME NEW i \in Incident, NEW u \in Account \cup {None}, assign_incident(i, u)
       PROVE  CaseInv'
      BY <1>10, CaseAssigned
<1>11. ASSUME NEW i \in Incident, NEW s \in Severities, update_incident(i, s) PROVE CaseInv'
      BY <1>11, CaseUpdated
<1>12. ASSUME NEW i \in Incident, add_note(i) PROVE CaseInv'
      BY <1>12, CaseNoted
<1>13. ASSUME NEW i \in Incident, add_task(i) PROVE CaseInv'
      BY <1>13, TaskAdded
<1>14. ASSUME NEW o \in Linkable, delete_asset(o) PROVE CaseInv'
      BY <1>14, ObjectDeleted
<1>15. CASE UNCHANGED caseVars
  <2>1. UNCHANGED <<incident, lastIncident, timeline, linked, task, present, contended, caseReq>>
        BY <1>15 DEF caseVars
  <2>2. /\ \A j \in Incident : task[j].completed => task'[j].completed
        /\ \A j \in Incident : Milestones(j)' = Milestones(j)
        BY <2>1 DEF Milestones
  <2>3. CaseRequests' /\ caseReq' = [p \in CaseRequest |-> caseReq'[p]]
        BY <2>1, <2>2, OthersStand
  <2> QED BY <2>1, <2>3, CaseKept
<1> QED BY <1>1, <1>2, <1>3, <1>4, <1>5, <1>6, <1>7, <1>8, <1>9, <1>10, <1>11, <1>12, <1>13,
           <1>14, <1>15 DEF CasesNext

(* So it holds throughout. *)
LEMMA CaseInvHolds == CasesSpec => []CaseInv
<1>1. CasesInit => CaseInv
      BY CasesInitially
<1>2. CaseInv /\ [CasesNext]_caseVars => CaseInv'
      BY CasesStep
<1> QED BY <1>1, <1>2, PTL DEF CasesSpec

(* What the invariant says of the timelines is what the runs check. *)
LEMMA CaseInvSays == CaseInv => CaseTimelineIsTrue /\ LinksAreOnTheTimeline
<1> SUFFICES ASSUME CaseInv PROVE CaseTimelineIsTrue
    BY DEF CaseInv
<1>1. IncidentNumbersGapless
      BY DEF CaseInv, CaseNumbers
<1>2. TimelineExplainsStatus
      BY DEF CaseInv, StatusTold, Told, ToldAnyway, TimelineExplainsStatus, get_incident
<1>3. MilestonesMatchTimeline
  <2> SUFFICES ASSUME NEW i \in Incident
               PROVE  LET A == ChangesTo(timeline[i], "CONTAINMENT")
                          B == ChangesTo(timeline[i], "CLOSED")
                          c == incident[i].contained
                          d == incident[i].closed IN
                      /\ c \in (IF A = {} THEN {0} ELSE A)
                      /\ (incident[i].status = "CLOSED" => d \in B /\ \A k \in B : k <= d)
                      /\ (i \notin contended => (/\ \A k \in A : c <= k
                                               /\ (incident[i].status # "CLOSED" => d = 0)))
                      /\ (task[i].completed <=> TellsOfDone(timeline[i]))
      BY DEF MilestonesMatchTimeline
  <2>0. PICK A, B, c, d : /\ A = ChangesTo(timeline[i], "CONTAINMENT")
                          /\ B = ChangesTo(timeline[i], "CLOSED")
                          /\ c = incident[i].contained
                          /\ d = incident[i].closed
        OBVIOUS
  <2>1. /\ c \in (IF A = {} THEN {0} ELSE A)
        /\ (incident[i].status = "CLOSED" => d \in B /\ \A k \in B : k <= d)
        BY <2>0 DEF CaseInv, StatusTold, ToldAnyway
  <2>2. (i \notin contended) =>
          (/\ c = (IF A = {} THEN 0 ELSE CHOOSE k \in A : \A l \in A : k <= l)
           /\ (incident[i].status # "CLOSED" => d = 0))
        BY <2>0 DEF CaseInv, StatusTold, Told
  <2>3. A \in SUBSET Nat
    <3>1. timeline[i] \in Seq(TimelineEntry)
          BY DEF CaseInv, CaseTypes
    <3>2. PICK t \in Seq(TimelineEntry) : t = timeline[i]
          BY <3>1
    <3>3. DOMAIN t = 1..Len(t) /\ Len(t) \in Nat
          OBVIOUS
    <3> QED BY <2>0, <3>2, <3>3 DEF ChangesTo, StatusChanges
  <2>4. A # {} => \A k \in A : (CHOOSE m \in A : \A l \in A : m <= l) <= k
    <3>1. A # {} => \E m \in A : \A l \in A : m <= l
          BY <2>3, LeastNatural
    <3> QED BY <3>1, Zenon
  <2>5. i \notin contended => \A k \in A : c <= k
        BY <2>2, <2>4
  <2>6. task[i].completed <=> TellsOfDone(timeline[i])
        BY DEF CaseInv, DoneTold
  <2> QED BY <2>0, <2>1, <2>2, <2>5, <2>6
<1> QED BY <1>1, <1>2, <1>3 DEF CaseTimelineIsTrue

(* Whatever requests overlap, fail and roll back: incident numbers have no *)
(* gap and no repeat (next_display_id); every change on a case's timeline  *)
(* is one of the TRANSITIONS, the last leads to its status, and            *)
(* contained_at and the closed_at of a closed case are on it; unless two   *)
(* transitions overlapped on the case the changes are a chain (transition);*)
(* and a task has a completed_at exactly when it was once done             *)
(* (update_task).                                                          *)
THEOREM CaseTimelineIsTrueHolds == CasesSpec => []CaseTimelineIsTrue
<1>1. CaseInv => CaseTimelineIsTrue
      BY CaseInvSays
<1> QED BY <1>1, CaseInvHolds, PTL

(* However many requests link the same object to a case at the same time,  *)
(* the timeline tells of it once, and a link it tells of is there until    *)
(* the object is deleted (link_alert, link_asset, link_ioc, link_user).    *)
THEOREM LinksAreOnTheTimelineHolds == CasesSpec => []LinksAreOnTheTimeline
<1>1. CaseInv => LinksAreOnTheTimeline
      BY CaseInvSays
<1> QED BY <1>1, CaseInvHolds, PTL
=============================================================================
