------------------------------- MODULE Views --------------------------------
(***************************************************************************)
(* Clients that look at the collections of Registry while others write:    *)
(* the pages of GET /services and the summary of GET /dashboard/summary.   *)
(*                                                                         *)
(* findAll reads a page and the total in two parallel queries, and a       *)
(* client follows hasNextPage to the end; the other collections are listed *)
(* by the same lines.  getSummary starts ten queries at once and answers   *)
(* when the last has returned.  No query shares a snapshot with another.   *)
(* A client does one thing at a time.                                      *)
(*                                                                         *)
(* Figures about collections that are not in Registry (alerts, anomalies,  *)
(* logs, metrics) are single counts nothing is compared with, and are left *)
(* out.  createdAt of incidents is too: any of them may be the recent ones.*)
(*                                                                         *)
(* A definition headed "Faulty" is a plausible bug in the definition below *)
(* it: no action uses it, and a property is checked to fail with it.       *)
(***************************************************************************)
EXTENDS Registry, Functions, FiniteSetsExt

CONSTANTS Clients,
          Limit,   \* the limit clients ask for
          Recent   \* how many incidents the summary shows

ASSUME ViewParameters ==
  /\ Limit \in Nat \ {0} /\ Recent \in Nat
  /\ IsFiniteSet(ServiceIds) /\ IsFiniteSet(IncidentIds)

VARIABLE view  \* view[c]: what client c is looking at

allVars == <<vars, view>>

-----------------------------------------------------------------------------

Totals == 0 .. Cardinality(ServiceIds)

\* Faulty: the last page counts only if it is full.
FullPages(total) == Max({1, total \div Limit})

\* Math.max(1, Math.ceil(total / limit) || 1)
TotalPages(total) == Max({1, (total + Limit - 1) \div Limit})

\* pending: the queries not yet answered.  known: the services there were
\* when the client began.  History: late, the services stored between the two
\* queries of the page; touched, the incidents written since it began.
Walks == [pc : {"walk", "end"}, pending : SUBSET {"items", "total"},
          page : 1 .. TotalPages(Cardinality(ServiceIds)), total : Totals,
          seen : SUBSET ServiceIds, known : SUBSET ServiceIds,
          late : SUBSET ServiceIds]
Queries == {"total", "byStatus", "open", "recent"}
Summaries == [pc : {"summary"}, pending : SUBSET Queries, total : Totals,
              byStatus : [ServiceStatuses -> Totals],
              open : 0 .. Cardinality(IncidentIds), recent : SUBSET IncidentIds,
              known : SUBSET ServiceIds, touched : SUBSET IncidentIds]
Away == [pc |-> "away"]

Show(c, shown) == view' = [view EXCEPT ![c] = shown] /\ UNCHANGED vars

ViewInit == Init /\ view = [c \in Clients |-> Away]

-----------------------------------------------------------------------------
\* The list of services

\* The orders in which a query that sorts by createdAt, newest first, may
\* return the services: those with one createdAt come in any order.
NewestFirst ==
  {order \in [1 .. Cardinality(Listed) -> Listed] :
     /\ IsInjective(order)
     /\ \A m, n \in DOMAIN order : m < n =>
          services[order[m]].createdAt >= services[order[n]].createdAt}

\* Faulty: pages counted from zero.
SkipFromZero(page) == page * Limit

\* getSkip
Skip(page) == (page - 1) * Limit

Items(order, page) ==
  {order[n] : n \in DOMAIN order \cap (Skip(page) + 1 .. Skip(page) + Limit)}

FirstPage(c) ==
  /\ view[c].pc = "away"
  /\ Show(c, [pc |-> "walk", pending |-> {"items", "total"}, page |-> 1,
              total |-> 0, seen |-> {}, known |-> Listed, late |-> {}])

FindPage(c) ==
  /\ view[c].pc = "walk"
  /\ "items" \in view[c].pending
  /\ \E order \in NewestFirst :
       Show(c, [view[c] EXCEPT !.pending = @ \ {"items"},
                               !.seen = @ \cup Items(order, view[c].page)])

CountTotal(c) ==
  /\ view[c].pc = "walk"
  /\ "total" \in view[c].pending
  /\ Show(c, [view[c] EXCEPT !.pending = @ \ {"total"},
                             !.total = Cardinality(Listed)])

\* Faulty: hasNextPage counts the page itself.
NextPageIncluded(c) ==
  /\ view[c].pc = "walk"
  /\ view[c].pending = {}
  /\ Show(c, IF view[c].page <= TotalPages(view[c].total)
               THEN [view[c] EXCEPT !.page = @ + 1, !.late = {},
                                    !.pending = {"items", "total"}]
               ELSE [view[c] EXCEPT !.pc = "end"])

\* buildResult, and the client that follows hasNextPage.
NextPage(c) ==
  /\ view[c].pc = "walk"
  /\ view[c].pending = {}
  /\ Show(c, IF view[c].page < TotalPages(view[c].total)
               THEN [view[c] EXCEPT !.page = @ + 1, !.late = {},
                                    !.pending = {"items", "total"}]
               ELSE [view[c] EXCEPT !.pc = "end"])

-----------------------------------------------------------------------------
\* The summary

OpenSummary(c) ==
  /\ view[c].pc = "away"
  /\ Show(c, [pc |-> "summary", pending |-> Queries, total |-> 0,
              byStatus |-> [status \in ServiceStatuses |-> 0], open |-> 0,
              recent |-> {}, known |-> Listed, touched |-> {}])

Asked(c, query) == view[c].pc = "summary" /\ query \in view[c].pending

CountAll(c) ==
  /\ Asked(c, "total")
  /\ Show(c, [view[c] EXCEPT !.pending = @ \ {"total"},
                             !.total = Cardinality(Listed)])

\* Faulty: what is not healthy counts as unhealthy as well.
WithStatusOrWorse(status) ==
  {s \in Listed : \/ services[s].data.status = status
                  \/ status = "unhealthy" /\ services[s].data.status = "degraded"}

WithStatus(status) == {s \in Listed : services[s].data.status = status}

CountByStatus(c) ==
  /\ Asked(c, "byStatus")
  /\ Show(c, [view[c] EXCEPT !.pending = @ \ {"byStatus"},
                !.byStatus = [status \in ServiceStatuses |->
                                Cardinality(WithStatus(status))]])

\* The filter of countOpen.
IsOpen(i) == incidents[i].status \notin Over

CountOpen(c) ==
  /\ Asked(c, "open")
  /\ Show(c, [view[c] EXCEPT !.pending = @ \ {"open"},
                !.open = Cardinality({i \in Opened : IsOpen(i)})])

\* Those of the recent incidents whose status is shown as one of work to do.
FindRecent(c) ==
  /\ Asked(c, "recent")
  /\ \E S \in kSubset(Min({Recent, Cardinality(Opened)}), Opened) :
       Show(c, [view[c] EXCEPT !.pending = @ \ {"recent"},
                  !.recent = {i \in S : incidents[i].status \notin Over}])

\* The client turns away from what it has been shown.
Leave(c) ==
  /\ \/ view[c].pc = "end"
     \/ view[c].pc = "summary" /\ view[c].pending = {}
  /\ Show(c, Away)

-----------------------------------------------------------------------------

Stored == {s \in ServiceIds : services'[s] # services[s]}
Written == {i \in IncidentIds : incidents'[i] # incidents[i]}

\* What clients note of a step of Registry.
Noted(v) ==
  CASE v.pc = "walk" /\ Cardinality(v.pending) = 1 -> [v EXCEPT !.late = @ \cup Stored]
    [] v.pc = "summary" /\ v.pending # {} -> [v EXCEPT !.touched = @ \cup Written]
    [] OTHER -> v

Write == Next /\ view' = [c \in Clients |-> Noted(view[c])]

Look(c) ==
  \/ FirstPage(c) \/ FindPage(c) \/ CountTotal(c) \/ NextPage(c)
  \/ OpenSummary(c) \/ CountAll(c) \/ CountByStatus(c) \/ CountOpen(c)
  \/ FindRecent(c) \/ Leave(c)

ViewNext == Write \/ \E c \in Clients : Look(c)

ViewSpec == ViewInit /\ [][ViewNext]_allVars

-----------------------------------------------------------------------------
\* Properties

\* Every variable stays in its type; no client is sent past the last page there
\* could be.
ViewTypeOK == TypeOK /\ view \in [Clients -> Walks \cup Summaries \cup {Away}]

\* No two services share a createdAt.
Untied == \A s, t \in Listed :
            s # t => services[s].createdAt # services[t].createdAt

\* A client that has followed hasNextPage to the end has seen every service
\* there was when it began, but for at most as many as were stored between the
\* two queries of its last page: nothing else that is stored meanwhile makes it
\* miss one.  Services with one createdAt have no order and are excepted.
WalkMisses ==
  \A c \in Clients : view[c].pc = "end" /\ Untied =>
    Cardinality(view[c].known \ view[c].seen) <= Cardinality(view[c].late)

Answered(c) == view[c].pc = "summary" /\ view[c].pending = {}

\* The services by status add up to the total, give or take those stored since
\* the request came in.
TotalsAgree(c) ==
  LET by == view[c].byStatus
      sum == by["healthy"] + by["degraded"] + by["unhealthy"] + by["unknown"]
      born == Cardinality(Listed \ view[c].known)
  IN  sum - view[c].total \in -born .. born

\* The recent incidents shown as open are among those counted as open, but for
\* those whose status was written meanwhile.
RecentCounted(c) == Cardinality(view[c].recent \ view[c].touched) <= view[c].open

\* The figures of a summary may be of different moments, but they differ by no
\* more than was written meanwhile.
SummaryAgrees ==
  \A c \in Clients : Answered(c) => TotalsAgree(c) /\ RecentCounted(c)
=============================================================================
