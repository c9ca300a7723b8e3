---------------------------- MODULE SourceDiscovery ----------------------------
(***************************************************************************)
(* Reading the ticketing platforms in signal-service: one listing for a    *)
(* preview (routes/ticketing.py), or a bounded discovery that fetches and  *)
(* judges the listings of a source one by one (adapters/sources.py,        *)
(* routes/sources.py), for crawl-service to enroll.  Nothing is persisted; *)
(* every request is an await, and the platforms change meanwhile.          *)
(***************************************************************************)
EXTENDS ListingSources

CONSTANTS
  Sources,        \* the platforms in use
  Stock,          \* what each platform lists at first: source -> reference -> item
  MayList,        \* items a listing may change to
  Managed,        \* ticketing_managed_sources
  Disabled,       \* sources whose discovery is switched off
  CityFilter,     \* the city a discovery asks for, or None
  FetchCap, DiscoveryLimit,   \* quality_fetch_cap, limit
  Today,          \* the time now
  MaxReports, MaxRestocks     \* bounds

ASSUME DiscoveryIsBounded == FetchCap \in Nat /\ DiscoveryLimit \in Nat

VARIABLES
  shelf,       \* source -> reference -> the item the platform shows, None when gone
  reporting,   \* source -> the discovery under way, or its report
  told,        \* history: a preview that just ended: was it answered "gone", was it gone
  reports, restocks   \* bounds

discoveryVars == <<shelf, reporting, told, reports, restocks>>

Refs == 1 .. FetchCap

NoReport == [at |-> "none"]

DiscoveryInit ==
  /\ shelf = Stock
  /\ reporting = [s \in Sources |-> NoReport]
  /\ told = None
  /\ reports = 0
  /\ restocks = 0

(* The platform changes or drops a listing. *)
Restock(s) ==
  /\ restocks < MaxRestocks
  /\ restocks' = restocks + 1
  /\ \E r \in Refs, i \in MayList \cup {None} :
       /\ i # shelf[s][r]
       /\ shelf' = [shelf EXCEPT ![s][r] = i]
  /\ told' = None /\ UNCHANGED <<reporting, reports>>

(* A platform asked for a record it has may fail, or answer with a page    *)
(* that has none (a challenge).                                            *)
MayReply(s, r) ==
  {[status |-> "200", item |-> shelf[s][r]], [status |-> "200", item |-> None]}
  \cup {[status |-> x, item |-> None] : x \in {"403", "timeout"}}
  \cup {[status |-> "404", item |-> None] : x \in {None} \cap {shelf[s][r]}}

Asked(s, r) == [Searches(s) -> MayReply(s, r)]

(* preview_event: an exception that says the record is gone is a 404. *)
Preview(s, r) ==
  /\ \E answers \in Asked(s, r) :
       told' = [gone |-> RouteStatus(Extract(s, answers)) = "404",
                sure |-> \A k \in DOMAIN answers : Ok(answers[k]) /\ answers[k].item = None]
  /\ UNCHANGED <<shelf, reporting, reports, restocks>>

-----------------------------------------------------------------------------
(* validated_discovery.                                                    *)

Begun == [at |-> "fetch", left |-> 1 .. FetchCap, considered |-> 0,
          accepted |-> <<>>, rejected |-> <<>>, outside |-> <<>>]

StartDiscovery(s) ==
  /\ s \in Managed \ Disabled
  /\ reporting[s].at = "none"
  /\ reports < MaxReports
  /\ reports' = reports + 1
  /\ reporting' = [reporting EXCEPT ![s] = Begun]
  /\ told' = None /\ UNCHANGED <<shelf, restocks>>

(* A source that cannot list is reported so: no error. *)
Unavailable(s) ==
  /\ s \in Managed \ Disabled
  /\ reporting[s].at = "none"
  /\ reports < MaxReports
  /\ reports' = reports + 1
  /\ reporting' = [reporting EXCEPT ![s] = [Begun EXCEPT !.at = "unavailable"]]
  /\ told' = None /\ UNCHANGED <<shelf, restocks>>

InScope(e) == CityFilter # None => e.city = CityFilter

(* Judged, not yet counted out: a failed fetch is a rejection as well.     *)
Judged(report, r, outcome) ==
  LET counted == [report EXCEPT !.left = @ \ {r}, !.considered = @ + 1]
  IN  IF outcome.failure # None
      THEN [counted EXCEPT !.rejected = Append(@, {ClassifyFailure(outcome.failure)})]
      ELSE LET e == outcome.event  reasons == Rejections(e, Today)
           IN  IF reasons # {} THEN [counted EXCEPT !.rejected = Append(@, reasons)]
               ELSE IF InScope(e) THEN [counted EXCEPT !.accepted = Append(@, e)]
               ELSE [counted EXCEPT !.outside = Append(@, e)]

(* Candidates in the order they were listed, until enough are accepted.    *)
Ended(report) == report.left = {} \/ Len(report.accepted) >= DiscoveryLimit

FetchNext(s) ==
  /\ reporting[s].at = "fetch" /\ ~Ended(reporting[s])
  /\ LET r == Min(reporting[s].left)
     IN  \E answers \in Asked(s, r) :
           reporting' = [reporting EXCEPT ![s] = Judged(@, r, Extract(s, answers))]
  /\ told' = None /\ UNCHANGED <<shelf, reports, restocks>>

Report(s) ==
  /\ reporting[s].at = "fetch" /\ Ended(reporting[s])
  /\ reporting' = [reporting EXCEPT ![s].at = "done"]
  /\ told' = None /\ UNCHANGED <<shelf, reports, restocks>>

DiscoveryNext ==
  \E s \in Sources :
    \/ Restock(s) \/ StartDiscovery(s) \/ Unavailable(s) \/ FetchNext(s) \/ Report(s)
    \/ \E r \in Refs : Preview(s, r)

DiscoverySpec == DiscoveryInit /\ [][DiscoveryNext]_discoveryVars

-----------------------------------------------------------------------------
(* A record is reported gone only if the platform answered every request   *)
(* and none had the record: an outage, a block or a limit is never an      *)
(* absence, with one search or two (ticketing.py, EventNotFound).          *)
AbsenceIsAnswered == told # None => (told.gone => told.sure)

(* What a report offers for enrollment is an event: it can be identified,  *)
(* has a title that is none of the placeholders, says when, where, who or  *)
(* at what price, and is of the city that was asked for, whatever platform *)
(* it comes from and whatever that platform leaves out (quality.py).       *)
AcceptedIsAnEvent ==
  \A s \in Sources : reporting[s].at # "none" =>
    \A e \in Range(reporting[s].accepted) :
      /\ Or(e.id, e.slug) # None
      /\ e.name # None /\ ~Has(e.name, "placeholder") /\ ~Has(e.name, "spam")
      /\ e.start # None \/ e.venue # None \/ e.price # None \/ e.artists # <<>>
      /\ e.start # None => ~FarFuture(e.start, Today)
      /\ CityFilter # None => e.city = CityFilter

(* A report accounts for every listing it read, and stops at its limits    *)
(* (sources.py: bounded and honest).                                       *)
ReportAddsUp ==
  \A s \in Sources : reporting[s].at # "none" =>
    LET r == reporting[s]
    IN  /\ r.considered = Len(r.accepted) + Len(r.rejected) + Len(r.outside)
        /\ r.considered <= FetchCap /\ Len(r.accepted) <= DiscoveryLimit

(* A discovery report is honest: it offers events only and accounts for    *)
(* everything it read, within its limits.                                  *)
ReportIsHonest == AcceptedIsAnEvent /\ ReportAddsUp
=============================================================================
