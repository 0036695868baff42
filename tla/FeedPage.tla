------------------------------ MODULE FeedPage ------------------------------
(***************************************************************************)
(* From the data of the two sources to what the dashboard lists and plots. *)
(* On the backend: normalizeNasaEvents, normalizeUsgsEarthquakes,          *)
(* buildItems and the counts (feed.service.js).  In the browser: filter,   *)
(* search, sort, key figures, markers, pulses, headline (DashboardPage.tsx *)
(* and its utils).                                                         *)
(*                                                                         *)
(* The data of a source are known by their date.  An age is in minutes and *)
(* does not grow with the model's clock: all ages grow alike.  A text is   *)
(* what a query finds in it.                                               *)
(***************************************************************************)
EXTENDS Severity

CONSTANTS
  Eonet, Usgs,       \* the data of the sources, by date
  Distance,          \* km between two places
  Matches,           \* by query and event: how the texts of the event match
  Limit,             \* of the request; Window, MinMag: its other parameters
  Window, MinMag,
  PageSize,          \* LIST_PAGE_SIZE
  QuakeCap,          \* MAP_EARTHQUAKE_CAP
  FiresPerCountry,   \* MAX_WILDFIRE_PER_COUNTRY
  MaxMarkers,        \* MAP_MAX_MARKERS
  TodayMax           \* rows of "Today's events"

Severities == {"high", "medium", "low", "unrated"}
Types == {"earthquake", "wildfire", "flood", "storm"}
Never == -1

Take(s, n) == SubSeq(s, 1, Min({n, Len(s)}))

\* F(x), for which TLC evaluates x once.
Once(x, F(_)) == CHOOSE y \in {F(z) : z \in {x}} : TRUE

\* Array.prototype.sort is stable.
StableSort(list, Before(_, _)) ==
  LET Sorted(s) ==
        LET rank(i) == Cardinality({j \in DOMAIN s : \/ Before(s[j], s[i])
                                                     \/ ~ Before(s[i], s[j]) /\ j <= i})
        IN  [k \in DOMAIN s |-> s[CHOOSE i \in DOMAIN s : rank(i) = k]]
  IN  Once(list, Sorted)

Ids(items) == {items[i].id : i \in DOMAIN items}
ById(items, e) == items[CHOOSE i \in DOMAIN items : items[i].id = e]

-----------------------------------------------------------------------------
(***************************************************************************)
(* normalizeDisasters.js                                                   *)
(***************************************************************************)
TypeOfCategory(category) ==
  CASE category = "Wildfires" -> "wildfire"
    [] category = "Severe Storms" -> "storm"
    [] category = "Floods" -> "flood"
    [] OTHER -> None

\* The last entry of the geometry that has coordinates; where: a point or a centroid.
BestGeometry(event) ==
  LET placed == SelectSeq(event.geometry, LAMBDA g : g.where # None)
  IN  IF placed = <<>> THEN [where |-> None, age |-> None] ELSE Last(placed)

\* The GDACS point wins; far from the EONET geometry, it is only approximate.
ResolveEventLocation(eonet, gdacs) ==
  CASE gdacs = None -> [where |-> eonet, precision |-> "exact"]
    [] gdacs # None /\ eonet # None /\ Distance[gdacs, eonet] > 100 ->
         [where |-> gdacs, precision |-> "approximate"]
    [] OTHER -> [where |-> gdacs, precision |-> "exact"]

NormalizeNasaEvent(event) ==
  LET type == TypeOfCategory(event.category)
      best == BestGeometry(event)
  IN  [id |-> event.id, type |-> type, title |-> event.title, country |-> event.country,
       age |-> IF best.age # None THEN best.age ELSE event.age,
       magnitude |-> None, timeline |-> EonetTimeline(event, type)]
        @@ ResolveEventLocation(best.where, event.gdacsPlace)
        @@ AssessEonetEvent(event, type)

NormalizeNasaEvents(events) ==
  LET usable(ev) == /\ TypeOfCategory(ev.category) # None
                    /\ BestGeometry(ev).where # None \/ ev.gdacsPlace # None
      kept == SelectSeq(events, usable)
  IN  [i \in DOMAIN kept |-> NormalizeNasaEvent(kept[i])]

\* usgs.service.js; newest first.
NormalizeUsgsEarthquakes(features) ==
  LET usable(f) == /\ f.where # None /\ f.age # None
                   /\ f.magnitude # None /\ f.magnitude >= MinMag
      kept == SelectSeq(features, usable)
      item(f) == [id |-> f.id, type |-> "earthquake", title |-> f.title, country |-> f.country,
                  age |-> f.age, where |-> f.where, precision |-> "exact",
                  magnitude |-> f.magnitude, timeline |-> None, gdacsLevel |-> None,
                  strength |-> f.magnitude] @@ AssessQuake(f.magnitude)
  IN  StableSort([i \in DOMAIN kept |-> item(kept[i])], LAMBDA a, b : a.age < b.age)

-----------------------------------------------------------------------------
(***************************************************************************)
(* feed.service.js: the page of a request and the counts over the window.  *)
(***************************************************************************)
Stronger(a, b) == a.magnitude > b.magnitude \/ (a.magnitude = b.magnitude /\ a.age < b.age)

StrongestEarthquakes(quakes, cap) == Take(StableSort(quakes, Stronger), cap)

\* Chosen by strength, listed as they came.
StrongestFirst(quakes, n) ==
  SelectSeq(quakes, LAMBDA q : q.id \in Ids(StrongestEarthquakes(quakes, n)))

InWindow(items) == SelectSeq(items, LAMBDA e : e.age <= Window)

WindowEvents(nasa, usgs) ==
  [nasa |-> IF nasa = Never THEN <<>> ELSE InWindow(NormalizeNasaEvents(Eonet[nasa])),
   usgs |-> IF usgs = Never THEN <<>> ELSE InWindow(NormalizeUsgsEarthquakes(Usgs[usgs]))]

\* Events whose title repeats in the window are told apart by a subtitle.
WithSubtitles(items, all) ==
  [i \in DOMAIN items |->
     items[i] @@ [subtitle |-> Cardinality({j \in DOMAIN all : all[j].title = items[i].title}) > 1]]

\* Up to 60 % of the page per source when both have data; the quakes get what is left.
BuildItems(nasa, usgs) ==
  LET perSource == IF Never \in {nasa, usgs} THEN Limit ELSE (Limit * 3 + 4) \div 5
      PageOf(all) ==
        LET nasaPage == Take(all.nasa, perSource)
            quakePage == StrongestFirst(all.usgs, Min({perSource, Limit - Len(nasaPage)}))
        IN  WithSubtitles(nasaPage \o quakePage, all.nasa \o all.usgs)
  IN  Once(WindowEvents(nasa, usgs), PageOf)

CountEvents(events) ==
  LET count(P(_)) == Cardinality({i \in DOMAIN events : P(events[i])})
  IN  [t \in Types \cup {"all"} |->
         [s \in Severities \cup {"total"} |->
            count(LAMBDA e : t \in {e.type, "all"} /\ s \in {e.severity, "total"})]]

-----------------------------------------------------------------------------
(***************************************************************************)
(* kpi.ts, headline.ts, liveness.ts                                        *)
(***************************************************************************)
IsSignificant(e) == e.severity \in {"high", "medium"}

KpiFromCounts(counts, filter) ==
  [total |-> counts[filter].total, significant |-> counts[filter].high + counts[filter].medium]

OfType(items, filter) == SelectSeq(items, LAMBDA e : filter \in {"all", e.type})

KpiFromItems(items, filter) ==
  [total |-> Len(OfType(items, filter)),
   significant |-> Len(SelectSeq(OfType(items, filter), IsSignificant))]

\* The sorting by severity of a page that has the highest first.
SeverityRank == [high |-> 0, medium |-> 1, low |-> 2, unrated |-> 3]

\* The first field of two keys of the same length that differs.
KeyBefore(a, b) ==
  \E i \in DOMAIN a : a[i] < b[i] /\ \A j \in 1 .. i - 1 : a[j] = b[j]

LeadEvent(items) ==
  LET key(e) == <<SeverityRank[e.severity], e.age, -e.strength, e.id>>
      sorted == StableSort(SelectSeq(items, IsSignificant), LAMBDA a, b : KeyBefore(key(a), key(b)))
  IN  IF sorted = <<>> THEN None ELSE sorted[1].id

PulseIds(markers) ==
  LET day == 24 * 60
      newest == StableSort(markers, LAMBDA a, b : KeyBefore(<<a.age, a.id>>, <<b.age, b.id>>))
      key(e) == <<SeverityRank[e.severity], e.age, e.id>>
      recent == SelectSeq(markers, LAMBDA e : IsSignificant(e) /\ e.age <= day)
  IN  Ids(Take(newest, 1)) \cup
      Ids(Take(StableSort(recent, LAMBDA a, b : KeyBefore(key(a), key(b))), 3))

-----------------------------------------------------------------------------
(***************************************************************************)
(* DashboardPage.tsx: the list, its pages, and the markers.                *)
(***************************************************************************)
\* How much a match in one of the texts weighs: equal, at its start, inside.
Weigh(match, weights) == IF match = 0 THEN 0 ELSE weights[match]

SearchScore(e, query) ==
  LET m == Matches[query, e.id]
  IN  Weigh(m.country, <<200, 160, 120>>) + Weigh(m.city, <<180, 140, 100>>)
        + Weigh(m.location, <<90, 90, 60>>) + Weigh(m.texts, <<40, 25, 15>>)

FilteredDisasters(items, filter, query, sortBy) ==
  LET typed == OfType(items, filter)
      key(e) == CASE query # None -> <<-SearchScore(e, query), e.age>>
                  [] query = None /\ sortBy = "time" -> <<e.age>>
                  [] OTHER -> <<SeverityRank[e.severity]>>
      found == SelectSeq(typed, LAMBDA e : query = None \/ SearchScore(e, query) > 0)
  IN  StableSort(found, LAMBDA a, b : KeyBefore(key(a), key(b)))

TodayEvents(filtered) == Take(StableSort(filtered, LAMBDA a, b : a.age < b.age), TodayMax)

TotalPages(filtered) == Max({1, (Len(filtered) + PageSize - 1) \div PageSize})
SafePage(page, filtered) == Min({Max({1, page}), TotalPages(filtered)})
Paged(page, filtered) ==
  LET start == (SafePage(page, filtered) - 1) * PageSize
  IN  SubSeq(filtered, start + 1, Min({start + PageSize, Len(filtered)}))

\* Of a country's fires the first in the list's order.
UnderFireCap(filtered) ==
  LET capped(i) == /\ filtered[i].type = "wildfire"
                   /\ Cardinality({j \in 1 .. i - 1 : /\ filtered[j].type = "wildfire"
                                                      /\ filtered[j].country = filtered[i].country})
                        >= FiresPerCountry
      kept == SetToSortSeq({i \in DOMAIN filtered : filtered[i].type # "earthquake" /\ ~ capped(i)}, <)
  IN  [k \in DOMAIN kept |-> filtered[kept[k]]]

MapMarkers(filtered) ==
  LET quakes == SelectSeq(filtered, LAMBDA e : e.type = "earthquake")
  IN  Take(StrongestEarthquakes(quakes, QuakeCap) \o UnderFireCap(filtered), MaxMarkers)

CountriesAffected(markers) ==
  Cardinality({markers[i].country : i \in DOMAIN markers} \ {None})

\* What the drawer of an event lists as near it, nearest first (eventInsights.ts).
NearbyEvents(event, all) ==
  LET km(e) == Distance[event.where, e.where]
  IN  Take(StableSort(SelectSeq(all, LAMBDA e : e.id # event.id /\ km(e) <= 500),
                      LAMBDA a, b : km(a) < km(b)), 4)
=============================================================================
