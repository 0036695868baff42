---- MODULE MCDashboard ----
(***************************************************************************)
(* Data of two dates.  Fires 1 and 2 are in one country, of which one is   *)
(* plotted, and too close to tell apart; storm 3 has a GDACS level; flood  *)
(* 4 has no coordinates but those of GDACS; quake 5 is the strongest.  On  *)
(* the second date fire 2, the storm and quake 6 are gone.  7 is a volcano *)
(* and 8 too weak: they are in no feed, like a link to 9.                  *)
(***************************************************************************)
EXTENDS Dashboard

Reading(value, unit, where, age) == [value |-> value, unit |-> unit, where |-> where, age |-> age]

Reported(id, category, title, country, geometry, gdacs, place) ==
  [id |-> id, category |-> category, title |-> title, country |-> country, age |-> 900,
   geometry |-> geometry, gdacs |-> gdacs, gdacsPlace |-> place]

Quake(id, title, magnitude, age) ==
  [id |-> id, magnitude |-> magnitude, age |-> age, where |-> "sea", title |-> title, country |-> None]

Fire1 == Reported(1, "Wildfires", "fire", "AU", <<Reading(20000, "acres", "bush", 300)>>, None, None)
Fire2 == Reported(2, "Wildfires", "fire", "AU", <<Reading(9000, "hectares", "bush", 400)>>, "orange", "town")
Storm == Reported(3, "Severe Storms", "storm", None,
               <<Reading(60, "kts", "sea", 900), Reading(100, "kts", "sea", 600),
                 Reading(None, None, "sea", 500), Reading(70, "kts", None, 200)>>, "green", None)
Flood == Reported(4, "Floods", "flood", "NP", <<Reading(None, None, None, 100)>>, None, "town")
Volcano == Reported(7, "Volcanoes", "volcano", "IT", <<Reading(None, None, "town", 50)>>, None, None)

MCEonet == <<<<Fire1, Fire2, Storm, Volcano>>, <<Fire1, Flood>>>>
MCUsgs == <<<<Quake(6, "off the coast", 455, 50), Quake(5, "the ridge", 595, 700), Quake(8, "the strait", 444, 10)>>, <<Quake(5, "the ridge", 595, 700)>>>>
MCDistance == [p, q \in {"bush", "town", "sea"} |->
                 CASE p = q -> 0 [] p # q /\ "sea" \notin {p, q} -> 150 [] OTHER -> 900]
MCMatches == [q \in Queries, e \in 1 .. 8 |->
                [country |-> IF e = 2 THEN 1 ELSE 0, city |-> 0, location |-> 0,
                 texts |-> IF e = 3 THEN 2 ELSE 0]]
MCApart == [e, f \in 1 .. 9 |-> CASE {e, f} \in {{1, 2}, {1}, {2}} -> MaxZoom + 1
                                  [] {e, f} \in {{3, 5}} -> MaxZoom
                                  [] OTHER -> 1]

Answer(status, nasa, usgs) ==
  [stage |-> "answered", stale |-> "ok" \notin {status["nasa"], status["usgs"]}, status |-> status,
   updatedAt |-> [nasa |-> nasa, usgs |-> usgs]]
MCAnswers == {Answer([nasa |-> "ok", usgs |-> "ok"], 1, 1),
              Answer([nasa |-> "ok", usgs |-> "ok"], 2, 2),
              Answer([nasa |-> "error", usgs |-> "ok"], Never, 2),
              [stage |-> "unavailable"]}

-----------------------------------------------------------------------------
(***************************************************************************)
(* The functions against what they are to do, for every page of the data.  *)
(***************************************************************************)
\* A page is within the limit, has no event twice, and drops only weaker quakes.
PageIsFair(d) ==
  LET page == Page[d]
      all == WindowEvents(d[1], d[2])
  IN  /\ Len(page) <= Limit /\ Cardinality(Ids(page)) = Len(page)
      /\ \A i, j \in DOMAIN all.usgs :
           all.usgs[i].id \in Ids(page) /\ all.usgs[j].id \notin Ids(page)
             => ~ Stronger(all.usgs[j], all.usgs[i])

\* The counts cover the page, and are those of the page when nothing was cut.
CountsCover(d) ==
  \A t \in Types \cup {"all"} :
    LET counted == KpiFromCounts(Counts[d], t)
        listed == KpiFromItems(Page[d], t)
    IN  /\ counted.total >= listed.total /\ counted.significant >= listed.significant
        /\ Counts[d]["all"].total = Len(Page[d]) => counted = listed

\* The headline names an event of the highest severity; at most four markers pulse.
HighlightsAreFair(d) ==
  LET page == Page[d]
      lead == LeadEvent(page)
  IN  /\ lead # None => \A i \in DOMAIN page :
           SeverityRank[ById(page, lead).severity] <= SeverityRank[page[i].severity]
      /\ lead = None <=> KpiFromItems(page, "all").significant = 0
      /\ PulseIds(page) \subseteq Ids(page) /\ Cardinality(PulseIds(page)) <= 4
      /\ CountriesAffected(page) <= Len(page)

ASSUME \A d \in DOMAIN Page : PageIsFair(d) /\ CountsCover(d) /\ HighlightsAreFair(d)

\* The sentence of a rating agrees with the rating, but for an area that is
\* rounded up to a threshold.
ASSUME
  /\ \A m \in 0 .. 1000 : SentenceAgrees(AssessQuake(m))
  /\ \A kts \in 0 .. 200 : SentenceAgrees(AssessStorm(kts, None))
  /\ \A ha \in 0 .. 12000 :
       SentenceAgrees(AssessWildfire(ToHectares([value |-> ha, unit |-> "hectares"]), None))
  /\ {acres \in 0 .. 26000 :
        ~ SentenceAgrees(AssessWildfire(ToHectares([value |-> acres, unit |-> "acres"]), None))}
       = {17296, 17297, 24710}

\* A series that is thinned out keeps its first and its last entry.
ASSUME
  \A n \in 2 .. 9 :
    LET event == [geometry |-> [i \in 1 .. n |-> Reading(i, "kts", "sea", 100 - i)]]
        drawn == EonetTimeline(event, "storm")
    IN  /\ Len(drawn) = Min({n, TimelineMax})
        /\ drawn[1].value = 1 /\ Last(drawn).value = n
====
