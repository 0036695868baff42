------------------------------ MODULE NewsRules ------------------------------
(***************************************************************************)
(* The rules the news refresh applies to an article: is it disaster news,  *)
(* which feed event is it about, where is it about (newsRelevance.js,      *)
(* newsLinking.js, newsLocation.js).                                       *)
(*                                                                         *)
(* A text is what the rules read out of it.  A story is a headline with    *)
(* its link: two articles of one story have the same URL or nearly the     *)
(* same title, so deduplication keeps one.  Stories[id] is a record        *)
(*   marker       section, feature, sports, product, retrospective or past *)
(*                year: an explicit sign of something else                 *)
(*   after        names in "... after Hurricane X"; restImpact: an impact  *)
(*                or strong word besides                                   *)
(*   storms       storm names; actsNow: the storm acts now, or the names   *)
(*                cannot be told (Title Case)                              *)
(*   strong, weak, impact, hazards, places, phrases, countries, cities     *)
(*                the words of the headline and the slug; cities are given *)
(*                by the countries they are in                             *)
(*   seen, urlDay the date the provider gives, and the day in the URL      *)
(* and an article adds id, by (its provider) and, as sent,                 *)
(*   standStrong, standImpact   the standfirst (The Guardian only)         *)
(*   tags, gdacs                countries of its tags, of its GDACS report *)
(***************************************************************************)
EXTENDS Integers, Sequences, FiniteSets, FiniteSetsExt, SequencesExt

CONSTANTS Stories,    \* [story -> what its headline says]
          Retention,  \* [provider -> how long its articles may be kept]
          EonetStorms, GdacsStorms,   \* names of the current storms, per source
          Day,        \* the length of a day
          Window,     \* EVENT_WINDOW_MS
          TopEvents,  \* TOP_EVENTS
          MaxQueries  \* MAX_EVENT_QUERIES

NoEvent == [id |-> "none", country |-> {}]
UnknownStorms == {"unknown"}

SeverityRank == [high |-> 0, medium |-> 1, low |-> 2, unrated |-> 3]

-----------------------------------------------------------------------------
(***************************************************************************)
(* The publication date: for GDELT the end of the day in the URL, when the *)
(* page was seen on a later day.                                           *)
(***************************************************************************)
NoDay == 1000

Published(a) ==
  LET t == Stories[a.id]
  IN  IF a.by = "gdelt" /\ t.urlDay # NoDay /\ t.urlDay < t.seen \div Day
      THEN (t.urlDay + 1) * Day - 1 ELSE t.seen

\* names(): of the two lists those that are known, or unknown if neither is.
StormNames == {UnknownStorms, EonetStorms, GdacsStorms, EonetStorms \cup GdacsStorms}

CurrentStorms(feed, names) ==
  IF names = UnknownStorms THEN UnknownStorms
  ELSE names \cup UNION {e.openStorms : e \in ToSet(feed)}

(***************************************************************************)
(* isDisasterNews: a verdict, and whether an explicit marker decided it.   *)
(***************************************************************************)
IsCurrent(name, storms) == storms # UnknownStorms /\ name \in storms

\* The headline looks back on a storm, or names none that is current.
LooksBack(t, storms) ==
  \/ ~ t.restImpact /\ \E n \in t.after : ~ IsCurrent(n, storms)
  \/ /\ storms # UnknownStorms /\ ~ t.actsNow
     /\ t.storms # {} /\ \A n \in t.storms : ~ IsCurrent(n, storms)

Marked(a, storms) == Stories[a.id].marker \/ LooksBack(Stories[a.id], storms)

NamesDisaster(a) ==
  LET t == Stories[a.id]
  IN  \/ t.strong
      \/ t.weak /\ (t.impact \/ a.standImpact \/ a.standStrong)
      \/ a.standStrong /\ t.impact

\* GDELT finds old pages that were crawled again.
TooOld(a, at) == a.by = "gdelt" /\ at - Published(a) > Retention["gdelt"]

Keeps(a, at, storms) == ~ TooOld(a, at) /\ ~ Marked(a, storms) /\ NamesDisaster(a)

\* On cached articles, which have lost their standfirst: without a marker a
\* Guardian article stays.
KeepsCached(a, at, storms) ==
  /\ ~ TooOld(a, at) /\ ~ Marked(a, storms)
  /\ NamesDisaster(a) \/ a.by = "guardian"

-----------------------------------------------------------------------------
(***************************************************************************)
(* pickTopEvents, buildSearchPlan: the most important events, and one      *)
(* search per hazard type, in the order of their best event.  At most      *)
(* TopEvents places never fill a search (MAX_PLACES_PER_QUERY is more).    *)
(***************************************************************************)
MoreImportant(e, f) ==
  \/ SeverityRank[e.severity] < SeverityRank[f.severity]
  \/ SeverityRank[e.severity] = SeverityRank[f.severity] /\ e.age < f.age

Top(feed) ==
  LET ranked == SortSeq(feed, MoreImportant)
  IN  SubSeq(ranked, 1, Min({TopEvents, Len(ranked)}))

Plan(top) ==
  LET placed == SelectSeq(top, LAMBDA e : e.places # {})
      IsFirstOfType(i) == \A j \in 1 .. i - 1 : placed[j].type # placed[i].type
      heads == SetToSortSeq({i \in DOMAIN placed : IsFirstOfType(i)}, <)
      Group(i) == SelectSeq(placed, LAMBDA e : e.type = placed[i].type)
  IN  [k \in 1 .. Min({MaxQueries, Len(heads)}) |-> Group(heads[k])]

(***************************************************************************)
(* linkArticlesToEvents and attachEvent: the event whose place words the   *)
(* article mentions most, the better ranked one on a tie; the only event   *)
(* of a search when no place matches; none that it precedes by a day.      *)
(***************************************************************************)
Score(a, e, requireHazard) ==
  LET t == Stories[a.id]
      words == Cardinality(e.places \cap t.places)
  IN  CASE requireHazard /\ e.type \notin t.hazards -> 0
        [] words > 0 /\ e.phrase \in t.phrases -> words + 1
        [] OTHER -> words

Best(a, events, requireHazard, single) ==
  LET score == [i \in DOMAIN events |-> Score(a, events[i], requireHazard)]
      best == {i \in DOMAIN events : score[i] > 0 /\ \A j \in DOMAIN events : score[j] <= score[i]}
  IN  CASE best # {} -> events[Min(best)]
        [] best = {} /\ single /\ Len(events) = 1 -> events[1]
        [] OTHER -> NoEvent

Linked(a, e) ==
  IF e # NoEvent /\ Published(a) >= e.occurred - Window THEN e ELSE NoEvent

-----------------------------------------------------------------------------
(***************************************************************************)
(* resolveLocation, confirmLocation: the linked event's country, else the  *)
(* Guardian tags', else the GDACS report's; a GDACS article keeps only the *)
(* countries its headline names, and none if it names another's city.      *)
(***************************************************************************)
Place(a, e) ==
  CASE e.country # {} -> [countries |-> e.country, source |-> "event"]
    [] e.country = {} /\ a.tags # {} -> [countries |-> a.tags, source |-> "guardian-tags"]
    [] OTHER -> [countries |-> a.gdacs, source |-> "gdacs"]

Confirmed(a, place) ==
  LET t == Stories[a.id]
  IN  IF a.by # "gdacs" \/ place.source = "guardian-tags" THEN place
      ELSE [place EXCEPT !.countries =
              IF t.cities \subseteq @ THEN @ \cap (t.countries \cup t.cities) ELSE {}]

\* What the cache holds of an article: neither standfirst, nor tags.
Cached(a, e, at) ==
  [id |-> a.id, by |-> a.by, event |-> e.id, place |-> Confirmed(a, Place(a, e)),
   fetched |-> at, expires |-> at + Retention[a.by],
   standStrong |-> FALSE, standImpact |-> FALSE]
=============================================================================
