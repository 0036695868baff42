------------------------------ MODULE Severity ------------------------------
(***************************************************************************)
(* How an event is rated and what is said of the rating                    *)
(* (backend/src/utils/severity.js, magnitude.js), and the scale the event  *)
(* drawer draws of it (frontend utils/eventInsights.ts).                   *)
(*                                                                         *)
(* Magnitudes come in hundredths and are rounded to tenths; an area is in  *)
(* units of 0.00001 ha, in which an acre is whole; winds are in knots.     *)
(***************************************************************************)
EXTENDS Integers, Sequences, SequencesExt, FiniteSetsExt

CONSTANTS None,          \* null: nothing was reported
          TimelineMax    \* TIMELINE_MAX_POINTS

\* The thresholds, as they are served with the feed.
SeverityRules ==
  [earthquake |-> [medium |-> 50,   high |-> 60,    step |-> 1],
   wildfire   |-> [medium |-> 7000, high |-> 10000, step |-> 1],
   storm      |-> [medium |-> 64,   high |-> 96,    step |-> 1]]

GdacsLevelSeverity == [green |-> "low", orange |-> "medium", red |-> "high"]

-----------------------------------------------------------------------------
RoundMagnitude(m) ==
  CASE m = None -> None
    [] m # None /\ m >= 0 -> (m + 5) \div 10
    [] OTHER -> -((5 - m) \div 10)

IsReading(r) == r.value # None /\ r.value >= 0

ToHectares(r) ==
  CASE IsReading(r) /\ r.unit = "hectares" -> r.value * 100000
    [] IsReading(r) /\ r.unit = "acres" -> r.value * 40469
    [] OTHER -> None

ToKnots(r) == IF IsReading(r) /\ r.unit = "kts" THEN r.value ELSE None

\* 0 and -1 are below hurricane strength.
SaffirSimpson(kts) ==
  LET steps == <<34, 64, 83, 96, 113, 137>>
  IN  Cardinality({i \in 1 .. 6 : kts >= steps[i]}) - 1

-----------------------------------------------------------------------------
(***************************************************************************)
(* assessSeverity: the rating, what it is based on and the number and the  *)
(* range its sentence gives.                                               *)
(***************************************************************************)
Unrated == [severity |-> "unrated", basis |-> "nothing"]

Rate(x, medium, high) ==
  CASE x >= high -> "high" [] medium <= x /\ x < high -> "medium" [] OTHER -> "low"

Rated(basis, severity, shown) ==
  [severity |-> severity, basis |-> basis, shown |-> shown]

AssessQuake(magnitude) ==
  LET m == RoundMagnitude(magnitude)
      rule == SeverityRules.earthquake
  IN  IF m = None THEN [severity |-> "low", basis |-> "nothing"]
      ELSE Rated("earthquake", Rate(m, rule.medium, rule.high), m)

AssessStorm(peak, current) ==
  LET rule == SeverityRules.storm
  IN  IF peak = None THEN Unrated
      ELSE Rated("storm", Rate(peak, rule.medium, rule.high), peak)
             @@ [now |-> IF current = None THEN peak ELSE current]

FromGdacs(level) == Rated("gdacs", GdacsLevelSeverity[level], level)

\* The area is rated as it is and shown rounded to a hectare.
AssessWildfire(area, level) ==
  LET rule == SeverityRules.wildfire
  IN  CASE level # None -> FromGdacs(level)
        [] level = None /\ area = None -> Unrated
        [] OTHER -> Rated("wildfire", Rate(area, rule.medium * 100000, rule.high * 100000),
                          (area + 50000) \div 100000)

AssessFlood(level) == IF level = None THEN Unrated ELSE FromGdacs(level)

-----------------------------------------------------------------------------
(***************************************************************************)
(* assessEonetEvent: a fire by its last measured area, a storm by the peak *)
(* of its series; the GDACS level of the event, whatever its type.         *)
(***************************************************************************)
AssessEonetEvent(event, type) ==
  LET measured == SelectSeq(event.geometry, LAMBDA g : g.value # None)
      latest == IF measured = <<>> THEN [value |-> None, unit |-> None] ELSE Last(measured)
      winds == SelectSeq([i \in DOMAIN measured |-> ToKnots(measured[i])], LAMBDA w : w # None)
      peak == IF winds = <<>> THEN None ELSE Max(ToSet(winds))
      current == CASE winds = <<>> -> None
                   [] winds # <<>> /\ ToKnots(latest) # None -> ToKnots(latest)
                   [] OTHER -> Last(winds)
      rating == CASE type = "storm" -> AssessStorm(peak, current)
                  [] type = "wildfire" -> AssessWildfire(ToHectares(latest), event.gdacs)
                  [] type = "flood" -> AssessFlood(event.gdacs)
  IN  rating @@ [gdacsLevel |-> event.gdacs,
                 strength |-> IF type = "storm" /\ peak # None THEN 100 * peak ELSE 0]

-----------------------------------------------------------------------------
(***************************************************************************)
(* severityScale: what the scale is measured on, the event's level, and    *)
(* the range that is written under a level.                                *)
(***************************************************************************)
ScaleBasis(e) ==
  CASE e.type = "earthquake" -> "earthquake"
    [] e.type # "earthquake" /\ e.gdacsLevel # None -> "gdacs"
    [] e.type \in {"storm", "wildfire"} /\ e.gdacsLevel = None -> e.type
    [] OTHER -> "gdacs"

InRange(level, rule, shown) ==
  CASE level = "low" -> shown < rule.medium
    [] level = "medium" -> rule.medium <= shown /\ shown <= rule.high - rule.step
    [] level = "high" -> shown >= rule.high

\* The number in the sentence lies in the range the sentence and the scale give.
SentenceAgrees(rating) ==
  rating.basis \in DOMAIN SeverityRules =>
    InRange(rating.severity, SeverityRules[rating.basis], rating.shown)

(***************************************************************************)
(* buildEonetTimeline: the dated entries of a storm or a fire, oldest      *)
(* first; a long series keeps its ends and evenly spaced entries between.  *)
(***************************************************************************)
EonetTimeline(event, type) ==
  LET value(g) == IF type = "storm" THEN ToKnots(g) ELSE ToHectares(g)
      points == SortSeq(SelectSeq(event.geometry, LAMBDA g : g.age # None),
                        LAMBDA g, h : g.age > h.age)
      steps == TimelineMax - 1
      picked == IF Len(points) <= TimelineMax THEN DOMAIN points
                ELSE {1 + (2 * i * (Len(points) - 1) + steps) \div (2 * steps) : i \in 0 .. steps}
      kept == SetToSortSeq(picked, <)
  IN  IF type \in {"storm", "wildfire"} /\ Len(points) >= 2
        THEN [i \in DOMAIN kept |-> [age |-> points[kept[i]].age, value |-> value(points[kept[i]])]]
        ELSE None
=============================================================================
