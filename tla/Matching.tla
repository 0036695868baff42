------------------------------ MODULE Matching ------------------------------
(***************************************************************************)
(* The pure matching rules of the notification service                     *)
(* (notification-service/src/match.js): does one subscription's rule match *)
(* one event, and should the event notify the subscription's owner now?    *)
(*                                                                         *)
(* An event is a record [type, severity, place, at] and a subscription row *)
(* a record with at least [type, minSeverity, place, radius, active,       *)
(* created].  Distances are in hundredths of a kilometre, so the rounding  *)
(* to a tenth of a kilometre is visible; the great-circle formula itself   *)
(* is the constant Distance, any function into Nat.                        *)
(***************************************************************************)
EXTENDS Integers

CONSTANTS Users,        \* accounts
          Places,       \* points an event or a subscription centre can have
          Distance,     \* the great-circle distance of two places
          Types,        \* hazard types
          MaxEventAge   \* MAX_EVENT_AGE_MS, in ticks of the model's clock

ASSUME DistanceAssumption == Distance \in [Places \X Places -> Nat]
ASSUME AgeAssumption == MaxEventAge \in Nat

AnyType == "any"
ASSUME AnyTypeAssumption == AnyType \notin Types

SubscriptionSeverities == {"low", "medium", "high"}
Severities == SubscriptionSeverities \cup {"unrated"}

SeverityRank == [unrated |-> -1, low |-> 0, medium |-> 1, high |-> 2]

\* What a user chooses for a subscription.
Rule == [type : Types \cup {AnyType}, minSeverity : SubscriptionSeverities,
         place : Places, radius : Nat]

EventData == [type : Types, severity : Severities, place : Places, at : Nat]

HaversineKm(p, q) == Distance[p, q]

TypeMatches(subscriptionType, eventType) ==
  subscriptionType \in {AnyType, eventType}

SeverityMatches(minSeverity, eventSeverity) ==
  IF eventSeverity = "unrated"
  THEN minSeverity = "low"
  ELSE SeverityRank[eventSeverity] >= SeverityRank[minSeverity]

MatchesSubscription(event, sub) ==
  /\ sub.active
  /\ TypeMatches(sub.type, event.type)
  /\ SeverityMatches(sub.minSeverity, event.severity)
  /\ HaversineKm(sub.place, event.place) <= sub.radius

ShouldNotify(event, sub, now) ==
  /\ MatchesSubscription(event, sub)
  /\ now - event.at <= MaxEventAge
  /\ sub.created <= event.at

(***************************************************************************)
(* Math.round(d * 10) / 10 on a distance in kilometres: the nearest tenth, *)
(* halves up, in hundredths.                                               *)
(***************************************************************************)
RoundToTenth(d) == ((d + 5) \div 10) * 10
=============================================================================
