---------------------------- MODULE MCNewsService ----------------------------
EXTENDS NewsService

Headline == [marker |-> FALSE, after |-> {}, restImpact |-> FALSE, storms |-> {}, actsNow |-> FALSE,
             strong |-> TRUE, weak |-> FALSE, impact |-> FALSE, hazards |-> {"flood"},
             places |-> {}, phrases |-> {}, countries |-> {}, cities |-> {}, seen |-> 0, urlDay |-> NoDay]

\* A flood in a place of the feed, and a storm that may no longer be current.
MCStories == ("padang" :> [Headline EXCEPT !.places = {"padang"}, !.phrases = {"padang"},
                                           !.cities = {"ID"}])
          @@ ("melissa" :> [Headline EXCEPT !.strong = FALSE, !.weak = TRUE, !.hazards = {"storm"},
                                            !.storms = {"melissa"}])

Flood == [id |-> "flood", type |-> "flood", severity |-> "high", age |-> 0, occurred |-> 0,
          places |-> {"padang"}, phrase |-> "padang", country |-> {"ID"}, gdacs |-> TRUE, openStorms |-> {}]

Sent(id, by) == [id |-> id, by |-> by, standStrong |-> by = "guardian", standImpact |-> FALSE,
                 tags |-> {}, gdacs |-> {}]

MCOffers == ("gdelt" :> {Sent("padang", "gdelt")})
         @@ ("guardian" :> {Sent("melissa", "guardian")})
         @@ ("gdacs" :> {Sent("padang", "gdacs")})

MCConfigurations == {<<"gdelt", "guardian">>, <<"gdelt", "gdacs">>}
MCRetention == ("gdelt" :> 3) @@ ("guardian" :> 2) @@ ("gdacs" :> 3)
MCInterval == ("gdelt" :> 1) @@ ("guardian" :> 2) @@ ("gdacs" :> 2)
MCMaxBackoff == ("gdelt" :> 0) @@ ("guardian" :> 1) @@ ("gdacs" :> 0)
MCEventList == <<Flood>>
=============================================================================
