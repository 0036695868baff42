----------------------------- MODULE Dashboard ------------------------------
(***************************************************************************)
(* The dashboard (DashboardPage.tsx): what the user filters, searches,     *)
(* pages through and selects in the feed that FeedClient loads, the links  *)
(* to an event (/?event=<id>) that are opened on it, and the map that      *)
(* flies to the selection (MapFlight).                                     *)
(*                                                                         *)
(* A step is a handler together with the rendering it causes and the       *)
(* effects of that; of the first rendering, which no handler waits for,    *)
(* the effects are a step of their own.  `phone' does not change during a  *)
(* visit.  Focus and scrolling are left out.  The backend answers as       *)
(* FeedService allows.                                                     *)
(***************************************************************************)
EXTENDS FeedPage, FeedClient

CONSTANTS
  Dates,         \* of the data
  Answers,       \* what the backend may answer
  Filters, Queries, Links, Phones,
  MaxMoves,      \* bound on what the user does, but for leaving the page
  MaxLinks,      \* bound on the links opened
  MaxTime,
  MaxZoom, RevealZoom, ApartFrom    \* of MapFlight

VARIABLES
  ui,        \* the rest of the state of the page
  view,      \* on a phone: the map or the feed, kept for the session
  phone,
  map,
  bounds     \* what the user still does

Map == INSTANCE MapFlight

vars == <<now, calls, cached, screen, loads, ui, view, phone, map, bounds>>
pageVars == <<now, calls, cached, screen, loads>>

NewPage == [filter |-> "all", search |-> None, sort |-> "time", page |-> 1, selected |-> None,
            rezoom |-> None,    \* the selection that a timer will set again
            link |-> None,      \* the event parameter of the URL
            note |-> FALSE,     \* "That event is no longer in the live feed"
            counts |-> None]    \* the data that the key figures count

-----------------------------------------------------------------------------
(***************************************************************************)
(* What the page derives from its state.                                   *)
(***************************************************************************)
\* Functions of the dates of the data, and of what the user chose (with @@ TLC
\* tabulates them once).
Data == (Dates \cup {Never}) \X (Dates \cup {Never})

Page == [d \in Data |-> BuildItems(d[1], d[2])] @@ <<>>
Counts == [d \in Data |-> Once(WindowEvents(d[1], d[2]), LAMBDA all : CountEvents(all.nasa \o all.usgs))] @@ <<>>
List == [d \in Data, f \in Filters, q \in Queries \cup {None}, s \in {"time", "severity"} |->
           FilteredDisasters(Page[d], f, q, s)] @@ <<>>
Markers == [d \in Data, f \in Filters, q \in Queries \cup {None}, s \in {"time", "severity"} |->
              Once(List[d, f, q, s], LAMBDA list : Ids(MapMarkers(list)))] @@ <<>>

\* An event is the same on every date.
Event(e) == ById(Page[CHOOSE d \in Data : e \in Ids(Page[d])], e)
Nearby == [d \in Data, e \in UNION {Ids(Page[d]) : d \in Data} |->
             Ids(NearbyEvents(Event(e), Page[d]))] @@ <<>>

Dated(feed) == IF feed = NoFeed THEN <<Never, Never>>
               ELSE <<feed.updatedAt["nasa"], feed.updatedAt["usgs"]>>
Items(feed) == Page[Dated(feed)]
Filtered(u, feed) == List[Dated(feed), u.filter, u.search, u.sort]

\* A bug to look for: only what the filter and the caps leave is on the map.
OnMapCapped(u, feed) == Markers[Dated(feed), u.filter, u.search, u.sort]

\* The selected event is on the map whatever the filter and the caps leave out.
OnMap(u, feed) == Markers[Dated(feed), u.filter, u.search, u.sort] \cup ({u.selected} \ {None})

Kpi(u, feed) == IF u.counts # None THEN KpiFromCounts(Counts[u.counts], u.filter)
                ELSE KpiFromItems(Items(feed), u.filter)

Headline(u) ==
  LET whole == Kpi([u EXCEPT !.filter = "all"], screen.feed)
  IN  CASE screen.phase # "ready" -> screen.phase
        [] screen.phase = "ready" /\ whole.total = 0 -> "no events"
        [] screen.phase = "ready" /\ whole.total > 0 /\ whole.significant = 0 -> "no major events"
        [] OTHER -> LeadEvent(Items(screen.feed))

ShowAllIsOffered(u) ==
  Shows("ready") /\ Filtered(u, screen.feed) = <<>> /\ Items(screen.feed) # <<>>

FeedIsShown == Active /\ (~ phone \/ view = "feed")
MapIsShown(s, v) == s.mounted /\ (~ phone \/ v = "map")

-----------------------------------------------------------------------------
(***************************************************************************)
(* The effect of the link: it waits for the live feed, then selects the    *)
(* event or says that it is gone, and is removed from the URL.             *)
(***************************************************************************)
Linked(u, s) ==
  CASE u.link # None /\ u.link \in Ids(Items(s.feed)) ->
         [u EXCEPT !.selected = u.link, !.note = FALSE, !.link = None]
    [] u.link # None /\ u.link \notin Ids(Items(s.feed)) /\ s.settled ->
         [u EXCEPT !.note = TRUE, !.link = None]
    [] OTHER -> u

LinkHits(u, s) == u.link # None /\ u.link \in Ids(Items(s.feed))

\* The list of the map is made again when one of these changes.
ListKey(u, s) == <<s.feed, u.filter, u.search, u.sort, OnMap(u, s.feed)>>

\* The page shows u, the screen s, the view v; reloaded: its items are new ones.
\* (A choice of one value is evaluated once by TLC, a LET at every use.)
Render(u, s, v, reloaded) ==
  \E done \in {Linked(u, s)}, seen \in {IF phone /\ LinkHits(u, s) THEN "map" ELSE v} :
  \E events \in {OnMap(done, s.feed)},
     listed \in {reloaded \/ ListKey(done, s) # ListKey(ui, screen)} :
       /\ ui' = done
       /\ view' = seen
       /\ map' = CASE ~ MapIsShown(s, seen) -> Map!NoMap
                   [] MapIsShown(s, seen) /\ (~ map.mounted \/ done.filter # ui.filter) ->
                        Map!Aim(Map!FreshMap, events, done.selected)
                   [] MapIsShown(s, seen) /\ map.mounted /\ done.filter = ui.filter
                        /\ (listed \/ done.selected # ui.selected) ->
                        Map!Rerun(map, events, done.selected, listed)
                   [] OTHER -> map

-----------------------------------------------------------------------------
Init ==
  /\ now = 0
  /\ calls = [c \in Calls |-> Idle]
  /\ ClientInit
  /\ ui = NewPage
  /\ view = "map"
  /\ phone \in Phones
  /\ map = Map!NoMap
  /\ bounds = [moves |-> MaxMoves, links |-> MaxLinks]

Spend(what) == bounds[what] > 0 /\ bounds' = [bounds EXCEPT ![what] = @ - 1]

Tick ==
  /\ now < MaxTime /\ now' = now + 1
  /\ UNCHANGED <<calls, cached, screen, loads, ui, view, phone, map, bounds>>

\* The page is opened, as it is or by a link of the news panel or an e-mail.
Open ==
  /\ Spend("moves")
  /\ Mount
  /\ \E link \in Links \cup {None} : ui' = [NewPage EXCEPT !.link = link]
  /\ UNCHANGED <<view, phone, map>>

\* The effects of that rendering: of the link, of the feed, and of the map.
Opened ==
  /\ MountEffect
  /\ Render(ui, screen', view, TRUE)
  /\ UNCHANGED <<phone, bounds>>

Leave ==
  /\ Unmount
  /\ ui' = NewPage /\ map' = Map!NoMap
  /\ UNCHANGED <<view, phone, bounds>>

\* The news panel navigates to the page that is already there.
OpenLink ==
  /\ Active /\ Spend("links")
  /\ \E link \in Links : Render([ui EXCEPT !.link = link], screen, view, FALSE)
  /\ UNCHANGED <<pageVars, phone>>

Again ==
  /\ Spend("moves")
  /\ TryAgain
  /\ Render(ui, screen', view, FALSE)
  /\ UNCHANGED phone

-----------------------------------------------------------------------------
(***************************************************************************)
(* The loads: what the backend answers, and what the page does with it.    *)
(***************************************************************************)
Reply(c) == calls[c] = Sent /\ \E answer \in Answers : calls' = [calls EXCEPT ![c] = answer]

BackendAnswers(c) ==
  /\ Reply(c)
  /\ UNCHANGED <<now, cached, screen, loads, ui, view, phone, map, bounds>>

AnswerArrives(c) ==
  /\ Receive(c)
  /\ IF loads[c] = "orphan" THEN UNCHANGED <<ui, view, map>>
     ELSE Render([ui EXCEPT !.counts = Dated(Feed(calls[c]))], screen', view, TRUE)
  /\ UNCHANGED <<phone, bounds>>

LoadFails(c) ==
  /\ Fail(c)
  /\ IF loads[c] = "orphan" THEN UNCHANGED <<ui, view, map>>
     ELSE Render(ui, screen', view, ~ HasCache)
  /\ UNCHANGED <<phone, bounds>>

AbortedEnds(c) == Drop(c) /\ UNCHANGED <<ui, view, phone, map, bounds>>

-----------------------------------------------------------------------------
(***************************************************************************)
(* The handlers of the page.                                               *)
(***************************************************************************)
Handled(u) ==
  /\ Spend("moves")
  /\ Render(u, screen, view, FALSE)
  /\ UNCHANGED <<pageVars, phone>>

ApplyFilter == FeedIsShown /\ \E f \in Filters : Handled([ui EXCEPT !.filter = f, !.page = 1])

Search == FeedIsShown /\ \E q \in Queries \cup {None} : Handled([ui EXCEPT !.search = q, !.page = 1])

SortBy ==
  /\ FeedIsShown /\ ui.search = None
  /\ \E s \in {"time", "severity"} : Handled([ui EXCEPT !.sort = s, !.page = 1])

ShowAll ==
  /\ FeedIsShown /\ ShowAllIsOffered(ui)
  /\ Handled([ui EXCEPT !.search = None, !.filter = "all", !.page = 1])

PrevPage ==
  /\ FeedIsShown /\ SafePage(ui.page, Filtered(ui, screen.feed)) > 1
  /\ Handled([ui EXCEPT !.page = Max({1, @ - 1})])

NextPage ==
  LET filtered == Filtered(ui, screen.feed)
  IN  /\ FeedIsShown /\ SafePage(ui.page, filtered) < TotalPages(filtered)
      /\ Handled([ui EXCEPT !.page = Min({TotalPages(filtered), @ + 1})])

SelectRow ==
  /\ FeedIsShown
  /\ \E e \in Ids(Paged(ui.page, Filtered(ui, screen.feed))) : Handled([ui EXCEPT !.selected = e])

\* A marker of an event that has left the feed does nothing.
SelectMarker ==
  /\ map.mounted
  /\ \E e \in Ids(Items(screen.feed)) :
       /\ e \in Map!Clickable(OnMap(ui, screen.feed), ui.selected)
       /\ Handled([ui EXCEPT !.selected = e])

\* A card of "Today's events" brings the map into view.
OpenFromTimeline ==
  /\ FeedIsShown /\ Spend("moves")
  /\ \E e \in Ids(TodayEvents(Filtered(ui, screen.feed))) :
       Render([ui EXCEPT !.selected = e], screen, IF phone THEN "map" ELSE view, FALSE)
  /\ UNCHANGED <<pageVars, phone>>

\* Another event that the drawer lists as near.
SelectNearby ==
  /\ ui.selected # None
  /\ \E e \in Nearby[Dated(screen.feed), ui.selected] : Handled([ui EXCEPT !.selected = e])

CloseDrawer == ui.selected # None /\ Handled([ui EXCEPT !.selected = None])

\* The selection is cleared and set again by a timer, so that the map flies once more.
ZoomTo ==
  /\ ui.selected # None /\ Spend("moves")
  /\ Render([ui EXCEPT !.selected = None, !.rezoom = ui.selected], screen,
            IF phone THEN "map" ELSE view, FALSE)
  /\ UNCHANGED <<pageVars, phone>>

Rezoom ==
  /\ ui.rezoom # None
  /\ Render([ui EXCEPT !.selected = ui.rezoom, !.rezoom = None], screen, view, FALSE)
  /\ UNCHANGED <<pageVars, phone, bounds>>

SetPhoneView ==
  /\ Active /\ phone /\ Spend("moves")
  /\ \E v \in {"map", "feed"} : Render(ui, screen, v, FALSE)
  /\ UNCHANGED <<pageVars, phone>>

DismissNote == map.mounted /\ ui.note /\ Handled([ui EXCEPT !.note = FALSE])

-----------------------------------------------------------------------------
MapMoves(action) == action /\ UNCHANGED <<pageVars, ui, view, phone>>

Next ==
  \/ Tick \/ Open \/ Opened \/ Leave \/ OpenLink \/ Again
  \/ \E c \in Calls : BackendAnswers(c) \/ AnswerArrives(c) \/ LoadFails(c) \/ AbortedEnds(c)
  \/ ApplyFilter \/ Search \/ SortBy \/ ShowAll \/ PrevPage \/ NextPage
  \/ SelectRow \/ SelectMarker \/ OpenFromTimeline \/ SelectNearby
  \/ CloseDrawer \/ ZoomTo \/ Rezoom \/ SetPhoneView \/ DismissNote
  \/ MapMoves(Map!Flying \/ Map!GuardFires \/ Map!LateMoveEnd) /\ UNCHANGED bounds
  \/ MapMoves(\/ Map!Resize \/ Map!WindowResize \/ Map!Pan
              \/ Map!OpenCluster(OnMap(ui, screen.feed), ui.selected))
       /\ Spend("moves")

\* The effects of a page run, a fetch ends, a timer fires, a frame is drawn, a flight
\* lands: of a step, the part that is enabled with it.
Fairness ==
  /\ WF_screen(MountEffect)
  /\ \A c \in Calls :
       /\ WF_calls(Reply(c))
       /\ WF_calls(Receive(c))
       /\ WF_calls(Fail(c) /\ calls[c].stage = "unavailable")
  /\ WF_map(Map!Flying)

Spec == Init /\ [][Next]_vars /\ Fairness

-----------------------------------------------------------------------------
(***************************************************************************)
(* A link to an event is answered: the event is selected or the page says  *)
(* that it is gone, whatever becomes of the loads (DashboardPage.tsx:261). *)
(* The exception is a page that was rendered over an old cache, or none,   *)
(* and whose effect then found a fresh one: it makes no load and is never  *)
(* settled, so a link to an event that it does not list may wait for ever. *)
(***************************************************************************)
NeverSettles == Active /\ screen.effect = "skips" /\ ~ screen.settled

LinkIsAnswered == ui.link # None ~> ui.link = None \/ NeverSettles

\* Without that exception: what the code does not keep.
LinkIsAlwaysAnswered == ui.link # None ~> ui.link = None

(***************************************************************************)
(* The map goes to the event that is selected, however it was selected and *)
(* whatever the filter, the search and the caps leave on the map, unless   *)
(* something cuts the flight short (DashboardPage.tsx:572).                *)
(***************************************************************************)
SelectionIsFlownTo ==
  \A e \in Ids(Page[1, 1]) :
    ui.selected = e /\ map.mounted
      ~> ~ map.mounted \/ ui.selected # e \/ map.at = e \/ map.taken

(***************************************************************************)
(* A resize of the window takes the map back to an event only while a      *)
(* flight to it is pending or under way (MapView.tsx:248).                 *)
(***************************************************************************)
ListenerIsBrief ==
  map.mounted /\ map.armed => map.timer \/ map.frame \/ map.air # {}
=============================================================================
