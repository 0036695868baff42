-------------------------- MODULE DashboardProofs --------------------------
(***************************************************************************)
(* Proofs about Dashboard, for any feeds and whatever the user does while  *)
(* they load: the map takes off only for what is selected now, a selection *)
(* is flown to unless the flight is cut short, the resize listener is gone *)
(* when the flight is, and a link waits only for the first answer.         *)
(***************************************************************************)
EXTENDS Dashboard, TLAPS

-----------------------------------------------------------------------------
(***************************************************************************)
(* The map, for the event e that is selected.                              *)
(***************************************************************************)
IsMap(m) ==
  /\ DOMAIN m = {"mounted", "zoom", "at", "spider", "aim", "timer", "frame", "air", "armed",
                 "disarms", "fans", "late", "taken"}
  /\ m.mounted = TRUE
  /\ m.timer \in BOOLEAN /\ m.frame \in BOOLEAN /\ m.armed \in BOOLEAN
  /\ m.disarms \in BOOLEAN /\ m.taken \in BOOLEAN

Pending(m) == m.timer \/ m.frame

\* The listener of a flight that has taken off is removed when it lands.
Brief(m) == m.armed => Pending(m) \/ (m.disarms /\ m.air # {})

\* What is to take off, or may again after a resize, goes to the selection.
Current(m, e) == Pending(m) \/ m.armed => m.aim.event = e

\* The map is at the selection, or on its way, or was taken elsewhere.
Served(m, e) ==
  e # None =>
    \/ Pending(m)
    \/ m.taken
    \/ m.air = {} /\ m.at = e
    \/ \E flight \in m.air : flight.event = e /\ m.air = {flight}

MapOK(m, e) == IsMap(m) /\ Brief(m) /\ Current(m, e) /\ Served(m, e)

-----------------------------------------------------------------------------
(***************************************************************************)
(* The page: one that is gone leaves nothing behind, and an event that the *)
(* URL still names is not listed and was not waited for in vain.           *)
(***************************************************************************)
IsPage(u) ==
  DOMAIN u = {"filter", "search", "sort", "page", "selected", "rezoom", "link", "note", "counts"}

IsScreen(s) ==
  DOMAIN s = {"mounted", "effect", "phase", "settled", "stale", "feed"} /\ s.mounted = TRUE

LinkWaits(u, s) == u.link # None => ~ s.settled /\ u.link \notin Ids(Items(s.feed))

Shown(u, s, m) ==
  /\ IsScreen(s)
  /\ s.effect = "due" \/ LinkWaits(u, s)
  /\ m = Map!NoMap \/ MapOK(m, u.selected)
Gone(u, s, m) == s = NoPage /\ u = NewPage /\ m = Map!NoMap

PageInv == IsPage(ui) /\ (Shown(ui, screen, map) \/ Gone(ui, screen, map))

-----------------------------------------------------------------------------
(***************************************************************************)
(* The map under the effect for the selection.                             *)
(***************************************************************************)
LEMMA FreshMapOK == IsMap(Map!FreshMap) /\ Brief(Map!FreshMap)
  BY DEF Map!FreshMap, IsMap, Brief

LEMMA Aimed ==
  ASSUME NEW m, IsMap(m), NEW events, NEW e, e # None => e \in events,
         e \notin events => ~ Pending(m) /\ ~ m.armed
  PROVE  MapOK(Map!Aim(m, events, e), e)
<1>1. CASE e \in events
  <2> DEFINE aimed == [m EXCEPT !.aim = Map!Course(e, events), !.timer = TRUE, !.armed = TRUE,
                                !.taken = FALSE]
  <2>1. Map!Aim(m, events, e) = aimed
    BY <1>1 DEF Map!Aim
  <2>2. IsMap(aimed) /\ aimed.timer = TRUE /\ aimed.aim = Map!Course(e, events)
    BY DEF IsMap
  <2>3. Map!Course(e, events).event = e
    BY DEF Map!Course
  <2> QED
    BY <2>1, <2>2, <2>3 DEF MapOK, Brief, Current, Served, Pending
<1>2. CASE e \notin events
  <2>1. Map!Aim(m, events, e) = m
    BY <1>2 DEF Map!Aim
  <2> QED
    BY <1>2, <2>1 DEF MapOK, Brief, Current, Served
<1> QED
  BY <1>1, <1>2

LEMMA Rerun ==
  ASSUME NEW m, IsMap(m), NEW events, NEW e, e # None => e \in events, NEW changed
  PROVE  MapOK(Map!Rerun(m, events, e, changed), e)
<1> DEFINE folded == [m EXCEPT !.spider = IF changed THEN {} ELSE @]
           clean == Map!CleanUp(folded)
<1>1. IsMap(folded)
  BY DEF IsMap
<1>2. IsMap(clean) /\ ~ clean.timer /\ ~ clean.frame /\ ~ clean.armed
  BY <1>1 DEF IsMap, Map!CleanUp
<1>3. Map!Rerun(m, events, e, changed) = Map!Aim(clean, events, e)
  BY DEF Map!Rerun
<1> QED
  BY <1>2, <1>3, Aimed DEF Pending

(***************************************************************************)
(* What a rendering leaves: a link waits only for an answer, and the map,  *)
(* if it is shown, is as MapOK says for the new selection.                 *)
(***************************************************************************)
LEMMA Rendered ==
  ASSUME map = Map!NoMap \/ MapOK(map, ui.selected),
         NEW u, IsPage(u), NEW s, NEW v, NEW reloaded, Render(u, s, v, reloaded)
  PROVE  /\ IsPage(ui') /\ LinkWaits(ui', s)
         /\ map' = Map!NoMap \/ MapOK(map', ui'.selected)
<1>1. ui' = Linked(u, s)
  BY DEF Render
<1>2. IsPage(ui') /\ LinkWaits(ui', s)
  <2>1. CASE u.link # None /\ u.link \in Ids(Items(s.feed))
    <3>1. ui' = [u EXCEPT !.selected = u.link, !.note = FALSE, !.link = None]
      BY <1>1, <2>1 DEF Linked
    <3> QED
      BY <3>1 DEF IsPage, LinkWaits
  <2>2. CASE u.link # None /\ u.link \notin Ids(Items(s.feed)) /\ s.settled
    <3>1. ui' = [u EXCEPT !.note = TRUE, !.link = None]
      BY <1>1, <2>2 DEF Linked
    <3> QED
      BY <3>1 DEF IsPage, LinkWaits
  <2>3. CASE u.link # None => u.link \notin Ids(Items(s.feed)) /\ ~ s.settled
    <3>1. ui' = u
      BY <1>1, <2>3 DEF Linked
    <3> QED
      BY <2>3, <3>1 DEF LinkWaits
  <2> QED
    BY <2>1, <2>2, <2>3
<1>3. ui'.selected # None => ui'.selected \in OnMap(ui', s.feed)
  BY DEF OnMap
<1>4. MapOK(Map!Aim(Map!FreshMap, OnMap(ui', s.feed), ui'.selected), ui'.selected)
  <2>1. ~ Pending(Map!FreshMap) /\ ~ Map!FreshMap.armed
    BY DEF Map!FreshMap, Pending
  <2> QED
    BY <1>3, <2>1, FreshMapOK, Aimed
<1>5. \/ map' = Map!NoMap
      \/ map' = Map!Aim(Map!FreshMap, OnMap(ui', s.feed), ui'.selected)
      \/ /\ map.mounted
         /\ \E listed : map' = Map!Rerun(map, OnMap(ui', s.feed), ui'.selected, listed)
      \/ map.mounted /\ map' = map /\ ui'.selected = ui.selected
  <2>1. PICK seen, listed :
          map' = CASE ~ MapIsShown(s, seen) -> Map!NoMap
                   [] MapIsShown(s, seen) /\ (~ map.mounted \/ ui'.filter # ui.filter) ->
                        Map!Aim(Map!FreshMap, OnMap(ui', s.feed), ui'.selected)
                   [] MapIsShown(s, seen) /\ map.mounted /\ ui'.filter = ui.filter
                        /\ (listed \/ ui'.selected # ui.selected) ->
                        Map!Rerun(map, OnMap(ui', s.feed), ui'.selected, listed)
                   [] OTHER -> map
    BY <1>1 DEF Render
  <2>2. CASE ~ MapIsShown(s, seen)
    BY <2>1, <2>2
  <2>3. CASE MapIsShown(s, seen) /\ (~ map.mounted \/ ui'.filter # ui.filter)
    BY <2>1, <2>3
  <2>4. CASE MapIsShown(s, seen) /\ map.mounted /\ ui'.filter = ui.filter
               /\ (listed \/ ui'.selected # ui.selected)
    BY <2>1, <2>4
  <2>5. CASE MapIsShown(s, seen) /\ map.mounted /\ ui'.filter = ui.filter
               /\ ~ (listed \/ ui'.selected # ui.selected)
    BY <2>1, <2>5
  <2> QED
    BY <2>2, <2>3, <2>4, <2>5
<1>6. CASE map.mounted
  <2>1. MapOK(map, ui.selected)
    BY <1>6 DEF Map!NoMap
  <2>2. \A listed : MapOK(Map!Rerun(map, OnMap(ui', s.feed), ui'.selected, listed), ui'.selected)
    BY <1>3, <2>1, Rerun DEF MapOK
  <2> QED
    BY <1>2, <1>4, <1>5, <2>1, <2>2
<1>7. CASE ~ map.mounted
  BY <1>2, <1>4, <1>5, <1>7
<1> QED
  BY <1>6, <1>7

-----------------------------------------------------------------------------
(***************************************************************************)
(* The flights.                                                            *)
(***************************************************************************)
LEMMA MoveEnded ==
  ASSUME NEW m, IsMap(m)
  PROVE  LET ended == Map!MoveEnd(m)
         IN  /\ IsMap(ended)
             /\ ended.armed = (m.armed /\ ~ m.disarms)
             /\ ended.timer = m.timer /\ ended.frame = m.frame /\ ended.aim = m.aim
             /\ ended.air = m.air /\ ended.at = m.at /\ ended.taken = m.taken
  BY DEF Map!MoveEnd, IsMap

\* A flight that ends, at its goal or not, and the moveend that follows.
LEMMA Ended ==
  ASSUME NEW e, MapOK(map, e), NEW m, IsMap(m),
         m.armed = map.armed, m.disarms = map.disarms, m.timer = map.timer,
         m.frame = map.frame, m.aim = map.aim, Served(m, e)
  PROVE  MapOK(Map!MoveEnd(m), e)
<1> DEFINE ended == Map!MoveEnd(m)
<1>1. /\ IsMap(ended)
      /\ ended.armed => m.armed /\ ~ m.disarms
      /\ ended.timer = m.timer /\ ended.frame = m.frame /\ ended.aim = m.aim
      /\ ended.air = m.air /\ ended.at = m.at /\ ended.taken = m.taken
  BY MoveEnded
<1> HIDE DEF ended
<1>2. ended.armed => Pending(ended)
  BY <1>1 DEF MapOK, Brief, Pending
<1>3. Current(ended, e) /\ Served(ended, e)
  BY <1>1 DEF MapOK, Current, Served, Pending
<1>4. MapOK(ended, e)
  BY <1>1, <1>2, <1>3 DEF MapOK, Brief
<1> QED
  BY <1>4 DEF ended

LEMMA FlightStep ==
  ASSUME NEW e, MapOK(map, e),
         \/ Map!Flying \/ Map!GuardFires \/ Map!LateMoveEnd
         \/ Map!Resize \/ Map!WindowResize \/ Map!Pan
         \/ \E events, highlight : Map!OpenCluster(events, highlight)
  PROVE  MapOK(map', e)
<1>1. CASE Map!TimerFires
  BY <1>1 DEF Map!TimerFires, MapOK, IsMap, Pending, Brief, Current, Served
<1>2. CASE Map!TakeOff
  <2>1. map.frame /\ map.aim.event = e
    BY <1>2 DEF Map!TakeOff, MapOK, Current, Pending
  <2>2. map' = [map EXCEPT !.frame = FALSE, !.air = {map.aim}, !.at = Map!Aloft, !.spider = {},
                           !.disarms = TRUE, !.fans = @ \cup map.aim.fan]
    BY <1>2 DEF Map!TakeOff
  <2>3. /\ IsMap(map') /\ map'.disarms = TRUE /\ map'.air = {map.aim} /\ map'.aim = map.aim
    BY <2>2 DEF MapOK, IsMap
  <2> QED
    BY <2>1, <2>3 DEF MapOK, Brief, Current, Served
<1>3. CASE Map!Land
  <2>1. PICK flight \in map.air :
          map' = Map!MoveEnd([map EXCEPT !.at = flight.event, !.zoom = flight.zoom,
                                         !.air = {}, !.spider = {}])
    BY <1>3 DEF Map!Land
  <2> DEFINE landed == [map EXCEPT !.at = flight.event, !.zoom = flight.zoom,
                                   !.air = {}, !.spider = {}]
  <2>2. /\ IsMap(landed) /\ landed.armed = map.armed /\ landed.disarms = map.disarms
        /\ landed.timer = map.timer /\ landed.frame = map.frame /\ landed.aim = map.aim
        /\ landed.air = {} /\ landed.at = flight.event /\ landed.taken = map.taken
    BY DEF MapOK, IsMap
  <2>3. map' = Map!MoveEnd(landed)
    BY <2>1
  <2> HIDE DEF landed
  <2>4. Served(landed, e)
    BY <2>2 DEF MapOK, Served, Pending
  <2> QED
    BY <2>2, <2>3, <2>4, Ended
<1>4. CASE Map!GuardFires
  BY <1>4 DEF Map!GuardFires, MapOK, IsMap, Pending, Brief, Current, Served
<1>5. ASSUME NEW m, MapOK(m, e), NEW cut \in BOOLEAN, map' = Map!Sync(Map!OnResize(m), cut)
      PROVE  MapOK(map', e)
  <2>1. MapOK(Map!OnResize(m), e)
    BY <1>5 DEF Map!OnResize, MapOK, IsMap, Brief, Current, Served, Pending
  <2>2. CASE cut
    <3> DEFINE n == Map!OnResize(m)
    <3>1. map' = [n EXCEPT !.air = {}, !.at = Map!Elsewhere, !.taken = TRUE]
      BY <1>5, <2>2 DEF Map!Sync
    <3>2. IsMap(n) /\ (n.armed => n.timer)
      BY <1>5, <2>1 DEF MapOK, Map!OnResize, IsMap
    <3>3. MapOK(n, e)
      BY <2>1
    <3> HIDE DEF n
    <3> QED
      BY <3>1, <3>2, <3>3 DEF MapOK, IsMap, Brief, Current, Served, Pending
  <2>3. CASE ~ cut
    BY <1>5, <2>1, <2>3 DEF Map!Sync
  <2> QED
    BY <2>2, <2>3
<1>9. CASE Map!Resize
  <2>1. MapOK(Map!MoveEnd(map), e)
    BY Ended DEF MapOK
  <2> QED
    BY <1>5, <1>9, <2>1 DEF Map!Resize
<1>10. CASE Map!WindowResize
  <2>1. MapOK([map EXCEPT !.late = TRUE], e)
    BY DEF MapOK, IsMap, Brief, Current, Served, Pending
  <2> QED
    BY <1>5, <1>10, <2>1 DEF Map!WindowResize
<1>11. CASE Map!LateMoveEnd
  <2> DEFINE m == [map EXCEPT !.late = FALSE]
  <2>1. /\ IsMap(m) /\ m.armed = map.armed /\ m.disarms = map.disarms
        /\ m.timer = map.timer /\ m.frame = map.frame /\ m.aim = map.aim
        /\ m.air = map.air /\ m.at = map.at /\ m.taken = map.taken
    BY DEF MapOK, IsMap
  <2>2. map' = Map!MoveEnd(m)
    BY <1>11 DEF Map!LateMoveEnd
  <2> HIDE DEF m
  <2>3. Served(m, e)
    BY <2>1 DEF MapOK, Served, Pending
  <2> QED
    BY <2>1, <2>2, <2>3, Ended
<1>6. ASSUME NEW m, IsMap(m), m.armed = map.armed, m.disarms = map.disarms, m.taken = TRUE,
             m.timer = map.timer, m.frame = map.frame, m.aim = map.aim, map' = Map!MoveEnd(m)
      PROVE  MapOK(map', e)
  BY <1>6, Ended DEF Served
<1>7. CASE Map!Pan
  <2>1. PICK zoom :
          map' = Map!MoveEnd([map EXCEPT !.air = {}, !.at = Map!Elsewhere, !.zoom = zoom,
                                         !.spider = {}, !.taken = TRUE])
    BY <1>7 DEF Map!Pan
  <2> DEFINE m == [map EXCEPT !.air = {}, !.at = Map!Elsewhere, !.zoom = zoom, !.spider = {},
                              !.taken = TRUE]
  <2>2. /\ IsMap(m) /\ m.armed = map.armed /\ m.disarms = map.disarms /\ m.taken = TRUE
        /\ m.timer = map.timer /\ m.frame = map.frame /\ m.aim = map.aim
    BY DEF MapOK, IsMap
  <2>3. map' = Map!MoveEnd(m)
    BY <2>1
  <2> HIDE DEF m
  <2> QED
    BY <1>6, <2>2, <2>3
<1>8. ASSUME NEW events, NEW highlight, Map!OpenCluster(events, highlight)
      PROVE  MapOK(map', e)
  <2>1. ASSUME NEW c, map' = [map EXCEPT !.spider = c]
        PROVE  MapOK(map', e)
    BY <2>1 DEF MapOK, IsMap, Pending, Brief, Current, Served
  <2>2. ASSUME NEW z, map' = [map EXCEPT
                               !.air = {[event |-> Map!Elsewhere, zoom |-> z, fan |-> {}]},
                               !.at = Map!Aloft, !.spider = {}, !.taken = TRUE]
        PROVE  MapOK(map', e)
    <3>1. /\ IsMap(map') /\ map'.air # {} /\ map'.taken = TRUE
          /\ map'.armed = map.armed /\ map'.disarms = map.disarms
          /\ map'.timer = map.timer /\ map'.frame = map.frame /\ map'.aim = map.aim
      BY <2>2 DEF MapOK, IsMap
    <3> QED
      BY <3>1 DEF MapOK, Brief, Current, Served, Pending
  <2> QED
    BY <1>8, <2>1, <2>2 DEF Map!OpenCluster
<1> QED
  BY <1>1, <1>2, <1>3, <1>4, <1>7, <1>8, <1>9, <1>10, <1>11 DEF Map!Flying

-----------------------------------------------------------------------------
(***************************************************************************)
(* The page, its loads and its handlers.                                   *)
(***************************************************************************)
LEMMA Start == Init => PageInv
  BY DEF Init, PageInv, Gone, ClientInit, IsPage, NewPage

LEMMA OpenStep == ASSUME PageInv, Open PROVE PageInv'
<1>1. IsScreen(screen') /\ screen'.effect = "due"
  BY DEF Open, Mount, IsScreen
<1>2. map' = Map!NoMap
  BY DEF Open, Mount, PageInv, Shown, Gone, IsScreen
<1>3. IsPage(ui')
  BY DEF Open, NewPage, IsPage
<1> QED
  BY <1>1, <1>2, <1>3 DEF PageInv, Shown

LEMMA LeaveStep == ASSUME PageInv, Leave PROVE PageInv'
  BY DEF Leave, Unmount, PageInv, Gone, IsPage, NewPage

\* A rendering of the mounted page, with what a handler or a load changed.
LEMMA RenderStep ==
  ASSUME PageInv, NEW u, IsPage(u), NEW s, s = screen', IsScreen(s), NEW v, NEW reloaded,
         Render(u, s, v, reloaded)
  PROVE  PageInv'
<1>1. map = Map!NoMap \/ MapOK(map, ui.selected)
  BY DEF PageInv, Shown, Gone
<1>2. /\ IsPage(ui') /\ LinkWaits(ui', s)
      /\ map' = Map!NoMap \/ MapOK(map', ui'.selected)
  BY <1>1, Rendered
<1> QED
  BY <1>2 DEF PageInv, Shown

LEMMA OpenedStep == ASSUME PageInv, Opened PROVE PageInv'
<1>1. screen.mounted /\ IsPage(ui) /\ Render(ui, screen', view, TRUE)
  BY DEF Opened, MountEffect, PageInv
<1>2. IsScreen(screen)
  BY <1>1 DEF PageInv, Shown, Gone, NoPage
<1>3. IsScreen(screen')
  BY <1>2 DEF Opened, MountEffect, IsScreen
<1> QED
  BY <1>1, <1>3, RenderStep

\* A handler runs only on a mounted page.
LEMMA HandlerStep ==
  ASSUME PageInv, screen' = screen, screen # NoPage, NEW u, IsPage(u), NEW v,
         Render(u, screen, v, FALSE)
  PROVE  PageInv'
<1>1. IsScreen(screen')
  BY DEF PageInv, Shown, Gone
<1> QED
  BY <1>1, RenderStep

LEMMA AgainStep == ASSUME PageInv, Again PROVE PageInv'
<1>1. screen.mounted
  BY DEF Again, TryAgain, TryAgainIsOffered, Shows
<1>2. IsScreen(screen)
  BY <1>1 DEF PageInv, Shown, Gone, NoPage
<1>3. IsScreen(screen')
  BY <1>2 DEF Again, TryAgain, IsScreen
<1>4. IsPage(ui) /\ Render(ui, screen', view, FALSE)
  BY DEF PageInv, Again
<1> QED
  BY <1>3, <1>4, RenderStep

LEMMA LoadStep ==
  ASSUME PageInv, NEW c \in Calls, AnswerArrives(c) \/ LoadFails(c)
  PROVE  PageInv'
<1>1. CASE loads[c] = "orphan"
  <2>1. UNCHANGED <<screen, ui, map>>
    BY <1>1 DEF AnswerArrives, LoadFails, Receive, Fail
  <2> QED
    BY <2>1 DEF PageInv, Shown, Gone, LinkWaits, MapOK
<1>2. CASE loads[c] # "orphan" /\ AnswerArrives(c)
  <2>1. IsScreen(screen')
    BY <1>2 DEF AnswerArrives, Receive, IsScreen
  <2> DEFINE u == [ui EXCEPT !.counts = Dated(Feed(calls[c]))]
  <2>2. IsPage(u)
    BY DEF PageInv, IsPage
  <2>3. Render(u, screen', view, TRUE)
    BY <1>2 DEF AnswerArrives
  <2> HIDE DEF u
  <2> QED
    BY <2>1, <2>2, <2>3, RenderStep
<1>3. CASE loads[c] # "orphan" /\ LoadFails(c)
  <2>1. IsScreen(screen')
    BY <1>3 DEF LoadFails, Fail, IsScreen
  <2>2. IsPage(ui) /\ Render(ui, screen', view, ~ HasCache)
    BY <1>3 DEF LoadFails, PageInv
  <2> QED
    BY <2>1, <2>2, RenderStep
<1> QED
  BY <1>1, <1>2, <1>3

LEMMA Quiet ==
  ASSUME PageInv, UNCHANGED <<screen, ui, map>>
  PROVE  PageInv'
  BY DEF PageInv, Shown, Gone, LinkWaits, MapOK

Handlers ==
  \/ OpenLink
  \/ ApplyFilter \/ Search \/ SortBy \/ ShowAll \/ PrevPage \/ NextPage
  \/ SelectRow \/ SelectMarker \/ OpenFromTimeline \/ SelectNearby
  \/ CloseDrawer \/ ZoomTo \/ Rezoom \/ SetPhoneView \/ DismissNote

LEMMA HandlersStep == ASSUME PageInv, Handlers PROVE PageInv'
<1>1. screen' = screen
  BY DEF Handlers, OpenLink, ApplyFilter, Search, SortBy, ShowAll, PrevPage, NextPage, SelectRow,
     SelectMarker, OpenFromTimeline, SelectNearby, CloseDrawer, ZoomTo, Rezoom, SetPhoneView,
     DismissNote, Handled, pageVars
<1>2. screen # NoPage
  <2>1. screen.mounted \/ map.mounted \/ ui.selected # None \/ ui.rezoom # None
    BY DEF Handlers, OpenLink, ApplyFilter, Search, SortBy, ShowAll, PrevPage, NextPage, SelectRow,
       SelectMarker, OpenFromTimeline, SelectNearby, CloseDrawer, ZoomTo, Rezoom, SetPhoneView,
       DismissNote, FeedIsShown, Active
  <2> QED
    BY <2>1 DEF PageInv, Shown, IsScreen, Gone, NoPage, NewPage, Map!NoMap
<1>3. \E u, v : IsPage(u) /\ Render(u, screen, v, FALSE)
  <2>1. ASSUME NEW x
        PROVE  /\ IsPage([ui EXCEPT !.link = x]) /\ IsPage([ui EXCEPT !.selected = x])
               /\ IsPage([ui EXCEPT !.filter = x, !.page = 1])
               /\ IsPage([ui EXCEPT !.search = x, !.page = 1])
               /\ IsPage([ui EXCEPT !.sort = x, !.page = 1])
               /\ IsPage([ui EXCEPT !.search = None, !.filter = "all", !.page = 1])
               /\ IsPage([ui EXCEPT !.page = x]) /\ IsPage([ui EXCEPT !.note = FALSE])
               /\ IsPage([ui EXCEPT !.selected = None, !.rezoom = x])
               /\ IsPage([ui EXCEPT !.selected = x, !.rezoom = None])
    BY DEF PageInv, IsPage
  <2>2. CASE OpenLink \/ ApplyFilter \/ Search \/ SortBy \/ ShowAll
    BY <2>1, <2>2 DEF OpenLink, ApplyFilter, Search, SortBy, ShowAll, Handled
  <2>3. CASE PrevPage \/ NextPage
    BY <2>1, <2>3 DEF PrevPage, NextPage, Handled
  <2>4. CASE SelectRow \/ SelectMarker \/ OpenFromTimeline \/ SelectNearby \/ CloseDrawer
    BY <2>1, <2>4 DEF SelectRow, SelectMarker, OpenFromTimeline, SelectNearby, CloseDrawer, Handled
  <2>5. CASE ZoomTo \/ Rezoom \/ DismissNote
    BY <2>1, <2>5 DEF ZoomTo, Rezoom, DismissNote, Handled
  <2>6. CASE SetPhoneView
    BY <2>6 DEF SetPhoneView, PageInv
  <2> QED
    BY <2>2, <2>3, <2>4, <2>5, <2>6 DEF Handlers
<1> QED
  BY <1>1, <1>2, <1>3, HandlerStep

LEMMA MapStep ==
  ASSUME PageInv, UNCHANGED <<pageVars, ui>>,
         \/ Map!Flying \/ Map!GuardFires \/ Map!LateMoveEnd
         \/ Map!Resize \/ Map!WindowResize \/ Map!Pan
         \/ \E events, highlight : Map!OpenCluster(events, highlight)
  PROVE  PageInv'
<1>1. map.mounted
  BY DEF Map!Flying, Map!TimerFires, Map!TakeOff, Map!Land, Map!GuardFires, Map!LateMoveEnd,
     Map!Resize, Map!WindowResize, Map!Pan, Map!OpenCluster
<1>2. /\ IsPage(ui) /\ IsScreen(screen) /\ (screen.effect = "due" \/ LinkWaits(ui, screen))
      /\ MapOK(map, ui.selected)
  BY <1>1 DEF PageInv, Shown, Gone, Map!NoMap
<1>3. MapOK(map', ui.selected)
  BY <1>2, FlightStep
<1>4. screen' = screen /\ ui' = ui
  BY DEF pageVars
<1> QED
  BY <1>2, <1>3, <1>4 DEF PageInv, Shown, LinkWaits

LEMMA Step == PageInv /\ [Next]_vars => PageInv'
<1> SUFFICES ASSUME PageInv, [Next]_vars
             PROVE  PageInv'
  OBVIOUS
<1>1. CASE Tick \/ UNCHANGED vars
  BY <1>1, Quiet DEF Tick, vars
<1>2. ASSUME NEW c \in Calls, BackendAnswers(c) \/ AbortedEnds(c)
      PROVE  PageInv'
  BY <1>2, Quiet DEF BackendAnswers, AbortedEnds, Drop
<1>3. CASE \/ MapMoves(Map!Flying \/ Map!GuardFires \/ Map!LateMoveEnd)
           \/ MapMoves(\/ Map!Resize \/ Map!WindowResize \/ Map!Pan
                       \/ Map!OpenCluster(OnMap(ui, screen.feed), ui.selected))
  BY <1>3, MapStep DEF MapMoves
<1> QED
  BY <1>1, <1>2, <1>3, OpenStep, OpenedStep, LeaveStep, AgainStep, LoadStep, HandlersStep DEF Next, Handlers

LEMMA Invariant == Spec => []PageInv
<1> HIDE DEF PageInv
<1> QED
  BY Start, Step, PTL DEF Spec

-----------------------------------------------------------------------------
(***************************************************************************)
(* The resize listener lives only while a flight is pending or under way,  *)
(* however often the selection, the filter and the feed change, the window *)
(* is resized and the user drags the map (MapView.tsx:248).                *)
(***************************************************************************)
THEOREM ListenerIsRemoved == Spec => []ListenerIsBrief
<1>1. PageInv => ListenerIsBrief
  BY DEF PageInv, Shown, Gone, MapOK, Brief, Pending, ListenerIsBrief, Map!NoMap
<1> QED
  BY <1>1, Invariant, PTL

(***************************************************************************)
(* No stale flight takes off: the flight that a timer, a frame or a resize *)
(* will start goes to the event selected now, whichever was selected when  *)
(* the timer was set, since the clean-up of the effect cancels the others. *)
(***************************************************************************)
FlightsAreCurrent ==
  map.mounted /\ (map.timer \/ map.frame \/ map.armed) => map.aim.event = ui.selected

THEOREM NoStaleFlight == Spec => []FlightsAreCurrent
<1>1. PageInv => FlightsAreCurrent
  BY DEF PageInv, Shown, Gone, MapOK, Current, Pending, FlightsAreCurrent, Map!NoMap
<1> QED
  BY <1>1, Invariant, PTL

(***************************************************************************)
(* A selection is never dropped: a map that shows one is at the event, on  *)
(* its way there, about to leave, or was taken elsewhere since.  (That the *)
(* flight then ends is SelectionIsFlownTo.)                                *)
(***************************************************************************)
SelectionIsServed ==
  map.mounted /\ ui.selected # None =>
    \/ map.at = ui.selected
    \/ map.timer \/ map.frame
    \/ \E flight \in map.air : flight.event = ui.selected
    \/ map.taken

THEOREM SelectionsAreServed == Spec => []SelectionIsServed
<1>1. PageInv => SelectionIsServed
  BY DEF PageInv, Shown, Gone, MapOK, Served, Pending, SelectionIsServed, Map!NoMap
<1> QED
  BY <1>1, Invariant, PTL

(***************************************************************************)
(* A link is kept only by a page whose effects are still to run, or that   *)
(* does not list the event and has not had its first answer: whatever load *)
(* ends, fails or is answered from the cache, no other page is left with   *)
(* an open link.                                                           *)
(***************************************************************************)
LinkIsOpen ==
  ui.link # None =>
    /\ screen.mounted
    /\ \/ screen.effect = "due"
       \/ ~ screen.settled /\ ui.link \notin Ids(Items(screen.feed))

THEOREM LinksWaitForTheFeed == Spec => []LinkIsOpen
<1>1. PageInv => LinkIsOpen
  BY DEF PageInv, Shown, Gone, IsScreen, LinkWaits, LinkIsOpen, NewPage
<1> QED
  BY <1>1, Invariant, PTL
=============================================================================
