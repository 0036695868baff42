----------------------------- MODULE MapFlight ------------------------------
(***************************************************************************)
(* The map of the dashboard (MapView.tsx): it groups the events into       *)
(* clusters, and flies to the event that is selected.                      *)
(*                                                                         *)
(* A flight is aimed by an effect of React, waits for a timer and for a    *)
(* frame, is flown by Leaflet, and ends with a moveend.  Meanwhile the     *)
(* container may be resized, which may cut it short.  What the user sees   *)
(* is the zoom and whether the map is on the event.  Leaflet and           *)
(* supercluster are external: when it is told that its container changed,  *)
(* Leaflet fires moveend and then resize; when the window changed, resize  *)
(* and the moveend later; two events share a cluster up to a zoom.         *)
(***************************************************************************)
EXTENDS Integers, Sequences, FiniteSets, FiniteSetsExt

CONSTANTS
  None,
  MaxZoom,
  RevealZoom,    \* the zoom a flight has at least (4.5)
  ApartFrom      \* the zoom from which on two events are apart

VARIABLE
  map      \* the mounted map, if any

\* Where the map is, when not on an event.
Aloft == -1     \* between two places
Elsewhere == -2 \* where the user went, or a flight was cut short

NoMap == [mounted |-> FALSE]
FreshMap == [mounted |-> TRUE, zoom |-> 0, at |-> None, spider |-> {},
             aim |-> None, timer |-> FALSE, frame |-> FALSE,
             air |-> {},           \* the flight under way
             armed |-> FALSE,      \* the resize listener
             disarms |-> FALSE,    \* it is removed by the next moveend
             fans |-> {},          \* the groups that are fanned out at the next moveend
             late |-> FALSE,       \* a moveend is still to come of a resized window
             taken |-> FALSE]      \* the user, or a resize, took it elsewhere since (history)

-----------------------------------------------------------------------------
(***************************************************************************)
(* clustering.ts, over supercluster                                        *)
(***************************************************************************)
Cluster(e, events, zoom) == {f \in events : f = e \/ ApartFrom[e, f] > zoom}
Clusters(events, zoom) == {Cluster(e, events, zoom) : e \in events}

\* The smallest zoom at which the event is on its own, None when there is none.
ZoomToReveal(e, events, from) ==
  LET alone == {z \in from .. MaxZoom : Cluster(e, events, z) = {e}}
  IN  IF alone = {} THEN None ELSE Min(alone)

ExpansionZoom(cluster) ==
  LET split == {z \in 0 .. MaxZoom : Cardinality(Clusters(cluster, z)) > 1}
  IN  IF split = {} THEN None ELSE Min(split)

\* What is drawn: the highlighted event is never in a cluster.
Features(events, highlight) == Clusters(events \ {highlight}, map.zoom)
Clickable(events, highlight) ==
  {e \in events : e \in {highlight} \cup map.spider \/ {e} \in Features(events, highlight)}
ClusterPulses(cluster, pulsing) == cluster \cap pulsing # {}

-----------------------------------------------------------------------------
(***************************************************************************)
(* The effect for the highlighted event, run when it or the events change. *)
(* Its clean-up does not stop a flight that has taken off.                 *)
(***************************************************************************)
CleanUp(m) == [m EXCEPT !.timer = FALSE, !.frame = FALSE, !.armed = FALSE, !.disarms = FALSE]

\* Where a flight goes, and the co-located events it will fan out there.
Course(e, events) ==
  LET reveal == ZoomToReveal(e, events, RevealZoom)
      others == Cluster(e, events, MaxZoom) \ {e}
  IN  [event |-> e, zoom |-> IF reveal = None THEN MaxZoom ELSE reveal,
       fan |-> IF reveal = None /\ Cardinality(others) > 1 THEN {others} ELSE {}]

Aim(m, events, highlight) ==
  IF highlight \in events
    THEN [m EXCEPT !.aim = Course(highlight, events), !.timer = TRUE, !.armed = TRUE,
                   !.taken = FALSE]
    ELSE m

Rerun(m, events, highlight, changed) ==
  Aim(CleanUp([m EXCEPT !.spider = IF changed THEN {} ELSE @]), events, highlight)

MoveEnd(m) ==
  [m EXCEPT !.armed = @ /\ ~ m.disarms, !.disarms = FALSE, !.fans = {},
            !.spider = IF m.fans = {} THEN @ ELSE CHOOSE f \in m.fans : TRUE]

-----------------------------------------------------------------------------
TimerFires ==
  /\ map.mounted /\ map.timer
  /\ map' = [map EXCEPT !.timer = FALSE, !.frame = TRUE]

\* A bug to look for: the resize listener outlives the flight.
TakeOffArmed ==
  /\ map.mounted /\ map.frame
  /\ map' = [map EXCEPT !.frame = FALSE, !.air = {map.aim}, !.at = Aloft, !.spider = {},
                         !.fans = @ \cup map.aim.fan]

\* Co-located events are fanned out by the next moveend.
TakeOff ==
  /\ map.mounted /\ map.frame
  /\ map' = [map EXCEPT !.frame = FALSE, !.air = {map.aim}, !.at = Aloft, !.spider = {},
                         !.disarms = TRUE, !.fans = @ \cup map.aim.fan]

Land ==
  /\ map.mounted
  /\ \E flight \in map.air :
       map' = MoveEnd([map EXCEPT !.at = flight.event, !.zoom = flight.zoom,
                                  !.air = {}, !.spider = {}])

\* Two seconds after the take-off.
GuardFires ==
  /\ map.mounted /\ map.armed /\ map.disarms
  /\ map' = [map EXCEPT !.armed = FALSE, !.disarms = FALSE]

\* The size sync may set the zoom, which ends the flight.
Sync(m, cut) ==
  IF cut THEN [m EXCEPT !.air = {}, !.at = Elsewhere, !.taken = TRUE] ELSE m

OnResize(m) == [m EXCEPT !.timer = @ \/ m.armed]

\* The container changes: moveend, then resize.
Resize ==
  /\ map.mounted
  /\ \E cut \in {FALSE, map.air # {}} : map' = Sync(OnResize(MoveEnd(map)), cut)

\* The window changes: resize, and moveend 200 ms later.
WindowResize ==
  /\ map.mounted
  /\ \E cut \in {FALSE, map.air # {}} :
       map' = Sync(OnResize([map EXCEPT !.late = TRUE]), cut)

LateMoveEnd ==
  /\ map.mounted /\ map.late
  /\ map' = MoveEnd([map EXCEPT !.late = FALSE])

\* The user drags or zooms; a flight ends there.
Pan ==
  /\ map.mounted
  /\ \E zoom \in 0 .. MaxZoom :
       map' = MoveEnd([map EXCEPT !.air = {}, !.at = Elsewhere, !.zoom = zoom, !.spider = {},
                                  !.taken = TRUE])

\* Events that a zoom tells apart are flown to, others fanned out.
OpenCluster(events, highlight) ==
  /\ map.mounted
  /\ \E c \in Features(events, highlight) :
       /\ Cardinality(c) > 1
       /\ LET z == ExpansionZoom(c)
          IN  IF z = None THEN map' = [map EXCEPT !.spider = c]
              ELSE \E target \in z .. MaxZoom :
                     map' = [map EXCEPT
                               !.air = {[event |-> Elsewhere, zoom |-> target, fan |-> {}]},
                               !.at = Aloft, !.spider = {}, !.taken = TRUE]

Flying == TimerFires \/ TakeOff \/ Land
=============================================================================
