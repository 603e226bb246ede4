---------------------------- MODULE PageLoading ----------------------------
(***************************************************************************)
(* What the console's shell shows while pages change and data is loaded:   *)
(* the loading overlay of the content area, the progress bar of the route, *)
(* and the clone of the old page that plays its leave animation while the  *)
(* new page is kept hidden and its list load is kept waiting.              *)
(*                                                                         *)
(* All of it is module state driven by timers, animation frames, answers   *)
(* and clicks, which fire in any order here: the delays are not modelled.  *)
(* Of the bar's look only whether it is mounted is kept.                   *)
(***************************************************************************)
EXTENDS Naturals, Sequences

CONSTANTS
    MaxFetches,      \* bound: requests sent in a behaviour
    MaxNavigations    \* bound: navigations begun, settings switched, shells left in a behaviour

VARIABLES
    animated,   \* a page transition other than 'none' is configured
    showBar,    \* tab.showProgress
    overlay,    \* activeRequests, contentVisible, listAwaiting and their timers
    fetches,   \* requests that have not been answered
    bar,        \* the route progress
    leave,      \* activeLeave, the live page and what will reveal it
    load,       \* the mounted page's list load: "none", "waiting" or "begun"
    trip,       \* the shell's navigation: "over", "going", "stayed" or "out"
    done        \* requests sent and navigations begun so far

shellVars == <<animated, showBar, overlay, fetches, bar, leave, load, trip, done>>

(***************************************************************************)
(* The overlay.  "force" is the timer whose handle is kept; scheduling     *)
(* another loses the handle of the first, which still fires ("lost").      *)
(***************************************************************************)
BeginFnaListAwaiting(o) == [o EXCEPT !.awaiting = TRUE]
EndFnaListAwaiting(o) == [o EXCEPT !.awaiting = FALSE]

BeginFnaContentLoading(o) == [o EXCEPT !.active = @ + 1, !.show = TRUE, !.force = FALSE]

ScheduleForceClose(o) ==
    IF o.visible /\ o.active > 0
    THEN [o EXCEPT !.force = TRUE, !.lost = IF o.force THEN @ + 1 ELSE @]
    ELSE o

EndFnaContentLoading(o) ==
    IF o.active > 1
    THEN ScheduleForceClose([o EXCEPT !.active = @ - 1, !.force = FALSE])
    ELSE [o EXCEPT !.active = 0, !.show = FALSE, !.force = FALSE,
                   !.awaiting = FALSE, !.visible = FALSE]

\* Fault: the overlay is guarded only by the timer that showed it.
ShownWithForceClose(o) ==
    LET p == [o EXCEPT !.show = FALSE, !.visible = @ \/ o.active > 0]
    IN  IF o.visible THEN p ELSE ScheduleForceClose(p)

Shown(o) == ScheduleForceClose([o EXCEPT !.show = FALSE, !.visible = @ \/ o.active > 0])

ForceClosed(o) ==
    IF o.visible /\ o.active > 0
    THEN [o EXCEPT !.active = 0, !.visible = FALSE, !.awaiting = FALSE]
    ELSE o

ApiFetch ==
    /\ done.requests < MaxFetches
    /\ overlay' = BeginFnaContentLoading(overlay)
    /\ fetches' = fetches + 1
    /\ done' = [done EXCEPT !.requests = @ + 1]
    /\ UNCHANGED <<animated, showBar, bar, leave, load, trip>>

\* The request is answered or fails.
ApiFetchEnds ==
    /\ fetches > 0
    /\ overlay' = EndFnaContentLoading(overlay)
    /\ fetches' = fetches - 1
    /\ UNCHANGED <<animated, showBar, bar, leave, load, trip, done>>

ShowTimer ==
    /\ overlay.show
    /\ overlay' = Shown(overlay)
    /\ UNCHANGED <<animated, showBar, fetches, bar, leave, load, trip, done>>

ForceTimer ==
    /\ \/ overlay.force /\ overlay' = ForceClosed([overlay EXCEPT !.force = FALSE])
       \/ overlay.lost > 0 /\ overlay' = ForceClosed([overlay EXCEPT !.lost = @ - 1])
    /\ UNCHANGED <<animated, showBar, fetches, bar, leave, load, trip, done>>

(***************************************************************************)
(* The progress bar.  A callback remembers the generation it was made in   *)
(* and does nothing in a later one.                                        *)
(***************************************************************************)
FlushSetQueue(b) == [b EXCEPT !.queue = <<>>, !.gen = @ + 1]

\* A job mounts the bar and keeps the queue for a while; others wait for it.
RunJob(b) == [b EXCEPT !.mounted = TRUE, !.steps = @ \cup {b.gen}]

EnqueueSet(b) ==
    LET c == [b EXCEPT !.queue = Append(@, b.gen)]
    IN  IF b.queue = <<>> THEN RunJob(c) ELSE c

SetProgress(b) == EnqueueSet([b EXCEPT !.status = TRUE])

\* Trickling is off while the bar finishes: there is no status to add to.
IncProgress(b) == IF b.status THEN SetProgress(b) ELSE b

BeginFnaRouteProgress(b) ==
    IF ~showBar THEN b
    ELSE LET c == IF b.status THEN b ELSE SetProgress(FlushSetQueue([b EXCEPT !.hold = 0]))
         IN  [c EXCEPT !.hold = 0, !.trickle = c.gen]

EndFnaRouteProgress(b, force) ==
    CASE b.status ->
            LET c == [FlushSetQueue(b) EXCEPT !.gen = b.gen + 1]
            IN  [c EXCEPT !.status = FALSE, !.mounted = TRUE, !.trickle = 0, !.hold = 0,
                          !.frames = @ \cup {c.gen}]
      [] ~b.status /\ force ->
            [FlushSetQueue(b) EXCEPT !.mounted = FALSE, !.trickle = 0, !.hold = 0]
      [] OTHER -> b

Bar(b) == bar' = b /\ UNCHANGED <<animated, showBar, overlay, fetches, leave, load, trip, done>>

\* The job's time is over: it leaves the queue and the next one runs.
StepTimer == \E g \in bar.steps :
    LET b == [bar EXCEPT !.steps = @ \ {g}] IN
    Bar(IF g # bar.gen THEN b
        ELSE IF Len(b.queue) > 1 THEN RunJob([b EXCEPT !.queue = Tail(@)])
        ELSE [b EXCEPT !.queue = <<>>])

\* The loop goes on while it is of this generation; the queue is kept short.
StartTrickleLoop ==
    /\ bar.trickle # 0
    /\ Len(bar.queue) < 2
    /\ Bar(IF bar.trickle = bar.gen /\ bar.status THEN IncProgress(bar)
           ELSE [bar EXCEPT !.trickle = 0])

FinishFrame == \E g \in bar.frames :
    LET b == [bar EXCEPT !.frames = @ \ {g}] IN
    Bar(IF g = bar.gen THEN [b EXCEPT !.hold = g] ELSE b)

FinishHoldTimer ==
    /\ bar.hold # 0
    /\ Bar([bar EXCEPT !.hold = 0, !.mounted = @ /\ bar.hold # bar.gen])

\* The setting is switched; switching it off takes the bar down.
ToggleShowProgress ==
    /\ trip # "out"
    /\ done.navigations < MaxNavigations
    /\ showBar' = ~showBar
    /\ bar' = IF showBar THEN EndFnaRouteProgress(bar, TRUE) ELSE bar
    /\ done' = [done EXCEPT !.navigations = @ + 1]
    /\ UNCHANGED <<animated, overlay, fetches, leave, load, trip>>

(***************************************************************************)
(* Leaving a page.                                                         *)
(***************************************************************************)
\* A leave under way is dropped and its successor takes over; a page without
\* extent plays none.  "dropped" is history: a leave had no successor.
TriggerFnaPageLeave(l, sized) ==
    IF ~animated THEN l
    ELSE IF sized THEN [l EXCEPT !.active = TRUE, !.hidden = TRUE]
    ELSE [l EXCEPT !.active = FALSE, !.hidden = @ /\ ~l.active, !.dropped = @ \/ l.active]

\* Listeners are told, and a timer reveals the page if no enter animation does.
FinishLeave(l) == [l EXCEPT !.active = FALSE, !.enter = @ + 1, !.reveal = @ + 1]

\* A list load begins: the table waits, and the request follows at once.
RunLoad(o) == BeginFnaContentLoading(BeginFnaListAwaiting(o))

\* The animation has ended, or its timer fires.
LeaveEnds ==
    /\ leave.active
    /\ leave' = FinishLeave(leave)
    /\ IF load = "waiting" /\ done.requests < MaxFetches
       THEN /\ load' = "begun"
            /\ overlay' = RunLoad(overlay)
            /\ fetches' = fetches + 1
            /\ done' = [done EXCEPT !.requests = @ + 1]
       ELSE /\ load' = IF load = "waiting" THEN "none" ELSE load
            /\ UNCHANGED <<overlay, fetches, done>>
    /\ UNCHANGED <<animated, showBar, bar, trip>>

StartEnter ==
    /\ leave.enter > 0
    /\ leave' = [leave EXCEPT !.enter = @ - 1, !.hidden = FALSE]
    /\ UNCHANGED <<animated, showBar, overlay, fetches, bar, load, trip, done>>

RevealTimer ==
    /\ leave.reveal > 0
    /\ leave' = [leave EXCEPT !.reveal = @ - 1, !.hidden = FALSE]
    /\ UNCHANGED <<animated, showBar, overlay, fetches, bar, load, trip, done>>

(***************************************************************************)
(* Navigation.                                                             *)
(***************************************************************************)
\* A click on an internal link or on a tab.
Navigate ==
    /\ trip # "out"
    /\ done.navigations < MaxNavigations
    /\ \E sized \in BOOLEAN : leave' = TriggerFnaPageLeave(leave, sized)
    /\ bar' = BeginFnaRouteProgress(bar)
    /\ trip' = "going"
    /\ done' = [done EXCEPT !.navigations = @ + 1]
    /\ UNCHANGED <<animated, showBar, overlay, fetches, load>>

\* The browser goes back or forward, or code asks for a page: no click, no bar.
NavigateWithoutClick ==
    /\ trip # "out"
    /\ done.navigations < MaxNavigations
    /\ trip' = "going"
    /\ done' = [done EXCEPT !.navigations = @ + 1]
    /\ UNCHANGED <<animated, showBar, overlay, fetches, bar, leave, load>>

\* useFnaListLoad: the clean-up of the old load, then the new one, which waits
\* for the old page to leave.
ListLoad(lv) ==
    /\ done.requests < MaxFetches
    /\ IF lv.active
       THEN /\ load' = "waiting"
            /\ overlay' = EndFnaListAwaiting(overlay)
            /\ UNCHANGED <<fetches, done>>
       ELSE /\ load' = "begun"
            /\ overlay' = RunLoad(EndFnaListAwaiting(overlay))
            /\ fetches' = fetches + 1
            /\ done' = [done EXCEPT !.requests = @ + 1]

\* The mounted page has a list to load, or none.
MountsPage(lv) ==
    \/ ListLoad(lv)
    \/ /\ load' = "none"
       /\ overlay' = EndFnaListAwaiting(overlay)
       /\ UNCHANGED <<fetches, done>>

\* The path has changed: the new page is mounted, the bar finishes, and the
\* page enters at once unless the old one is still leaving.
PageArrives ==
    /\ trip = "going"
    /\ trip' = "over"
    /\ bar' = EndFnaRouteProgress(bar, FALSE)
    /\ leave' = IF animated /\ ~leave.active THEN [leave EXCEPT !.enter = @ + 1] ELSE leave
    /\ MountsPage(leave)
    /\ UNCHANGED <<animated, showBar>>

\* The navigation ends on the path it began on (only the query differs, a
\* handler cancelled the click, or a later click went back): no effect runs.
ArriveOnSamePath ==
    /\ trip = "going"
    /\ trip' = "stayed"
    /\ UNCHANGED <<animated, showBar, overlay, fetches, bar, leave, load, done>>

\* A search or a change on the page starts its load again.
Reloads ==
    /\ load # "none"
    /\ ListLoad(leave)
    /\ UNCHANGED <<animated, showBar, bar, leave, trip>>

ResetFnaPageLeave(l) == [l EXCEPT !.active = FALSE, !.hidden = FALSE]

\* The shell is left for the login page: what was mounted is cleaned up.
ShellUnmounts ==
    /\ trip # "out"
    /\ done.navigations < MaxNavigations
    /\ done' = [done EXCEPT !.navigations = @ + 1]
    /\ trip' = "out"
    /\ load' = "none"
    /\ overlay' = EndFnaListAwaiting(overlay)
    /\ leave' = [ResetFnaPageLeave(leave) EXCEPT !.enter = 0]
    /\ UNCHANGED <<animated, showBar, fetches, bar>>

\* It is mounted again, with a page: its effects run for the first time.
ShellMounts ==
    /\ trip = "out"
    /\ trip' = "over"
    /\ bar' = IF showBar THEN EndFnaRouteProgress(bar, FALSE)
              ELSE EndFnaRouteProgress(EndFnaRouteProgress(bar, FALSE), TRUE)
    /\ leave' = ResetFnaPageLeave(leave)
    /\ MountsPage(ResetFnaPageLeave(leave))
    /\ UNCHANGED <<animated, showBar>>

ShellInit ==
    /\ animated \in BOOLEAN
    /\ showBar = TRUE
    /\ overlay = [active |-> 0, visible |-> FALSE, awaiting |-> FALSE, show |-> FALSE,
                  force |-> FALSE, lost |-> 0]
    /\ fetches = 0
    /\ bar = [status |-> FALSE, mounted |-> FALSE, gen |-> 1, queue |-> <<>>, steps |-> {},
              frames |-> {}, hold |-> 0, trickle |-> 0]
    /\ leave = [active |-> FALSE, hidden |-> FALSE, enter |-> 0, reveal |-> 0, dropped |-> FALSE]
    /\ load = "none"
    /\ trip = "over"
    /\ done = [requests |-> 0, navigations |-> 0]

ShellNext ==
    \/ ApiFetch \/ ApiFetchEnds \/ ShowTimer \/ ForceTimer
    \/ StepTimer \/ StartTrickleLoop \/ FinishFrame \/ FinishHoldTimer \/ ToggleShowProgress
    \/ LeaveEnds \/ StartEnter \/ RevealTimer
    \/ Navigate \/ NavigateWithoutClick \/ PageArrives \/ ArriveOnSamePath
    \/ Reloads \/ ShellUnmounts \/ ShellMounts

ShellSpec == ShellInit /\ [][ShellNext]_shellVars

(***************************************************************************)
(* Properties                                                              *)
(***************************************************************************)
OverlayEnds ==
    /\ overlay.active <= fetches
    /\ overlay.awaiting => fetches > 0
    /\ overlay.visible => overlay.active > 0 /\ (overlay.show \/ overlay.force)
BarEnds ==
    /\ bar.status => bar.mounted /\ trip # "over"
    /\ bar.mounted => bar.status \/ bar.gen \in bar.frames \/ bar.hold = bar.gen
LeaveIsAwaited ==
    /\ load = "waiting" => leave.active \/ leave.dropped
    /\ leave.hidden => leave.active \/ leave.enter > 0 \/ leave.reveal > 0

\* Whatever the shell puts up or holds back has something left that ends it.
\* The overlay counts at most the requests in flight, and while it is visible a
\* timer that closes it, or that starts the closing timer, is armed, after
\* answers, new requests and a forced closing in any order.  The bar runs while
\* a navigation is on its way, and once that has arrived a frame or a timer of
\* its own generation takes it down: callbacks of an earlier navigation neither
\* remove it nor keep it.  Two cases are excepted.  A navigation that ends on
\* the path it began on ("stayed"), as one to another query does, leaves its bar
\* up until the path changes or the setting is switched off; and a bar that runs
\* when the shell is left is not shown, and ends when the shell comes back.
\* A list load waits only while a page is leaving, and a hidden page is about to
\* be revealed; a click during a leave may replace it, and only a page without
\* extent drops it and leaves the load waiting (beginFnaContentLoading,
\* endFnaContentLoading, scheduleForceClose, beginFnaRouteProgress,
\* endFnaRouteProgress, FnaRouteLoadingEffects, finishLeave, useFnaListLoad).
NothingStaysForGood == OverlayEnds /\ BarEnds /\ LeaveIsAwaited
=============================================================================
