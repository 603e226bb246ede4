---------------------------- MODULE ClientProofs ----------------------------
(***************************************************************************)
(* Proofs for the console in the browser: the shell's loading signs, the   *)
(* session that the shell shows, the filters in the address, the catalog   *)
(* of projects, the appearance, the tabs, and the busy flag and the lists  *)
(* of the administration pages, for any bounds, accounts, ids and paths.   *)
(***************************************************************************)
EXTENDS PageLoading, ClientSession, UrlFilters, ProjectConsole, ShellSettings,
        TagsView, AdminPages, FiniteSetTheorems, TLAPS

-----------------------------------------------------------------------------
(* The shell.  Every timer and frame of the bar belongs to a generation that *)
(* has begun; a bar that is up for a navigation is not finishing, and one    *)
(* that is not has nothing in its queue, so no old job mounts it again.      *)
(* After a page has arrived the bar is not up for a navigation.              *)

Overlays == [active : Nat, visible : BOOLEAN, awaiting : BOOLEAN, show : BOOLEAN, force : BOOLEAN, lost : Nat]
Bars == [status : BOOLEAN, mounted : BOOLEAN, gen : Nat \ {0}, queue : Seq(Nat), steps : SUBSET Nat,
         frames : SUBSET Nat, hold : Nat, trickle : Nat]
Leaves == [active : BOOLEAN, hidden : BOOLEAN, enter : Nat, reveal : Nat, dropped : BOOLEAN]

OverlayOK(o, n) ==
    /\ o \in Overlays
    /\ o.active <= n
    /\ o.awaiting => n > 0
    /\ o.visible => o.active > 0 /\ (o.show \/ o.force)
BarOK(b) ==
    /\ b \in Bars
    /\ b.frames \subseteq 1..b.gen
    /\ b.status => b.mounted /\ b.gen \notin b.frames /\ b.hold # b.gen
    /\ ~b.status => b.queue = <<>>
    /\ b.mounted => b.status \/ b.gen \in b.frames \/ b.hold = b.gen
LeaveOK(l) ==
    /\ l \in Leaves
    /\ l.hidden => l.active \/ l.enter > 0 \/ l.reveal > 0
ShellInv ==
    /\ fetches \in Nat
    /\ OverlayOK(overlay, fetches)
    /\ BarOK(bar)
    /\ trip = "over" => ~bar.status
    /\ LeaveOK(leave)
    /\ load = "waiting" => leave.active \/ leave.dropped

\* The overlay, with one more or one less request in flight.
LEMMA OverlayWaits ==
  ASSUME NEW n \in Nat, NEW o, OverlayOK(o, n)
  PROVE  /\ OverlayOK(BeginFnaContentLoading(o), n + 1)
         /\ OverlayOK(RunLoad(o), n + 1)
         /\ OverlayOK(EndFnaListAwaiting(o), n)
<1>1. ASSUME NEW p, OverlayOK(p, n) \/ p = BeginFnaListAwaiting(o)
      PROVE  OverlayOK(BeginFnaContentLoading(p), n + 1)
  <2>1. p \in Overlays /\ p.active <= n
    BY <1>1 DEF OverlayOK, Overlays, BeginFnaListAwaiting
  <2> PICK a \in Nat : a = p.active + 1
    BY <2>1 DEF Overlays
  <2> PICK q : q = [p EXCEPT !.active = a, !.show = TRUE, !.force = FALSE]
    OBVIOUS
  <2>2. q \in Overlays /\ q.active = a /\ q.show
    BY <2>1 DEF Overlays
  <2>3. p.active \in Nat
    BY <2>1 DEF Overlays
  <2>4. n + 1 \in Nat /\ a <= n + 1 /\ n + 1 > 0 /\ a > 0
    BY <2>1, <2>3
  <2>5. BeginFnaContentLoading(p) = q
    BY DEF BeginFnaContentLoading
  <2> QED
    BY <2>2, <2>4, <2>5 DEF OverlayOK
<1>2. OverlayOK(RunLoad(o), n + 1)
  BY <1>1 DEF RunLoad
<1>3. OverlayOK(EndFnaListAwaiting(o), n)
  BY DEF OverlayOK, Overlays, EndFnaListAwaiting
<1> QED
  BY <1>1, <1>2, <1>3

\* Once it has been arranged, the closing timer is armed while the overlay is
\* visible.
LEMMA Scheduled ==
  ASSUME NEW n \in Nat, NEW p \in Overlays, p.active <= n, p.awaiting => n > 0, p.visible => p.active > 0
  PROVE  OverlayOK(ScheduleForceClose(p), n)
<1>1. CASE p.visible
  <2> PICK k \in Nat : k = IF p.force THEN p.lost + 1 ELSE p.lost
    BY DEF Overlays
  <2>1. ScheduleForceClose(p) = [p EXCEPT !.force = TRUE, !.lost = k]
    BY <1>1 DEF ScheduleForceClose
  <2>2. ScheduleForceClose(p) \in Overlays
    BY <2>1 DEF Overlays
  <2>3. /\ ScheduleForceClose(p).active = p.active /\ ScheduleForceClose(p).awaiting = p.awaiting
        /\ ScheduleForceClose(p).force
    BY <2>1 DEF Overlays
  <2> QED
    BY <1>1, <2>2, <2>3 DEF OverlayOK
<1>2. CASE ~p.visible
  BY <1>2 DEF OverlayOK, ScheduleForceClose
<1> QED
  BY <1>1, <1>2

LEMMA Closed ==
  ASSUME NEW n \in Nat, NEW p \in Overlays, p.active <= n, p.awaiting => n > 0, p.visible => p.active > 0
  PROVE  OverlayOK(ForceClosed(p), n)
<1>1. CASE p.visible
  <2> PICK z \in Nat : z = 0
    OBVIOUS
  <2>1. ForceClosed(p) = [p EXCEPT !.active = z, !.visible = FALSE, !.awaiting = FALSE]
    BY <1>1 DEF ForceClosed
  <2>2. ForceClosed(p) \in Overlays /\ ForceClosed(p).active = z /\ ~ForceClosed(p).visible /\ ~ForceClosed(p).awaiting
    BY <2>1 DEF Overlays
  <2> QED
    BY <2>2 DEF OverlayOK
<1>2. CASE ~p.visible
  BY <1>2 DEF OverlayOK, ForceClosed
<1> QED
  BY <1>1, <1>2

LEMMA OverlayCloses ==
  ASSUME NEW n \in Nat, NEW o, OverlayOK(o, n)
  PROVE  /\ n > 0 => OverlayOK(EndFnaContentLoading(o), n - 1)
         /\ OverlayOK(Shown(o), n)
         /\ OverlayOK(ForceClosed([o EXCEPT !.force = FALSE]), n)
         /\ o.lost > 0 => OverlayOK(ForceClosed([o EXCEPT !.lost = o.lost - 1]), n)
<1>1. ASSUME n > 0 PROVE OverlayOK(EndFnaContentLoading(o), n - 1)
  <2>1. CASE o.active > 1
    <3>1. o \in Overlays /\ o.active \in Nat /\ o.active <= n
      BY DEF OverlayOK, Overlays
    <3> PICK a \in Nat, m \in Nat : a = o.active - 1 /\ m = n - 1 /\ 0 < a /\ a <= m
      BY <1>1, <2>1, <3>1
    <3> PICK p : p = [o EXCEPT !.active = a, !.force = FALSE]
      OBVIOUS
    <3>2. /\ p \in Overlays /\ p.active = a
      BY <3>1 DEF Overlays
    <3>3. 0 < m
      OBVIOUS
    <3>4. EndFnaContentLoading(o) = ScheduleForceClose(p)
      BY <2>1 DEF EndFnaContentLoading
    <3> QED
      BY <3>2, <3>3, <3>4, Scheduled
  <2>2. CASE ~(o.active > 1)
    <3>1. n - 1 \in Nat
      BY <1>1
    <3> PICK z \in Nat : z = 0
      OBVIOUS
    <3> PICK p : p = EndFnaContentLoading(o)
      OBVIOUS
    <3>2. p = [o EXCEPT !.active = z, !.show = FALSE, !.force = FALSE, !.awaiting = FALSE, !.visible = FALSE]
      BY <2>2 DEF EndFnaContentLoading
    <3>3. p \in Overlays /\ p.active = z /\ ~p.awaiting /\ ~p.visible
      BY <3>2 DEF OverlayOK, Overlays
    <3> QED
      BY <3>1, <3>3 DEF OverlayOK
  <2> QED
    BY <2>1, <2>2
<1>2. OverlayOK(Shown(o), n)
  <2> PICK v \in BOOLEAN : v = (o.visible \/ o.active > 0)
    OBVIOUS
  <2> PICK p : p = [o EXCEPT !.show = FALSE, !.visible = v]
    OBVIOUS
  <2>1. /\ p \in Overlays /\ p.active = o.active /\ p.visible = v
        /\ p.awaiting = o.awaiting /\ p.force = o.force
    BY DEF OverlayOK, Overlays
  <2>2. Shown(o) = ScheduleForceClose(p)
    BY DEF Shown
  <2>3. v <=> p.active > 0
    BY <2>1 DEF OverlayOK
  <2>4. p.active <= n /\ (p.awaiting => n > 0)
    BY <2>1 DEF OverlayOK
  <2> QED
    BY <2>1, <2>2, <2>3, <2>4, Scheduled
<1>3. OverlayOK(ForceClosed([o EXCEPT !.force = FALSE]), n)
  <2> PICK p : p = [o EXCEPT !.force = FALSE]
    OBVIOUS
  <2>1. /\ p \in Overlays /\ p.active = o.active /\ p.visible = o.visible /\ p.awaiting = o.awaiting
    BY DEF OverlayOK, Overlays
  <2> QED
    BY <2>1, Closed DEF OverlayOK
<1>4. ASSUME o.lost > 0 PROVE OverlayOK(ForceClosed([o EXCEPT !.lost = o.lost - 1]), n)
  <2> PICK k \in Nat : k = o.lost - 1
    BY <1>4 DEF OverlayOK, Overlays
  <2> PICK p : p = [o EXCEPT !.lost = k]
    OBVIOUS
  <2>1. /\ p \in Overlays /\ p.active = o.active /\ p.visible = o.visible /\ p.awaiting = o.awaiting
    BY DEF OverlayOK, Overlays
  <2> QED
    BY <2>1, Closed DEF OverlayOK
<1> QED
  BY <1>1, <1>2, <1>3, <1>4

\* A job of the queue leaves a bar a bar.
LEMMA BarSteps ==
  ASSUME NEW b \in Bars, NEW ss \in SUBSET Nat
  PROVE  [b EXCEPT !.mounted = TRUE, !.steps = ss] \in Bars
BY DEF Bars

\* The bar that is set goes up, whatever jobs there are.
LEMMA BarIsSet ==
  ASSUME NEW b \in Bars, b.frames \subseteq 1..b.gen, b.gen \notin b.frames, b.hold # b.gen,
         b.mounted \/ b.queue = <<>>
  PROVE  BarOK(SetProgress(b)) /\ SetProgress(b).status /\ SetProgress(b).gen = b.gen
<1> PICK c : c = [b EXCEPT !.status = TRUE]
  OBVIOUS
<1>1. c \in Bars /\ c.gen = b.gen /\ c.frames = b.frames /\ c.hold = b.hold /\ c.queue = b.queue /\ c.status
      /\ c.mounted = b.mounted
  BY DEF Bars
<1> PICK q \in Seq(Nat) : q = Append(c.queue, c.gen)
  <2>1. c.queue \in Seq(Nat) /\ c.gen \in Nat
    BY <1>1 DEF Bars
  <2>2. Append(c.queue, c.gen) \in Seq(Nat)
    BY <2>1
  <2> QED
    BY <2>2
<1> PICK d : d = [c EXCEPT !.queue = q]
  OBVIOUS
<1>2. d \in Bars /\ d.gen = b.gen /\ d.frames = b.frames /\ d.hold = b.hold /\ d.status /\ d.mounted = b.mounted
  BY <1>1 DEF Bars
<1>3. BarOK(RunJob(d)) /\ RunJob(d).status /\ RunJob(d).gen = b.gen
  <2> PICK ss : ss = d.steps \cup {d.gen}
    OBVIOUS
  <2>1. ss \in SUBSET Nat
    BY <1>2 DEF Bars
  <2> PICK e : e = [d EXCEPT !.mounted = TRUE, !.steps = ss]
    OBVIOUS
  <2>2. RunJob(d) = e
    BY DEF RunJob
  <2>3. e.gen = b.gen /\ e.frames = b.frames /\ e.hold = b.hold /\ e.status /\ e.mounted
    BY <1>2 DEF Bars
  <2>5. e \in Bars
    BY <1>2, <2>1, BarSteps
  <2>4. BarOK(e)
    BY <2>3, <2>5 DEF BarOK
  <2> QED
    BY <2>2, <2>3, <2>4
<1>4. b.mounted => BarOK(d)
  BY <1>2 DEF BarOK
<1>5. SetProgress(b) = IF c.queue = <<>> THEN RunJob(d) ELSE d
  BY DEF SetProgress, EnqueueSet
<1> QED
  BY <1>1, <1>2, <1>3, <1>4, <1>5

LEMMA BarFlushes ==
  ASSUME NEW b, BarOK(b)
  PROVE  LET c == FlushSetQueue(b) IN
         /\ c \in Bars /\ c.queue = <<>> /\ c.gen = b.gen + 1 /\ c.gen \in Nat \ {0}
         /\ c.frames = b.frames /\ c.status = b.status /\ c.mounted = b.mounted
         /\ c.frames \subseteq 1..c.gen /\ c.gen \notin c.frames
<1>1. b.gen \in Nat \ {0} /\ b.gen + 1 \in Nat \ {0} /\ b.gen + 1 \notin 1..b.gen /\ 1..b.gen \subseteq 1..b.gen + 1
  BY DEF BarOK, Bars
<1>2. <<>> \in Seq(Nat)
  OBVIOUS
<1> QED
  BY <1>1, <1>2 DEF BarOK, Bars, FlushSetQueue

LEMMA BarBegins == ASSUME NEW b, BarOK(b) PROVE BarOK(BeginFnaRouteProgress(b))
<1>1. CASE ~showBar
  BY <1>1 DEF BeginFnaRouteProgress
<1>2. CASE showBar
  <2> DEFINE set == SetProgress(FlushSetQueue([b EXCEPT !.hold = 0]))
  <2> PICK c : c = IF b.status THEN b ELSE set
    OBVIOUS
  <2>1. BarOK(c) /\ c.status
    <3>1. CASE b.status
      BY <3>1
    <3>2. CASE ~b.status
      <4> PICK e : e = [b EXCEPT !.hold = 0]
        OBVIOUS
      <4>1. /\ e \in Bars /\ e.gen = b.gen /\ e.frames = b.frames /\ e.hold = 0 /\ e.status = b.status
            /\ e.queue = <<>>
        BY <3>2 DEF BarOK, Bars
      <4> PICK g : g = FlushSetQueue(e)
        OBVIOUS
      <4>2. b.gen \in Nat \ {0} /\ b.gen + 1 \in Nat \ {0} /\ b.gen + 1 \notin 1..b.gen
            /\ 1..b.gen \subseteq 1..b.gen + 1 /\ <<>> \in Seq(Nat)
        BY DEF BarOK, Bars
      <4>3. g \in Bars /\ g.gen = b.gen + 1 /\ g.frames = b.frames /\ g.hold = 0 /\ g.queue = <<>>
        BY <4>1, <4>2 DEF Bars, FlushSetQueue
      <4>4. g.frames \subseteq 1..g.gen /\ g.gen \notin g.frames /\ g.hold # g.gen
        BY <4>2, <4>3 DEF BarOK
      <4>5. BarOK(SetProgress(g)) /\ SetProgress(g).status
        BY <4>3, <4>4, BarIsSet
      <4>6. c = SetProgress(g)
        BY <3>2
      <4> QED
        BY <4>5, <4>6
    <3> QED
      BY <3>1, <3>2
  <2>2. BeginFnaRouteProgress(b) = [c EXCEPT !.hold = 0, !.trickle = c.gen]
    BY <1>2 DEF BeginFnaRouteProgress
  <2> PICK z \in Nat : z = 0
    OBVIOUS
  <2>3. c.gen \in Nat \ {0} /\ c \in Bars /\ c.gen # z
    BY <2>1 DEF BarOK, Bars
  <2> PICK d : d = [c EXCEPT !.hold = z, !.trickle = c.gen]
    OBVIOUS
  <2>4. d \in Bars /\ d.hold = z /\ d.gen = c.gen /\ d.frames = c.frames /\ d.status = c.status
        /\ d.mounted = c.mounted /\ d.queue = c.queue
    BY <2>3 DEF Bars
  <2> QED
    BY <2>1, <2>2, <2>3, <2>4 DEF BarOK
<1> QED
  BY <1>1, <1>2

\* A bar that has run to its end and waits to fade keeps the shape of one.
LEMMA BarWaits ==
  ASSUME NEW b \in Bars, NEW z \in Nat, NEW fs \in SUBSET Nat
  PROVE  [b EXCEPT !.status = FALSE, !.mounted = TRUE, !.trickle = z, !.hold = z, !.frames = fs] \in Bars
BY DEF Bars

LEMMA BarFinishes ==
  ASSUME NEW b, BarOK(b), NEW force \in BOOLEAN
  PROVE  BarOK(EndFnaRouteProgress(b, force)) /\ ~EndFnaRouteProgress(b, force).status
<1> PICK n \in Nat \ {0} : n = b.gen + 1 /\ b.gen \in Nat /\ 1..b.gen \subseteq 1..n /\ n \in 1..n /\ n \notin 1..b.gen
  BY DEF BarOK, Bars
<1>1. CASE b.status
  <2> PICK c : c = [b EXCEPT !.queue = <<>>, !.gen = n]
    OBVIOUS
  <2>1. c \in Bars /\ c.gen = n /\ c.frames = b.frames /\ c.queue = <<>>
    <3>1. <<>> \in Seq(Nat)
      OBVIOUS
    <3> QED
      BY <3>1 DEF BarOK, Bars
  <2>c. c = [FlushSetQueue(b) EXCEPT !.gen = b.gen + 1]
    BY DEF FlushSetQueue, BarOK, Bars
  <2> PICK fs : fs = c.frames \cup {c.gen}
    OBVIOUS
  <2>2. fs \in SUBSET Nat /\ fs \subseteq 1..n /\ n \in fs
    BY <2>1 DEF BarOK, Bars
  <2> PICK z \in Nat : z = 0
    OBVIOUS
  <2> PICK d : d = [c EXCEPT !.status = FALSE, !.mounted = TRUE, !.trickle = z, !.hold = z, !.frames = fs]
    OBVIOUS
  <2>3. EndFnaRouteProgress(b, force) = d
    BY <1>1, <2>c DEF EndFnaRouteProgress
  <2>4. d.gen = n /\ d.frames = fs /\ d.queue = <<>> /\ ~d.status
    BY <2>1 DEF Bars
  <2>5. d \in Bars
    BY <2>1, <2>2, BarWaits
  <2> QED
    BY <2>2, <2>3, <2>4, <2>5 DEF BarOK
<1>2. CASE ~b.status /\ force
  <2> PICK c : c = FlushSetQueue(b)
    OBVIOUS
  <2>1. EndFnaRouteProgress(b, force) = [c EXCEPT !.mounted = FALSE, !.trickle = 0, !.hold = 0]
    BY <1>2 DEF EndFnaRouteProgress
  <2>2. c \in Bars /\ c.queue = <<>> /\ c.frames \subseteq 1..c.gen /\ ~c.status
    BY <1>2, BarFlushes
  <2> PICK z \in Nat : z = 0
    OBVIOUS
  <2> PICK d : d = [c EXCEPT !.mounted = FALSE, !.trickle = z, !.hold = z]
    OBVIOUS
  <2>3. d \in Bars /\ d.gen = c.gen /\ d.frames = c.frames /\ d.queue = c.queue /\ ~d.status /\ ~d.mounted
    BY <2>2 DEF Bars
  <2> QED
    BY <2>1, <2>2, <2>3 DEF BarOK
<1>3. CASE ~b.status /\ ~force
  BY <1>3 DEF EndFnaRouteProgress
<1> QED
  BY <1>1, <1>2, <1>3

LEMMA StepTimerStep == ASSUME BarOK(bar), StepTimer PROVE BarOK(bar') /\ bar'.status = bar.status
<1> PICK g \in bar.steps :
      LET b == [bar EXCEPT !.steps = @ \ {g}] IN
        bar' = IF g # bar.gen THEN b
               ELSE IF Len(b.queue) > 1 THEN RunJob([b EXCEPT !.queue = Tail(@)])
               ELSE [b EXCEPT !.queue = <<>>]
  BY DEF StepTimer, Bar
<1> PICK b : b = [bar EXCEPT !.steps = bar.steps \ {g}]
  OBVIOUS
<1>1. /\ BarOK(b) /\ b.queue = bar.queue /\ b.gen = bar.gen /\ b.status = bar.status
  BY DEF BarOK, Bars
<1>2. CASE g # bar.gen
  BY <1>1, <1>2
<1>3. CASE g = bar.gen /\ Len(b.queue) > 1
  <2>1. b.status
    BY <1>1, <1>3 DEF BarOK
  <2> PICK q \in Seq(Nat) : q = Tail(b.queue)
    <3>1. b.queue \in Seq(Nat) /\ b.queue # <<>>
      BY <1>1, <1>3 DEF BarOK, Bars
    <3>2. Tail(b.queue) \in Seq(Nat)
      BY <3>1
    <3> QED
      BY <3>2
  <2> PICK c : c = [b EXCEPT !.queue = q]
    OBVIOUS
  <2>2. BarOK(c) /\ c.status /\ bar.status
    BY <1>1, <2>1 DEF BarOK, Bars
  <2> PICK js \in SUBSET Nat : js = c.steps \cup {c.gen}
    BY <2>2 DEF BarOK, Bars
  <2>3. bar' = [c EXCEPT !.mounted = TRUE, !.steps = js]
    BY <1>3 DEF RunJob
  <2> QED
    BY <2>2, <2>3 DEF BarOK, Bars
<1>4. CASE g = bar.gen /\ ~(Len(b.queue) > 1)
  <2>1. bar' = [b EXCEPT !.queue = <<>>] /\ <<>> \in Seq(Nat)
    BY <1>4
  <2> QED
    BY <1>1, <2>1 DEF BarOK, Bars
<1> QED
  BY <1>2, <1>3, <1>4

LEMMA TrickleStep == ASSUME BarOK(bar), StartTrickleLoop PROVE BarOK(bar') /\ bar'.status = bar.status
<1>1. CASE bar.trickle = bar.gen /\ bar.status
  <2>1. bar' = SetProgress(bar)
    BY <1>1 DEF StartTrickleLoop, Bar, IncProgress
  <2> QED
    BY <1>1, <2>1, BarIsSet DEF BarOK
<1>2. CASE ~(bar.trickle = bar.gen /\ bar.status)
  <2>1. bar' = [bar EXCEPT !.trickle = 0]
    BY <1>2 DEF StartTrickleLoop, Bar
  <2> QED
    BY <2>1 DEF BarOK, Bars
<1> QED
  BY <1>1, <1>2

LEMMA FinishFrameStep == ASSUME BarOK(bar), FinishFrame PROVE BarOK(bar') /\ bar'.status = bar.status
<1> PICK g \in bar.frames :
      LET b == [bar EXCEPT !.frames = @ \ {g}] IN bar' = IF g = bar.gen THEN [b EXCEPT !.hold = g] ELSE b
  BY DEF FinishFrame, Bar
<1>1. CASE g = bar.gen
  <2>1. ~bar.status
    BY <1>1 DEF BarOK
  <2>2. bar' = [bar EXCEPT !.frames = bar.frames \ {g}, !.hold = g]
    BY <1>1
  <2> QED
    BY <1>1, <2>1, <2>2 DEF BarOK, Bars
<1>2. CASE g # bar.gen
  <2>1. bar' = [bar EXCEPT !.frames = bar.frames \ {g}]
    BY <1>2
  <2> QED
    BY <1>2, <2>1 DEF BarOK, Bars
<1> QED
  BY <1>1, <1>2

LEMMA FinishHoldStep == ASSUME BarOK(bar), FinishHoldTimer PROVE BarOK(bar') /\ bar'.status = bar.status
<1> PICK up \in BOOLEAN : up = (bar.mounted /\ bar.hold # bar.gen)
  OBVIOUS
<1>1. bar' = [bar EXCEPT !.hold = 0, !.mounted = up]
  BY DEF FinishHoldTimer, Bar
<1> QED
  BY <1>1 DEF BarOK, Bars

-----------------------------------------------------------------------------
(* The page that leaves, and the steps of the shell                          *)

LEMMA ListLoadStep ==
  ASSUME ShellInv, NEW lv, ListLoad(lv)
  PROVE  fetches' \in Nat /\ OverlayOK(overlay', fetches') /\ (load' = "waiting" => lv.active)
<1> PICK o : o = EndFnaListAwaiting(overlay)
  OBVIOUS
<1>1. OverlayOK(o, fetches) /\ fetches \in Nat
  BY OverlayWaits DEF ShellInv
<1>2. OverlayOK(RunLoad(o), fetches + 1)
  BY <1>1, OverlayWaits
<1> QED
  BY <1>1, <1>2 DEF ListLoad

LEMMA MountStep ==
  ASSUME ShellInv, NEW lv, MountsPage(lv)
  PROVE  fetches' \in Nat /\ OverlayOK(overlay', fetches') /\ (load' = "waiting" => lv.active)
<1>1. CASE ListLoad(lv)
  BY <1>1, ListLoadStep
<1>2. CASE load' = "none" /\ overlay' = EndFnaListAwaiting(overlay) /\ UNCHANGED <<fetches, done>>
  BY <1>2, OverlayWaits DEF ShellInv
<1> QED
  BY <1>1, <1>2 DEF MountsPage

LEMMA LeaveTriggered ==
  ASSUME NEW l, LeaveOK(l), NEW sized \in BOOLEAN
  PROVE  /\ LeaveOK(TriggerFnaPageLeave(l, sized))
         /\ l.active \/ l.dropped =>
              TriggerFnaPageLeave(l, sized).active \/ TriggerFnaPageLeave(l, sized).dropped
<1>1. CASE ~animated
  BY <1>1 DEF TriggerFnaPageLeave
<1>2. CASE animated /\ sized
  BY <1>2 DEF TriggerFnaPageLeave, LeaveOK, Leaves
<1>3. CASE animated /\ ~sized
  <2> PICK h \in BOOLEAN, d \in BOOLEAN : h = (l.hidden /\ ~l.active) /\ d = (l.dropped \/ l.active)
    OBVIOUS
  <2>1. TriggerFnaPageLeave(l, sized) = [l EXCEPT !.active = FALSE, !.hidden = h, !.dropped = d]
    BY <1>3 DEF TriggerFnaPageLeave
  <2> QED
    BY <2>1 DEF LeaveOK, Leaves
<1> QED
  BY <1>1, <1>2, <1>3

LEMMA ShellStep == ShellInv /\ [ShellNext]_shellVars => ShellInv'
<1> SUFFICES ASSUME ShellInv, [ShellNext]_shellVars PROVE ShellInv'
  OBVIOUS
<1>1. ASSUME ApiFetch \/ ApiFetchEnds PROVE ShellInv'
  <2>1. fetches \in Nat /\ OverlayOK(overlay, fetches)
    BY DEF ShellInv
  <2>2. fetches' \in Nat /\ OverlayOK(overlay', fetches')
    <3>1. CASE ApiFetch
      BY <2>1, <3>1, OverlayWaits DEF ApiFetch
    <3>2. CASE ApiFetchEnds
      <4>1. fetches > 0 /\ fetches - 1 \in Nat
        BY <2>1, <3>2 DEF ApiFetchEnds
      <4>2. OverlayOK(EndFnaContentLoading(overlay), fetches - 1)
        BY <2>1, <4>1, OverlayCloses
      <4> QED
        BY <3>2, <4>1, <4>2 DEF ApiFetchEnds
    <3> QED
      BY <1>1, <3>1, <3>2
  <2> QED
    BY <1>1, <2>2 DEF ShellInv, ApiFetch, ApiFetchEnds
<1>2. ASSUME ShowTimer \/ ForceTimer PROVE ShellInv'
  <2>1. fetches \in Nat /\ OverlayOK(overlay, fetches)
    BY DEF ShellInv
  <2>2. OverlayOK(overlay', fetches)
    BY <1>2, <2>1, OverlayCloses DEF ShowTimer, ForceTimer
  <2> QED
    BY <1>2, <2>2 DEF ShellInv, ShowTimer, ForceTimer
<1>3. ASSUME StepTimer \/ StartTrickleLoop \/ FinishFrame \/ FinishHoldTimer PROVE ShellInv'
  <2>1. BarOK(bar') /\ bar'.status = bar.status
    BY <1>3, StepTimerStep, TrickleStep, FinishFrameStep, FinishHoldStep DEF ShellInv
  <2>2. UNCHANGED <<overlay, fetches, leave, load, trip>>
    BY <1>3 DEF StepTimer, StartTrickleLoop, FinishFrame, FinishHoldTimer, Bar
  <2> QED
    BY <2>1, <2>2 DEF ShellInv
<1>4. CASE ToggleShowProgress
  <2>1. BarOK(bar') /\ (bar'.status => bar.status)
    BY <1>4, BarFinishes DEF ToggleShowProgress, ShellInv
  <2> QED
    BY <1>4, <2>1 DEF ToggleShowProgress, ShellInv
<1>5. CASE LeaveEnds
  <2>1. LeaveOK(leave')
    <3> PICK i \in Nat, j \in Nat : i = leave.enter + 1 /\ j = leave.reveal + 1 /\ i > 0
      BY DEF LeaveOK, Leaves, ShellInv
    <3>1. leave' = [leave EXCEPT !.active = FALSE, !.enter = i, !.reveal = j]
      BY <1>5 DEF LeaveEnds, FinishLeave
    <3> QED
      BY <3>1 DEF LeaveOK, Leaves, ShellInv
  <2>2. load' # "waiting"
    BY <1>5 DEF LeaveEnds
  <2>3. fetches' \in Nat /\ OverlayOK(overlay', fetches')
    BY <1>5, OverlayWaits DEF LeaveEnds, ShellInv
  <2> QED
    BY <1>5, <2>1, <2>2, <2>3 DEF LeaveEnds, ShellInv
<1>6. CASE StartEnter \/ RevealTimer
  <2>1. LeaveOK(leave') /\ leave'.active = leave.active /\ leave'.dropped = leave.dropped
    <3>1. CASE StartEnter
      <4> PICK i \in Nat : i = leave.enter - 1
        BY <3>1 DEF StartEnter, LeaveOK, Leaves, ShellInv
      <4>1. leave' = [leave EXCEPT !.enter = i, !.hidden = FALSE]
        BY <3>1 DEF StartEnter
      <4> QED
        BY <4>1 DEF LeaveOK, Leaves, ShellInv
    <3>2. CASE RevealTimer
      <4> PICK i \in Nat : i = leave.reveal - 1
        BY <3>2 DEF RevealTimer, LeaveOK, Leaves, ShellInv
      <4>1. leave' = [leave EXCEPT !.reveal = i, !.hidden = FALSE]
        BY <3>2 DEF RevealTimer
      <4> QED
        BY <4>1 DEF LeaveOK, Leaves, ShellInv
    <3> QED
      BY <1>6, <3>1, <3>2
  <2> QED
    BY <1>6, <2>1 DEF StartEnter, RevealTimer, ShellInv
<1>7. CASE Navigate
  <2>1. BarOK(bar')
    BY <1>7, BarBegins DEF Navigate, ShellInv
  <2> PICK sized \in BOOLEAN : leave' = TriggerFnaPageLeave(leave, sized)
    BY <1>7 DEF Navigate
  <2>2. LeaveOK(leave') /\ (leave.active \/ leave.dropped => leave'.active \/ leave'.dropped)
    BY LeaveTriggered DEF ShellInv
  <2> QED
    BY <1>7, <2>1, <2>2 DEF Navigate, ShellInv
<1>8. CASE PageArrives
  <2>1. BarOK(bar') /\ ~bar'.status
    BY <1>8, BarFinishes DEF PageArrives, ShellInv
  <2>2. LeaveOK(leave') /\ leave'.active = leave.active
    BY <1>8 DEF PageArrives, LeaveOK, Leaves, ShellInv
  <2>3. fetches' \in Nat /\ OverlayOK(overlay', fetches') /\ (load' = "waiting" => leave.active)
    BY <1>8, MountStep DEF PageArrives
  <2> QED
    BY <1>8, <2>1, <2>2, <2>3 DEF PageArrives, ShellInv
<1>9. CASE ArriveOnSamePath \/ NavigateWithoutClick
  BY <1>9 DEF ArriveOnSamePath, NavigateWithoutClick, ShellInv
<1>10. CASE Reloads
  <2>1. fetches' \in Nat /\ OverlayOK(overlay', fetches') /\ (load' = "waiting" => leave.active)
    BY <1>10, ListLoadStep DEF Reloads
  <2> QED
    BY <1>10, <2>1 DEF Reloads, ShellInv
<1>11. CASE ShellUnmounts
  <2>1. OverlayOK(overlay', fetches)
    BY <1>11, OverlayWaits DEF ShellUnmounts, ShellInv
  <2>2. LeaveOK(leave')
    BY <1>11 DEF ShellUnmounts, ResetFnaPageLeave, LeaveOK, Leaves, ShellInv
  <2> QED
    BY <1>11, <2>1, <2>2 DEF ShellUnmounts, ShellInv
<1>12. CASE ShellMounts
  <2>1. BarOK(bar') /\ ~bar'.status
    <3>1. BarOK(bar)
      BY DEF ShellInv
    <3>2. PICK b : b = EndFnaRouteProgress(bar, FALSE)
      OBVIOUS
    <3>3. BarOK(b) /\ ~b.status
      BY <3>1, <3>2, BarFinishes
    <3>4. BarOK(EndFnaRouteProgress(b, TRUE)) /\ ~EndFnaRouteProgress(b, TRUE).status
      BY <3>3, BarFinishes
    <3>5. bar' = IF showBar THEN b ELSE EndFnaRouteProgress(b, TRUE)
      BY <1>12, <3>2 DEF ShellMounts
    <3> QED
      BY <3>3, <3>4, <3>5
  <2>2. LeaveOK(leave') /\ leave' = ResetFnaPageLeave(leave)
    BY <1>12 DEF ShellMounts, ResetFnaPageLeave, LeaveOK, Leaves, ShellInv
  <2>3. fetches' \in Nat /\ OverlayOK(overlay', fetches') /\ (load' = "waiting" => leave'.active)
    BY <1>12, <2>2, MountStep DEF ShellMounts
  <2> QED
    BY <1>12, <2>1, <2>2, <2>3 DEF ShellMounts, ShellInv
<1>13. CASE UNCHANGED shellVars
  BY <1>13 DEF shellVars, ShellInv
<1> QED
  BY <1>1, <1>2, <1>3, <1>4, <1>5, <1>6, <1>7, <1>8, <1>9, <1>10, <1>11, <1>12, <1>13 DEF ShellNext

LEMMA ShellStarts == ShellInit => ShellInv
<1> SUFFICES ASSUME ShellInit PROVE ShellInv
  OBVIOUS
<1>1. OverlayOK(overlay, fetches) /\ fetches \in Nat
  BY DEF ShellInit, OverlayOK, Overlays
<1>2. BarOK(bar)
  <2>1. <<>> \in Seq(Nat)
    OBVIOUS
  <2> QED
    BY <2>1 DEF ShellInit, BarOK, Bars
<1>3. LeaveOK(leave) /\ load # "waiting" /\ ~bar.status
  BY DEF ShellInit, LeaveOK, Leaves
<1> QED
  BY <1>1, <1>2, <1>3 DEF ShellInv

\* Whatever timers, frames, answers and clicks come in which order, the
\* overlay, the bar, a hidden page and a waiting list load each have something
\* left that ends them.
THEOREM NothingStaysTheorem == ShellSpec => []NothingStaysForGood
<1>1. ShellInv => NothingStaysForGood
  BY DEF ShellInv, OverlayOK, Overlays, BarOK, LeaveOK, NothingStaysForGood, OverlayEnds, BarEnds, LeaveIsAwaited
<1>2. ShellSpec => []ShellInv
  BY ShellStarts, ShellStep, PTL DEF ShellSpec
<1> QED
  BY <1>1, <1>2, PTL

-----------------------------------------------------------------------------
(* The session.                                                              *)

Flights == [n : Nat, kind : {"sync", "refresh", "login", "logout"}, at : {"sent", "ok", "denied", "lost"},
            first : BOOLEAN, cookie : Users \cup {""}, who : Users \cup {""}, cancelled : BOOLEAN, old : BOOLEAN]
SessionTypeOK ==
    /\ flights \in SUBSET Flights
    /\ cookie \in Users \cup {""}
    /\ accounts \in SUBSET Users
    /\ deeds \in Nat

\* The user that an answer which comes in will put into the provider.
Claims(f) == IF f.at = "sent" /\ f.first THEN f.cookie ELSE f.who
Counts(f) == ~f.cancelled /\ ~f.old
Truthful(f) == f.at \in {"sent", "ok"} /\ cookie \in accounts => Claims(f) = cookie

\* A check of the path that is shown, or a refresh of the session that the
\* cookie is of, brings the cookie's user; a logout that began with a cookie is
\* refused only by taking the cookie away.
FlightInv ==
    \A f \in flights :
        /\ f.kind = "refresh" /\ Counts(f) => Truthful(f)
        /\ f.kind = "sync" /\ Counts(f) /\ path # LoginPage /\ ~unsynced => Truthful(f)
        /\ f.kind = "logout" /\ ~f.old /\ f.cookie = "" => cookie = ""
        /\ f.kind = "refresh" => ~f.cancelled

\* The login page has cancelled or aged what could bring a user.
LoginInv ==
    path = LoginPage /\ ~unsynced =>
        /\ \A f \in flights : f.kind \in {"sync", "refresh"} => f.cancelled \/ f.old
        /\ ~late => user = ""

\* On another page the provider has the cookie's user or waits for him.
PageInv ==
    path # LoginPage /\ ~unsynced /\ ~late /\ cookie \in accounts =>
        user = cookie \/ \E f \in flights : f.kind = "sync" /\ ~f.cancelled

\* The spinner turns while a check is due or its answer is waited for.
SpinnerInv ==
    isLoading => unsynced \/ \E f \in flights : f.kind \in {"sync", "refresh"} /\ ~f.cancelled

SessionInv == SessionTypeOK /\ FlightInv /\ LoginInv /\ PageInv /\ SpinnerInv

-----------------------------------------------------------------------------
(* What a step does to the requests under way                                *)

\* A request is answered, lost or sent again.
Evolves(f, g) ==
    /\ g.kind = f.kind
    /\ g.cancelled <=> f.cancelled
    /\ g.old <=> f.old
    /\ g.kind # "login" /\ g.at \in {"sent", "ok"} => f.at \in {"sent", "ok"} /\ Claims(g) = Claims(f)
    /\ g.cookie = "" => f.cookie = "" \/ cookie = ""

\* A request is sent; the login page does not ask for its user.
Begins(g) ==
    /\ g.kind \in {"refresh", "login", "logout"}
    /\ g.at = "sent" /\ g.cookie = cookie /\ (g.kind = "refresh" => g.first /\ path # LoginPage)
    /\ ~g.cancelled

\* What a new request carries.
Sent(g, kind) ==
    /\ g \in Flights /\ g.kind = kind /\ g.at = "sent" /\ g.cookie = cookie
    /\ ~g.cancelled /\ ~g.old /\ (g.first <=> kind \in {"sync", "refresh"})

LEMMA FlightIsSent ==
  ASSUME SessionTypeOK, NEW kind \in {"sync", "refresh", "login", "logout"}, NEW who \in Users \cup {""},
         NEW g, g = Flight(kind, who)
  PROVE  Sent(g, kind)
<1> PICK b \in BOOLEAN : b <=> kind \in {"sync", "refresh"}
  OBVIOUS
<1> PICK m : m = [n |-> deeds, kind |-> kind, at |-> "sent", first |-> b,
                  cookie |-> cookie, who |-> who, cancelled |-> FALSE, old |-> FALSE]
  OBVIOUS
<1>1. m \in Flights
  BY DEF Flights, SessionTypeOK
<1>2. m.kind = kind /\ m.at = "sent" /\ m.cookie = cookie /\ m.who = who /\ ~m.cancelled /\ ~m.old /\ m.first = b
  OBVIOUS
<1>3. b = (kind \in {"sync", "refresh"})
  OBVIOUS
<1>4. g = m
  BY <1>3 DEF Flight
<1> QED
  BY <1>1, <1>2, <1>4 DEF Sent

Alike(f, g) ==
    g.kind = f.kind /\ g.at = f.at /\ g.first = f.first /\ g.cookie = f.cookie /\ g.who = f.who
CancelledOf(f, g) == Alike(f, g) /\ (g.old <=> f.old) /\ (g.cancelled <=> f.cancelled \/ f.kind = "sync")
AgedOf(f, g, kinds) == Alike(f, g) /\ (g.cancelled <=> f.cancelled) /\ (g.old <=> f.old \/ f.kind \in kinds)

LEMMA CancelledFacts ==
  ASSUME NEW fs \in SUBSET Flights
  PROVE  /\ Cancelled(fs) \in SUBSET Flights
         /\ \A g \in Cancelled(fs) : \E f \in fs : CancelledOf(f, g)
<1> DEFINE h(f) == IF f.kind = "sync" THEN [f EXCEPT !.cancelled = TRUE] ELSE f
<1>1. \A f \in fs : h(f) \in Flights /\ CancelledOf(f, h(f))
  BY DEF Flights, CancelledOf, Alike
<1>2. Cancelled(fs) = {h(f) : f \in fs}
  BY DEF Cancelled
<1> HIDE DEF h
<1> QED
  BY <1>1, <1>2

LEMMA AgedFacts ==
  ASSUME NEW fs \in SUBSET Flights, NEW kinds
  PROVE  /\ Aged(fs, kinds) \in SUBSET Flights
         /\ \A g \in Aged(fs, kinds) : \E f \in fs : AgedOf(f, g, kinds)
         /\ \A f \in fs : \E g \in Aged(fs, kinds) : AgedOf(f, g, kinds)
<1> DEFINE h(f) == IF f.kind \in kinds THEN [f EXCEPT !.old = TRUE] ELSE f
<1>1. \A f \in fs : h(f) \in Flights /\ AgedOf(f, h(f), kinds)
  BY DEF Flights, AgedOf, Alike
<1>2. Aged(fs, kinds) = {h(f) : f \in fs}
  BY DEF Aged
<1> HIDE DEF h
<1> QED
  BY <1>1, <1>2

\* The requests stay what they are when they evolve or begin, while the cookie
\* stays or is taken away, and the path stays or is still to be looked at.
LEMMA Carried ==
  ASSUME SessionInv, flights' \in SUBSET Flights, deeds' \in Nat, accounts' \subseteq accounts,
         cookie' = cookie \/ cookie' = "", ~unsynced' => path' = path /\ ~unsynced,
         \A g \in flights' : (\E f \in flights : Evolves(f, g)) \/ Begins(g)
  PROVE  /\ SessionTypeOK' /\ FlightInv'
         /\ path' = LoginPage /\ ~unsynced' =>
              \A g \in flights' : g.kind \in {"sync", "refresh"} => g.cancelled \/ g.old
<1>1. SessionTypeOK'
  BY DEF SessionInv, SessionTypeOK
<1>2. cookie' \in accounts' => cookie' = cookie /\ cookie \in accounts
  BY AccountAssumption DEF SessionInv, SessionTypeOK
<1>3. ASSUME NEW g \in flights', NEW f \in flights, Evolves(f, g)
      PROVE  /\ g.kind = "refresh" /\ Counts(g) => Truthful(g)'
             /\ g.kind = "sync" /\ Counts(g) /\ path' # LoginPage /\ ~unsynced' => Truthful(g)'
             /\ g.kind = "logout" /\ ~g.old /\ g.cookie = "" => cookie' = ""
             /\ g.kind = "refresh" => ~g.cancelled
             /\ path' = LoginPage /\ ~unsynced' /\ g.kind \in {"sync", "refresh"} => g.cancelled \/ g.old
  <2>1. /\ f.kind = "refresh" /\ Counts(f) => Truthful(f)
        /\ f.kind = "sync" /\ Counts(f) /\ path # LoginPage /\ ~unsynced => Truthful(f)
        /\ f.kind = "logout" /\ ~f.old /\ f.cookie = "" => cookie = ""
        /\ f.kind = "refresh" => ~f.cancelled
        /\ path = LoginPage /\ ~unsynced /\ f.kind \in {"sync", "refresh"} => f.cancelled \/ f.old
    BY DEF SessionInv, FlightInv, LoginInv
  <2>2. g.kind # "login" => (Truthful(f) => Truthful(g)')
    BY <1>2, <1>3 DEF Truthful, Evolves, Claims
  <2>3. g.kind = f.kind /\ (Counts(g) <=> Counts(f)) /\ (g.old <=> f.old) /\ (g.cancelled <=> f.cancelled)
    BY <1>3 DEF Evolves, Counts
  <2>4. g.cookie = "" => f.cookie = "" \/ cookie = ""
    BY <1>3 DEF Evolves
  <2> QED
    BY <2>1, <2>2, <2>3, <2>4
<1>4. ASSUME NEW g \in flights', Begins(g)
      PROVE  /\ g.kind = "refresh" /\ Counts(g) => Truthful(g)'
             /\ g.kind = "sync" /\ Counts(g) /\ path' # LoginPage /\ ~unsynced' => Truthful(g)'
             /\ g.kind = "logout" /\ ~g.old /\ g.cookie = "" => cookie' = ""
             /\ g.kind = "refresh" => ~g.cancelled
             /\ path' = LoginPage /\ ~unsynced' /\ g.kind \in {"sync", "refresh"} => g.cancelled \/ g.old
  <2>1. g.kind = "refresh" => Truthful(g)'
    BY <1>2, <1>4 DEF Truthful, Claims, Begins
  <2> QED
    BY <1>4, <2>1 DEF Begins
<1>5. FlightInv'
  BY <1>3, <1>4 DEF FlightInv
<1> QED
  BY <1>1, <1>3, <1>4, <1>5

-----------------------------------------------------------------------------
(* The steps of the session                                                  *)

LEMMA SyncAuthStep == ASSUME SessionInv, SyncAuth PROVE SessionInv'
<1>1. flights \in SUBSET Flights /\ SessionTypeOK
  BY DEF SessionInv, SessionTypeOK
<1> PICK cs \in SUBSET Flights : cs = Cancelled(flights) /\ \A g \in cs : \E f \in flights : CancelledOf(f, g)
  BY <1>1, CancelledFacts
<1>2. CASE path = LoginPage
  <2>1. flights' = Aged(cs, Unowned) /\ user' = "" /\ ~isLoading' /\ path' = path /\ ~unsynced'
        /\ UNCHANGED <<cookie, accounts, deeds>>
    BY <1>2 DEF SyncAuth
  <2>2. flights' \in SUBSET Flights /\ \A g \in flights' : \E f \in cs : AgedOf(f, g, Unowned)
    BY <2>1, AgedFacts
  <2>3. ASSUME NEW g \in flights'
        PROVE  /\ g.kind \in Unowned => g.old
               /\ g.kind = "sync" => g.cancelled
               /\ g.kind = "refresh" => ~g.cancelled
    <3> PICK h \in cs : AgedOf(h, g, Unowned)
      BY <2>2
    <3> PICK f \in flights : CancelledOf(f, h)
      OBVIOUS
    <3>1. f.kind = "refresh" => ~f.cancelled
      BY DEF SessionInv, FlightInv
    <3> QED
      BY <3>1 DEF AgedOf, CancelledOf, Alike
  <2>4. SessionTypeOK'
    BY <1>1, <2>1, <2>2 DEF SessionTypeOK
  <2>5. FlightInv'
    BY <2>3 DEF FlightInv, Counts, Unowned
  <2>6. LoginInv' /\ PageInv' /\ SpinnerInv'
    BY <1>2, <2>1, <2>3 DEF LoginInv, PageInv, SpinnerInv, Unowned
  <2> QED
    BY <2>4, <2>5, <2>6 DEF SessionInv
<1>3. CASE path # LoginPage
  <2> PICK new : new = Flight("sync", "")
    OBVIOUS
  <2>0. Sent(new, "sync")
    <3>1. "sync" \in {"sync", "refresh", "login", "logout"} /\ "" \in Users \cup {""}
      OBVIOUS
    <3> QED
      BY <1>1, <3>1, FlightIsSent, Zenon
  <2>1. /\ new \in Flights /\ new.kind = "sync" /\ new.at = "sent" /\ new.cookie = cookie
        /\ ~new.cancelled /\ new.first
    BY <2>0 DEF Sent
  <2>2. flights' = cs \cup {new} /\ path' = path /\ ~unsynced' /\ UNCHANGED <<cookie, accounts, deeds>>
    BY <1>3 DEF SyncAuth
  <2>3. SessionTypeOK'
    BY <1>1, <2>1, <2>2 DEF SessionTypeOK
  <2>4. Truthful(new)'
    BY <2>1, <2>2 DEF Truthful, Claims
  <2>5. ASSUME NEW g \in cs
        PROVE  /\ g.kind = "refresh" /\ Counts(g) => Truthful(g)'
               /\ g.kind = "sync" => ~Counts(g)
               /\ g.kind = "logout" /\ ~g.old /\ g.cookie = "" => cookie' = ""
               /\ g.kind = "refresh" => ~g.cancelled
    <3> PICK f \in flights : CancelledOf(f, g)
      OBVIOUS
    <3>1. /\ f.kind = "refresh" /\ Counts(f) => Truthful(f)
          /\ f.kind = "logout" /\ ~f.old /\ f.cookie = "" => cookie = ""
          /\ f.kind = "refresh" => ~f.cancelled
      BY DEF SessionInv, FlightInv
    <3>2. Truthful(f) => Truthful(g)'
      <4>1. UNCHANGED <<cookie, accounts>>
        BY <2>2
      <4>2. g.at = f.at /\ Claims(g) = Claims(f)
        <5>1. g.at = f.at /\ g.first = f.first /\ g.cookie = f.cookie /\ g.who = f.who
          BY DEF CancelledOf, Alike
        <5>2. (g.at = "sent" /\ g.first) <=> (f.at = "sent" /\ f.first)
          BY <5>1
        <5> QED
          BY <5>1, <5>2 DEF Claims
      <4>3. Claims(g)' = Claims(g)
        BY DEF Claims
      <4> QED
        BY <4>1, <4>2, <4>3 DEF Truthful
    <3>3. g.kind = "refresh" => (Counts(g) <=> Counts(f))
      BY DEF CancelledOf, Alike, Counts
    <3>4. g.kind = f.kind /\ g.cookie = f.cookie /\ (g.old <=> f.old)
          /\ (g.cancelled <=> f.cancelled \/ f.kind = "sync")
      BY DEF CancelledOf, Alike
    <3> QED
      BY <2>2, <3>1, <3>2, <3>3, <3>4 DEF Counts
  <2>6. FlightInv'
    BY <2>1, <2>2, <2>4, <2>5 DEF FlightInv
  <2>7. LoginInv' /\ PageInv' /\ SpinnerInv'
    BY <1>3, <2>1, <2>2 DEF LoginInv, PageInv, SpinnerInv
  <2> QED
    BY <2>3, <2>6, <2>7 DEF SessionInv
<1> QED
  BY <1>2, <1>3

\* A page, the shell or the form sends a request.
LEMMA SendStep ==
  ASSUME SessionInv, Refresh \/ Logout \/ (\E u \in Users : HandleSubmit(u))
  PROVE  SessionInv'
<1>1. SessionTypeOK /\ deeds' \in Nat
  <2>1. SessionTypeOK /\ deeds \in Nat
    BY DEF SessionInv, SessionTypeOK
  <2>2. Deed
    BY DEF Refresh, Logout, HandleSubmit
  <2> QED
    BY <2>1, <2>2 DEF Deed
<1> PICK g \in Flights :
       /\ flights' = flights \cup {g} /\ Begins(g)
       /\ isLoading' => isLoading \/ g.kind = "refresh"
  <2>1. CASE Refresh
    <3> PICK g : g = Flight("refresh", "")
      OBVIOUS
    <3>0. Sent(g, "refresh")
      <4>1. "refresh" \in {"sync", "refresh", "login", "logout"} /\ "" \in Users \cup {""}
        OBVIOUS
      <4> QED
        BY <1>1, <4>1, FlightIsSent, Zenon
    <3>1. g \in Flights /\ g.kind = "refresh" /\ Begins(g)
      BY <2>1, <3>0 DEF Begins, Refresh, Sent
    <3> QED
      BY <2>1, <3>1 DEF Refresh
  <2>2. CASE Logout
    <3> PICK g : g = Flight("logout", "")
      OBVIOUS
    <3>0. Sent(g, "logout")
      <4>1. "logout" \in {"sync", "refresh", "login", "logout"} /\ "" \in Users \cup {""}
        OBVIOUS
      <4> QED
        BY <1>1, <4>1, FlightIsSent, Zenon
    <3>1. g \in Flights /\ Begins(g)
      BY <3>0 DEF Begins, Sent
    <3> QED
      BY <2>2, <3>1 DEF Logout
  <2>3. CASE \E u \in Users : HandleSubmit(u)
    <3> PICK u \in Users : HandleSubmit(u)
      BY <2>3
    <3> PICK g : g = Flight("login", u)
      OBVIOUS
    <3>0. Sent(g, "login")
      <4>1. "login" \in {"sync", "refresh", "login", "logout"} /\ u \in Users \cup {""}
        OBVIOUS
      <4> QED
        BY <1>1, <4>1, FlightIsSent, Zenon
    <3>1. g \in Flights /\ Begins(g)
      BY <3>0 DEF Begins, Sent
    <3> QED
      BY <3>1 DEF HandleSubmit
  <2> QED
    BY <2>1, <2>2, <2>3
<1>2. UNCHANGED <<cookie, accounts, path, user, unsynced, late>>
  BY DEF Refresh, Logout, HandleSubmit
<1>3. \A f \in flights : Evolves(f, f)
  BY DEF Evolves
<1>4. flights' \in SUBSET Flights
  BY <1>1 DEF SessionTypeOK
<1>5. /\ SessionTypeOK' /\ FlightInv'
      /\ path' = LoginPage /\ ~unsynced' =>
           \A f \in flights' : f.kind \in {"sync", "refresh"} => f.cancelled \/ f.old
  BY <1>1, <1>2, <1>3, <1>4, Carried
<1>6. LoginInv' /\ PageInv'
  BY <1>2, <1>5 DEF LoginInv, PageInv, SessionInv
<1>7. SpinnerInv'
  BY <1>2 DEF SpinnerInv, SessionInv, Begins
<1> QED
  BY <1>5, <1>6, <1>7 DEF SessionInv

\* A request becomes another, in the hands of the server or of the network.
LEMMA FlightStep ==
  ASSUME SessionInv, NEW f \in flights, ServerAnswers(f) \/ RequestIsLost(f) \/ AsksForMenus(f)
  PROVE  SessionInv'
<1>1. f \in Flights /\ SessionTypeOK
  BY DEF SessionInv, SessionTypeOK
<1>2. deeds' \in Nat /\ UNCHANGED <<cookie, accounts, path, user, isLoading, unsynced, late>>
  <2>1. deeds \in Nat
    BY <1>1 DEF SessionTypeOK
  <2>2. deeds' = deeds \/ deeds' = deeds + 1
    BY DEF ServerAnswers, RequestIsLost, AsksForMenus, Deed
  <2>3. UNCHANGED <<cookie, accounts, path, user, isLoading, unsynced, late>>
    BY DEF ServerAnswers, RequestIsLost, AsksForMenus
  <2> QED
    BY <2>1, <2>2, <2>3
<1> PICK g \in Flights : FlightBecomes(f, g) /\ Evolves(f, g)
  <2>1. CASE ServerAnswers(f) /\ f.kind = "login"
    <3> PICK a \in {"ok", "denied"} : a = IF RequireSession(f.who) THEN "ok" ELSE "denied"
      OBVIOUS
    <3> PICK g : g = [f EXCEPT !.at = a]
      OBVIOUS
    <3>1. g \in Flights /\ FlightBecomes(f, g)
      BY <1>1, <2>1 DEF ServerAnswers, Flights
    <3>2. g.kind = f.kind /\ g.cancelled = f.cancelled /\ g.old = f.old /\ g.cookie = f.cookie /\ g.first = f.first
          /\ g.who = f.who
      BY <1>1 DEF Flights
    <3> QED
      BY <2>1, <3>1, <3>2 DEF Evolves
  <2>2. CASE ServerAnswers(f) /\ f.kind # "login" /\ RequireSession(f.cookie)
    <3> PICK w \in Users \cup {""} : w = IF f.first THEN f.cookie ELSE f.who
      BY <1>1 DEF Flights
    <3> PICK g : g = [f EXCEPT !.at = "ok", !.who = w]
      OBVIOUS
    <3>1. g \in Flights /\ FlightBecomes(f, g)
      BY <1>1, <2>2 DEF ServerAnswers, Flights
    <3>2. g.kind = f.kind /\ g.cancelled = f.cancelled /\ g.old = f.old /\ g.cookie = f.cookie /\ g.at = "ok"
          /\ g.who = w
      BY <1>1 DEF Flights
    <3>3. f.at = "sent"
      BY <2>2 DEF ServerAnswers
    <3> QED
      BY <3>1, <3>2, <3>3 DEF Evolves, Claims
  <2>3. CASE ServerAnswers(f) /\ f.kind # "login" /\ ~RequireSession(f.cookie)
    <3> PICK g : g = [f EXCEPT !.at = "denied"]
      OBVIOUS
    <3>1. g \in Flights /\ FlightBecomes(f, g)
      BY <1>1, <2>3 DEF ServerAnswers, Flights
    <3>2. g.kind = f.kind /\ g.cancelled = f.cancelled /\ g.old = f.old /\ g.cookie = f.cookie /\ g.at = "denied"
      BY <1>1 DEF Flights
    <3> QED
      BY <3>1, <3>2 DEF Evolves
  <2>4. CASE RequestIsLost(f)
    <3> PICK g : g = [f EXCEPT !.at = "lost"]
      OBVIOUS
    <3>1. g \in Flights /\ FlightBecomes(f, g)
      BY <1>1, <2>4 DEF RequestIsLost, Flights
    <3>2. g.kind = f.kind /\ g.cancelled = f.cancelled /\ g.old = f.old /\ g.cookie = f.cookie /\ g.at = "lost"
      BY <1>1 DEF Flights
    <3> QED
      BY <3>1, <3>2 DEF Evolves
  <2>5. CASE AsksForMenus(f)
    <3> PICK g : g = [f EXCEPT !.at = "sent", !.first = FALSE, !.cookie = cookie]
      OBVIOUS
    <3>1. g \in Flights /\ FlightBecomes(f, g)
      BY <1>1, <2>5 DEF AsksForMenus, Flights, SessionTypeOK
    <3>2. g.kind = f.kind /\ g.cancelled = f.cancelled /\ g.old = f.old /\ g.cookie = cookie /\ g.who = f.who
          /\ ~g.first
      BY <1>1 DEF Flights
    <3>3. f.at = "ok"
      BY <2>5 DEF AsksForMenus
    <3> QED
      BY <3>1, <3>2, <3>3 DEF Evolves, Claims
  <2> QED
    BY <2>1, <2>2, <2>3, <2>4, <2>5
<1>3. flights' = (flights \ {f}) \cup {g}
  BY DEF FlightBecomes
<1>4. \A h \in flights : Evolves(h, h)
  BY DEF Evolves
<1>5. flights' \in SUBSET Flights
  BY <1>1, <1>3 DEF SessionTypeOK
<1>6. \A h \in flights' : \E e \in flights : Evolves(e, h)
  BY <1>3, <1>4
<1>7. \A e \in flights : \E h \in flights' : Evolves(e, h)
  BY <1>3, <1>4
<1>8. /\ SessionTypeOK' /\ FlightInv'
      /\ path' = LoginPage /\ ~unsynced' =>
           \A h \in flights' : h.kind \in {"sync", "refresh"} => h.cancelled \/ h.old
  BY <1>1, <1>2, <1>5, <1>6, Carried
<1>9. LoginInv'
  BY <1>2, <1>8 DEF LoginInv, SessionInv
<1>10. \A e \in flights : \E h \in flights' : h.kind = e.kind /\ (h.cancelled <=> e.cancelled)
  BY <1>7 DEF Evolves
<1>11. PageInv'
  BY <1>2, <1>10 DEF PageInv, SessionInv
<1>12. SpinnerInv'
  BY <1>2, <1>10 DEF SpinnerInv, SessionInv
<1> QED
  BY <1>8, <1>9, <1>11, <1>12 DEF SessionInv

LEMMA SessionAnswersStep ==
  ASSUME SessionInv, NEW f \in flights, SessionAnswers(f)
  PROVE  SessionInv'
<1>1. f \in Flights /\ SessionTypeOK
  BY DEF SessionInv, SessionTypeOK
<1>2. flights' = flights \ {f} /\ UNCHANGED <<accounts, path, unsynced, deeds>> /\ cookie' \in {cookie, ""}
  BY DEF SessionAnswers, BuildClearAuthCookie
<1>3. \A h \in flights : Evolves(h, h)
  BY DEF Evolves
<1>4. flights' \in SUBSET Flights /\ deeds' \in Nat
  BY <1>1, <1>2 DEF SessionTypeOK
<1>5. /\ SessionTypeOK' /\ FlightInv'
      /\ path' = LoginPage /\ ~unsynced' =>
           \A h \in flights' : h.kind \in {"sync", "refresh"} => h.cancelled \/ h.old
  BY <1>2, <1>3, <1>4, Carried
<1>6. cookie' \in accounts => cookie' = cookie
  BY <1>1, <1>2, AccountAssumption DEF SessionTypeOK
<1>7. CASE f.cancelled
  <2>1. UNCHANGED <<user, isLoading, late>>
    BY <1>7 DEF SessionAnswers
  <2> QED
    BY <1>2, <1>5, <1>6, <1>7, <2>1 DEF SessionInv, LoginInv, PageInv, SpinnerInv
<1>8. CASE ~f.cancelled
  <2>1. ~isLoading' /\ (late' <=> f.old \/ f.at # "ok") /\ (f.at = "ok" => user' = f.who)
    BY <1>8 DEF SessionAnswers
  <2>2. SpinnerInv'
    BY <2>1 DEF SpinnerInv
  <2>3. LoginInv'
    <3>1. path = LoginPage /\ ~unsynced => f.old
      BY <1>8 DEF SessionInv, LoginInv, SessionAnswers
    <3> QED
      BY <1>2, <1>5, <2>1, <3>1 DEF LoginInv
  <2>4. PageInv'
    <3> SUFFICES ASSUME path # LoginPage, ~unsynced, ~late', cookie' \in accounts PROVE user' = cookie'
      BY <1>2 DEF PageInv
    <3>1. f.at = "ok" /\ ~f.first /\ ~f.old
      BY <2>1 DEF SessionAnswers
    <3>2. Truthful(f)
      BY <1>8, <3>1 DEF SessionInv, FlightInv, SessionAnswers, Counts
    <3> QED
      BY <1>6, <2>1, <3>1, <3>2 DEF Truthful, Claims
  <2> QED
    BY <1>5, <2>2, <2>3, <2>4 DEF SessionInv
<1> QED
  BY <1>7, <1>8

LEMMA LogoutAnswersStep ==
  ASSUME SessionInv, NEW f \in flights, LogoutAnswers(f)
  PROVE  SessionInv'
<1>1. f \in Flights /\ SessionTypeOK
  BY DEF SessionInv, SessionTypeOK
<1>2. flights' = flights \ {f} /\ UNCHANGED <<accounts, path, unsynced, deeds, isLoading>> /\ cookie' \in {cookie, ""}
      /\ user' = "" /\ (late' <=> f.at = "lost" \/ f.old)
  BY DEF LogoutAnswers, BuildClearAuthCookie
<1>3. \A h \in flights : Evolves(h, h)
  BY DEF Evolves
<1>4. flights' \in SUBSET Flights /\ deeds' \in Nat
  BY <1>1, <1>2 DEF SessionTypeOK
<1>5. /\ SessionTypeOK' /\ FlightInv'
      /\ path' = LoginPage /\ ~unsynced' =>
           \A h \in flights' : h.kind \in {"sync", "refresh"} => h.cancelled \/ h.old
  BY <1>2, <1>3, <1>4, Carried
<1>6. LoginInv'
  BY <1>2, <1>5 DEF LoginInv
<1>7. SpinnerInv'
  <2>1. \A h \in flights : h.kind \in {"sync", "refresh"} => h \in flights'
    BY <1>2 DEF LogoutAnswers
  <2> QED
    BY <1>2, <2>1 DEF SpinnerInv, SessionInv
<1>8. ~late' => cookie' = ""
  <2>1. f.at \in {"ok", "denied", "lost"} /\ f.kind = "logout"
    BY <1>1 DEF LogoutAnswers, Flights
  <2>2. f.cookie = "" /\ ~f.old => cookie = ""
    BY <2>1 DEF SessionInv, FlightInv
  <2>3. cookie' = "" \/ f.at = "lost" \/ (f.at = "denied" /\ f.cookie = "" /\ cookie' = cookie)
    BY <2>1 DEF LogoutAnswers, BuildClearAuthCookie
  <2> QED
    BY <1>2, <2>2, <2>3
<1>9. PageInv'
  BY <1>1, <1>2, <1>8, AccountAssumption DEF PageInv, SessionTypeOK
<1> QED
  BY <1>5, <1>6, <1>7, <1>9 DEF SessionInv

\* A login that succeeds begins a session; what nothing cancels is of an
\* earlier one from then on.
LEMMA LoginAnswersStep ==
  ASSUME SessionInv, NEW f \in flights, LoginAnswers(f)
  PROVE  SessionInv'
<1>1. f \in Flights /\ SessionTypeOK /\ flights \ {f} \in SUBSET Flights
  BY DEF SessionInv, SessionTypeOK
<1>2. UNCHANGED <<accounts, path, unsynced, deeds, isLoading, user>> /\ (late' <=> late \/ path # LoginPage)
      /\ f.kind = "login"
  BY DEF LoginAnswers
<1>3. CASE f.at # "ok"
  <2>1. flights' = flights \ {f} /\ cookie' = cookie
    BY <1>3 DEF LoginAnswers
  <2>2. \A h \in flights : Evolves(h, h)
    BY DEF Evolves
  <2>3. flights' \in SUBSET Flights /\ deeds' \in Nat
    BY <1>1, <1>2, <2>1 DEF SessionTypeOK
  <2>4. /\ SessionTypeOK' /\ FlightInv'
        /\ path' = LoginPage /\ ~unsynced' =>
             \A h \in flights' : h.kind \in {"sync", "refresh"} => h.cancelled \/ h.old
    BY <1>2, <2>1, <2>2, <2>3, Carried
  <2>5. LoginInv' /\ PageInv' /\ SpinnerInv'
    BY <1>2, <2>1, <2>4 DEF SessionInv, LoginInv, PageInv, SpinnerInv
  <2> QED
    BY <2>4, <2>5 DEF SessionInv
<1>4. CASE f.at = "ok"
  <2> PICK kinds : kinds = IF path = LoginPage THEN Unowned ELSE Unowned \cup {"sync"}
    OBVIOUS
  <2>1. flights' = Aged(flights \ {f}, kinds) /\ cookie' = f.who
    BY <1>4 DEF LoginAnswers
  <2>2. /\ flights' \in SUBSET Flights
        /\ \A g \in flights' : \E h \in flights : AgedOf(h, g, kinds)
        /\ \A h \in flights \ {f} : \E g \in flights' : AgedOf(h, g, kinds)
    BY <1>1, <2>1, AgedFacts
  <2>3. SessionTypeOK'
    BY <1>1, <1>2, <2>1, <2>2 DEF SessionTypeOK, Flights
  <2>4. ASSUME NEW g \in flights'
        PROVE  /\ g.kind \in {"refresh", "logout"} => g.old
               /\ path # LoginPage /\ g.kind = "sync" => g.old
               /\ g.kind = "refresh" => ~g.cancelled
               /\ path = LoginPage /\ ~unsynced /\ g.kind \in {"sync", "refresh"} => g.cancelled \/ g.old
    <3> PICK h \in flights : AgedOf(h, g, kinds)
      BY <2>2
    <3>1. /\ h.kind = "refresh" => ~h.cancelled
          /\ path = LoginPage /\ ~unsynced /\ h.kind \in {"sync", "refresh"} => h.cancelled \/ h.old
      BY DEF SessionInv, FlightInv, LoginInv
    <3> QED
      BY <3>1 DEF AgedOf, Alike, Unowned
  <2>5. FlightInv'
    BY <1>2, <2>4 DEF FlightInv, Counts
  <2>6. LoginInv'
    BY <1>2, <2>4 DEF SessionInv, LoginInv
  <2>7. PageInv'
    BY <1>2 DEF PageInv
  <2>8. SpinnerInv'
    BY <1>2, <2>2 DEF SessionInv, SpinnerInv, AgedOf, Alike
  <2> QED
    BY <2>3, <2>5, <2>6, <2>7, <2>8 DEF SessionInv
<1> QED
  BY <1>3, <1>4

\* The router moves, or an account is disabled.
LEMMA RouterStep ==
  ASSUME SessionInv,
         (\E u \in Users : DisableUser(u)) \/ (\E p \in {LoginPage, Dashboard, Page} : FollowsLink(p) \/ ArrivesAt(p))
  PROVE  SessionInv'
<1>1. SessionTypeOK
  BY DEF SessionInv
<1>2. /\ UNCHANGED <<flights, user, isLoading, late>> /\ accounts' \subseteq accounts
      /\ cookie' \in {cookie, ""} /\ deeds' \in Nat /\ (unsynced => unsynced')
      /\ ~unsynced' => path' = path /\ ~unsynced
  <2>1. deeds \in Nat
    BY <1>1 DEF SessionTypeOK
  <2>2. deeds' = deeds \/ deeds' = deeds + 1
    BY DEF DisableUser, FollowsLink, ArrivesAt, Deed
  <2>3. UNCHANGED <<flights, user, isLoading, late>> /\ accounts' \subseteq accounts /\ cookie' \in {cookie, ""}
    BY DEF DisableUser, FollowsLink, ArrivesAt
  <2>4. (unsynced => unsynced') /\ (~unsynced' => path' = path /\ ~unsynced)
    <3>1. CASE \E u \in Users : DisableUser(u)
      <4>1. unsynced' = unsynced /\ path' = path
        BY <3>1 DEF DisableUser
      <4> QED
        BY <4>1
    <3>2. CASE \E p \in {LoginPage, Dashboard, Page} : FollowsLink(p)
      <4>1. unsynced' = unsynced /\ path' = path
        BY <3>2 DEF FollowsLink
      <4> QED
        BY <4>1
    <3>3. CASE \E p \in {LoginPage, Dashboard, Page} : ArrivesAt(p)
      <4>1. unsynced' = (unsynced \/ path' # path)
        BY <3>3 DEF ArrivesAt
      <4> QED
        BY <4>1
    <3> QED
      BY <3>1, <3>2, <3>3
  <2>5. deeds' \in Nat
    BY <2>1, <2>2
  <2> QED
    BY <2>3, <2>4, <2>5
<1>3. \A h \in flights : Evolves(h, h)
  BY DEF Evolves
<1>4. flights' \in SUBSET Flights
  BY <1>1, <1>2 DEF SessionTypeOK
<1>5. /\ SessionTypeOK' /\ FlightInv'
      /\ path' = LoginPage /\ ~unsynced' =>
           \A h \in flights' : h.kind \in {"sync", "refresh"} => h.cancelled \/ h.old
  BY <1>2, <1>3, <1>4, Carried
<1>6. cookie' \in accounts' => cookie' = cookie /\ cookie \in accounts
  BY <1>1, <1>2, AccountAssumption DEF SessionTypeOK
<1>7. LoginInv' /\ PageInv' /\ SpinnerInv'
  BY <1>2, <1>5, <1>6 DEF SessionInv, LoginInv, PageInv, SpinnerInv
<1> QED
  BY <1>5, <1>7 DEF SessionInv

LEMMA SessionStep == SessionInv /\ [SessionNext]_sessionVars => SessionInv'
<1> SUFFICES ASSUME SessionInv, [SessionNext]_sessionVars PROVE SessionInv'
  OBVIOUS
<1>1. ASSUME NEW f \in flights, ServerAnswers(f) \/ RequestIsLost(f) \/ AsksForMenus(f) PROVE SessionInv'
  BY <1>1, FlightStep
<1>2. ASSUME NEW f \in flights, SessionAnswers(f) PROVE SessionInv'
  BY <1>2, SessionAnswersStep
<1>3. ASSUME NEW f \in flights, LogoutAnswers(f) PROVE SessionInv'
  BY <1>3, LogoutAnswersStep
<1>4. ASSUME NEW f \in flights, LoginAnswers(f) PROVE SessionInv'
  BY <1>4, LoginAnswersStep
<1>5. CASE UNCHANGED sessionVars
  BY <1>5 DEF sessionVars, SessionInv, SessionTypeOK, FlightInv, LoginInv, PageInv, SpinnerInv, Truthful
<1> QED
  BY <1>1, <1>2, <1>3, <1>4, <1>5, SyncAuthStep, SendStep, RouterStep DEF SessionNext

LEMMA SessionStarts == SessionInit => SessionInv
<1> SUFFICES ASSUME SessionInit PROVE SessionInv
  OBVIOUS
<1>1. SessionTypeOK
  BY DEF SessionInit, SessionTypeOK
<1>2. flights = {} /\ unsynced
  BY DEF SessionInit
<1> QED
  BY <1>1, <1>2 DEF SessionInv, FlightInv, LoginInv, PageInv, SpinnerInv

\* For any accounts: when nothing is under way the shell shows the user of the
\* cookie, but for the named late answers, and no spinner.
THEOREM SessionTheorem == SessionSpec => []SessionIsShown
<1>1. SessionInv => SessionIsShown
  BY DEF SessionInv, LoginInv, PageInv, SpinnerInv, SessionIsShown, SessionQuiet
<1>2. SessionSpec => []SessionInv
  BY SessionStarts, SessionStep, PTL DEF SessionSpec
<1> QED
  BY <1>1, <1>2, PTL

-----------------------------------------------------------------------------
(* Filters in the address.                                                   *)

\* The filters that the address which "copy this view" hands out leads to.
HandedOut(f) == Resolve(GetCurrentHref(f))

\* One page's filters: what an address is resolved to is what its own address
\* is resolved to.
LEMMA PresentResolved ==
  ASSUME known \subseteq KnownIds, NEW a, NEW ids, NEW searches, NEW choices,
         ids \cap searches = {}, ids \cap choices = {}, searches \cap choices = {}
  PROVE  Resolved(Present(Resolved(a, ids, searches, choices), ids, searches, choices), ids, searches, choices)
            = Resolved(a, ids, searches, choices)
<1> PICK f : f = Resolved(a, ids, searches, choices)
  OBVIOUS
<1> PICK p : p = Present(f, ids, searches, choices)
  OBVIOUS
<1>1. f = [k \in ids \cup searches \cup choices |-> f[k]]
  BY DEF Resolved
<1>2. \A k \in ids : f[k] = "" \/ f[k] \in known
  BY DEF Resolved, ResolveScopedProjectId
<1>3. \A k \in searches : NormalizeGovernanceSearch(f[k]) = f[k]
  BY DEF Resolved, NormalizeGovernanceSearch
<1>4. \A k \in choices : f[k] \in {"other", Default(k)}
  BY DEF Resolved, ResolveChoice
<1>5. \A k \in ids : NormalizeGovernanceSearch(f[k]) = f[k]
  BY <1>2, IdAssumption DEF NormalizeGovernanceSearch
<1>6. \A k \in ids \cup searches : Get(p, k) = f[k]
  BY <1>3, <1>5 DEF Present, Get
<1>7. \A k \in choices : ResolveChoice(k, Get(p, k)) = f[k]
  <2> SUFFICES ASSUME NEW k \in choices PROVE ResolveChoice(k, Get(p, k)) = f[k]
    OBVIOUS
  <2>1. CASE f[k] = Default(k)
    <3>1. Get(p, k) = ""
      BY <2>1 DEF Present, Get
    <3> QED
      BY <2>1, <3>1 DEF ResolveChoice
  <2>2. CASE f[k] # Default(k)
    <3>1. Get(p, k) = f[k] /\ f[k] = "other"
      BY <1>4, <2>2 DEF Present, Get
    <3> QED
      BY <3>1 DEF ResolveChoice
  <2> QED
    BY <2>1, <2>2
<1>8. \A k \in ids : ResolveScopedProjectId(Get(p, k)) = f[k]
  BY <1>2, <1>6 DEF ResolveScopedProjectId
<1>9. \A k \in searches : NormalizeGovernanceSearch(Get(p, k)) = f[k]
  BY <1>3, <1>6
<1>10. Resolved(p, ids, searches, choices) = [k \in ids \cup searches \cup choices |-> f[k]]
  BY <1>7, <1>8, <1>9 DEF Resolved
<1> QED
  BY <1>1, <1>10

LEMMA SecurityResolved ==
  ASSUME known \subseteq KnownIds, NEW a
  PROVE  ResolveSecurityFilterState(BuildSecurityHref(ResolveSecurityFilterState(a))) = ResolveSecurityFilterState(a)
<1> DEFINE FilterKeys == {"focus", "status", "role", "search"}
<1> PICK f : f = ResolveSecurityFilterState(a)
  OBVIOUS
<1> PICK p : p = BuildSecurityHref(f)
  OBVIOUS
<1>1. f = [k \in FilterKeys |-> f[k]]
  BY DEF ResolveSecurityFilterState
<1>2. f["role"] \in known \cup {"all"} /\ f["role"] # ""
  BY IdAssumption DEF ResolveSecurityFilterState, ResolveSecurityRoleFilter
<1>3. NormalizeGovernanceSearch(f["search"]) = f["search"]
  BY DEF ResolveSecurityFilterState, Resolved, NormalizeGovernanceSearch
<1>4. \A k \in {"focus", "status"} : f[k] \in {"other", "all"}
  BY DEF ResolveSecurityFilterState, Resolved, ResolveChoice, Default
<1>5. Get(p, "search") = f["search"]
  BY <1>3 DEF BuildSecurityHref, Present, Get
<1>6. ResolveSecurityRoleFilter(Get(p, "role")) = f["role"]
  <2>1. CASE f["role"] = "all"
    <3>1. Get(p, "role") = ""
      BY <2>1 DEF BuildSecurityHref, Present, Get, Default
    <3> QED
      BY <2>1, <3>1, IdAssumption DEF ResolveSecurityRoleFilter
  <2>2. CASE f["role"] # "all"
    <3>1. Get(p, "role") = f["role"]
      BY <2>2 DEF BuildSecurityHref, Present, Get, Default
    <3> QED
      BY <1>2, <2>2, <3>1 DEF ResolveSecurityRoleFilter
  <2> QED
    BY <2>1, <2>2
<1>7. \A k \in {"focus", "status"} : ResolveChoice(k, Get(p, k)) = f[k]
  <2> SUFFICES ASSUME NEW k \in {"focus", "status"} PROVE ResolveChoice(k, Get(p, k)) = f[k]
    OBVIOUS
  <2>1. CASE f[k] = "all"
    <3>1. Get(p, k) = ""
      BY <2>1 DEF BuildSecurityHref, Present, Get, Default
    <3> QED
      BY <2>1, <3>1 DEF ResolveChoice, Default
  <2>2. CASE f[k] # "all"
    <3>1. Get(p, k) = f[k] /\ f[k] = "other"
      BY <1>4, <2>2 DEF BuildSecurityHref, Present, Get, Default
    <3> QED
      BY <3>1 DEF ResolveChoice
  <2> QED
    BY <2>1, <2>2
<1>8. \A k \in FilterKeys : ResolveSecurityFilterState(p)[k] = f[k]
  BY <1>3, <1>5, <1>6, <1>7 DEF ResolveSecurityFilterState, Resolved
<1>9. ResolveSecurityFilterState(p) = [k \in FilterKeys |-> ResolveSecurityFilterState(p)[k]]
  BY DEF ResolveSecurityFilterState
<1> QED
  BY <1>1, <1>8, <1>9

LEMMA ShownResolved ==
  ASSUME known \subseteq KnownIds, mounted \in Views, NEW a
  PROVE  HandedOut(Resolve(a)) = Resolve(a)
<1>1. CASE mounted = "services"
  <2>1. Resolved(Present(Resolved(a, {"projectId"}, {"search"}, {"category", "environment", "status", "sort"}),
                         {"projectId"}, {"search"}, {"category", "environment", "status", "sort"}),
                 {"projectId"}, {"search"}, {"category", "environment", "status", "sort"})
           = Resolved(a, {"projectId"}, {"search"}, {"category", "environment", "status", "sort"})
    BY PresentResolved
  <2> QED
    BY <1>1, <2>1 DEF HandedOut, Resolve, GetCurrentHref, ResolveServicesFilterState, BuildServicesHref
<1>2. CASE mounted = "environments"
  <2>1. Resolved(Present(Resolved(a, {}, {"search"}, {"environment", "status", "sort"}),
                         {}, {"search"}, {"environment", "status", "sort"}),
                 {}, {"search"}, {"environment", "status", "sort"})
           = Resolved(a, {}, {"search"}, {"environment", "status", "sort"})
    BY PresentResolved
  <2> QED
    BY <1>2, <2>1 DEF HandedOut, Resolve, GetCurrentHref, ResolveEnvironmentsFilterState, BuildEnvironmentsHref
<1>3. CASE mounted = "integrations"
  <2>1. Resolved(Present(Resolved(a, {"projectId"}, {"search", "inventorySearch"}, IntegrationChoices),
                         {"projectId"}, {"search", "inventorySearch"}, IntegrationChoices),
                 {"projectId"}, {"search", "inventorySearch"}, IntegrationChoices)
           = Resolved(a, {"projectId"}, {"search", "inventorySearch"}, IntegrationChoices)
    BY PresentResolved DEF IntegrationChoices
  <2> QED
    BY <1>3, <2>1 DEF HandedOut, Resolve, GetCurrentHref, ResolveIntegrationsFilterState, BuildIntegrationsHref
<1>4. CASE mounted = "security"
  BY <1>4, SecurityResolved DEF HandedOut, Resolve, GetCurrentHref
<1> QED
  BY <1>1, <1>2, <1>3, <1>4 DEF Views

-----------------------------------------------------------------------------
(* The hook's refs and the browser.                                          *)

\* The refs and the browser's history are what they are said to be.
HookOK(h) ==
    /\ h \in [entries : {h.entries}, at : {h.at}, committed : {h.committed}, skip : BOOLEAN]
    /\ \E S : h.entries \in Seq(S)
    /\ h.at \in 1..Len(h.entries)
    /\ h.committed = {} \/ \E c : h.committed = {c}

\* The address leads where the last address that was written leads.
Matched(h) == \A c \in h.committed : Resolve(h.entries[h.at]) = Resolve(c.href)

\* What the effect leaves, whatever was there before.
Effected(h, f, g) ==
    /\ HookOK(g) /\ g.committed # {} /\ ~g.skip
    /\ \A c \in g.committed : c.href = GetCurrentHref(f)
    /\ h.skip => g.entries = h.entries /\ g.at = h.at
    /\ ~h.skip /\ Matched(h) => Matched(g)
    /\ g.entries # h.entries => Matched(g)
    /\ Resolve(h.entries[h.at]) = HandedOut(f) => Matched(g)

\* The effect has written the address.
Written(h, a, g) ==
    HookOK(g) /\ g.committed = h.committed /\ g.skip = h.skip /\ g.entries[g.at] = a

LEMMA ReplaceFacts ==
  ASSUME NEW h, HookOK(h), NEW a, NEW g, g = ReplaceState(h, a)
  PROVE  Written(h, a, g)
<1> PICK S : h.entries \in Seq(S)
  BY DEF HookOK
<1> PICK es : es = [h.entries EXCEPT ![h.at] = a]
  OBVIOUS
<1>1. h.at \in 1..Len(h.entries) /\ Len(h.entries) \in Nat
  BY DEF HookOK
<1>2. es \in Seq(S \cup {a}) /\ Len(es) = Len(h.entries) /\ es[h.at] = a
  BY <1>1
<1>3. /\ g \in [entries : {es}, at : {h.at}, committed : {h.committed}, skip : BOOLEAN]
      /\ g.skip = h.skip
  BY DEF ReplaceState, HookOK
<1>4. g.entries = es /\ g.at = h.at /\ g.committed = h.committed
  BY <1>3
<1> QED
  BY <1>1, <1>2, <1>3, <1>4 DEF HookOK, Written

LEMMA PushFacts ==
  ASSUME NEW h, HookOK(h), NEW a, NEW g, g = PushState(h, a)
  PROVE  Written(h, a, g)
<1> PICK S : h.entries \in Seq(S)
  BY DEF HookOK
<1>1. h.at \in 1..Len(h.entries) /\ Len(h.entries) \in Nat /\ h.at \in Nat
  BY DEF HookOK
<1> PICK front : front = SubSeq(h.entries, 1, h.at)
  OBVIOUS
<1> PICK es : es = Append(front, a)
  OBVIOUS
<1> PICK n \in Nat : n = h.at + 1
  BY <1>1
<1>2. front \in Seq(S \cup {a}) /\ Len(front) = h.at
  BY <1>1
<1>3. es \in Seq(S \cup {a}) /\ Len(es) = n /\ es[n] = a
  BY <1>1, <1>2
<1>4. /\ g \in [entries : {es}, at : {n}, committed : {h.committed}, skip : BOOLEAN]
      /\ g.skip = h.skip
  BY DEF PushState, HookOK
<1>5. g.entries = es /\ g.at = n /\ g.committed = h.committed
  BY <1>4
<1>6. HookOK(g)
  <2>1. g \in [entries : {g.entries}, at : {g.at}, committed : {g.committed}, skip : BOOLEAN]
    BY <1>4, <1>5
  <2>2. g.entries \in Seq(S \cup {a})
    BY <1>3, <1>5
  <2>3. g.at \in 1..Len(g.entries)
    BY <1>1, <1>3, <1>5
  <2> QED
    BY <1>5, <2>1, <2>2, <2>3 DEF HookOK
<1> QED
  BY <1>3, <1>4, <1>5, <1>6 DEF Written

LEMMA EffectFacts ==
  ASSUME NEW h, HookOK(h), NEW f, NEW g, g = Effect(h, f)
  PROVE  Effected(h, f, g)
<1> PICK href : href = GetCurrentHref(f)
  OBVIOUS
<1> PICK new : new = [href |-> href, state |-> f]
  OBVIOUS
<1>1. Committed(f) = {new} /\ new.href = href
  BY DEF Committed
<1> PICK set : set = [h EXCEPT !.committed = {new}]
  OBVIOUS
<1>2. /\ set \in [entries : {h.entries}, at : {h.at}, committed : {{new}}, skip : BOOLEAN]
      /\ set.entries = h.entries /\ set.at = h.at /\ set.committed = {new} /\ set.skip = h.skip
  BY DEF HookOK
<1>3. HookOK(set)
  BY <1>2 DEF HookOK
<1>4. CASE h.skip
  <2>1. g = [set EXCEPT !.skip = FALSE]
    BY <1>1, <1>4 DEF Effect
  <2>2. /\ g \in [entries : {h.entries}, at : {h.at}, committed : {{new}}, skip : BOOLEAN]
        /\ ~g.skip /\ g.entries = h.entries /\ g.at = h.at /\ g.committed = {new}
    BY <1>2, <2>1
  <2>3. HookOK(g)
    BY <1>3, <2>2 DEF HookOK
  <2>4. Resolve(h.entries[h.at]) = HandedOut(f) => Matched(g)
    BY <1>1, <2>2 DEF Matched, HandedOut
  <2> QED
    BY <1>1, <1>4, <2>2, <2>3, <2>4 DEF Effected
<1>5. ASSUME ~h.skip, HookOK(g), g.committed = {new}, g.skip = h.skip, g.entries[g.at] = href
      PROVE  Effected(h, f, g)
  <2>1. Matched(g)
    BY <1>1, <1>5 DEF Matched
  <2> QED
    BY <1>1, <1>5, <2>1 DEF Effected
<1>6. ASSUME ~h.skip, g = ReplaceState(set, href)
      PROVE  Effected(h, f, g)
  <2>1. HookOK(g) /\ g.committed = {new} /\ g.skip = h.skip /\ g.entries[g.at] = href
    <3>1. Written(set, href, g)
      BY <1>3, <1>6, ReplaceFacts, Zenon
    <3> QED
      BY <1>2, <3>1 DEF Written
  <2> QED
    BY <1>5, <1>6, <2>1
<1>7. ASSUME ~h.skip, g = PushState(set, href)
      PROVE  Effected(h, f, g)
  <2>1. HookOK(g) /\ g.committed = {new} /\ g.skip = h.skip /\ g.entries[g.at] = href
    <3>1. Written(set, href, g)
      BY <1>3, <1>7, PushFacts, Zenon
    <3> QED
      BY <1>2, <3>1 DEF Written
  <2> QED
    BY <1>5, <1>7, <2>1
<1>8. CASE ~h.skip /\ h.committed = {}
  <2>1. g = ReplaceState(set, href)
    BY <1>1, <1>8 DEF Effect
  <2> QED
    BY <1>6, <1>8, <2>1
<1>9. CASE ~h.skip /\ h.committed # {}
  <2> PICK last : h.committed = {last}
    BY <1>9 DEF HookOK
  <2>1. (CHOOSE c \in h.committed : TRUE) = last
    OBVIOUS
  <2>2. CASE href = last.href
    <3>1. g = h
      BY <1>1, <1>9, <2>1, <2>2 DEF Effect
    <3>2. Resolve(h.entries[h.at]) = HandedOut(f) => Matched(g)
      BY <2>2, <3>1 DEF Matched, HandedOut
    <3> QED
      BY <1>9, <2>2, <3>1, <3>2 DEF Effected
  <2>3. CASE href # last.href /\ href = h.entries[h.at]
    <3>1. g = set
      BY <1>1, <1>9, <2>1, <2>3 DEF Effect
    <3> QED
      BY <1>2, <1>3, <1>5, <1>9, <2>3, <3>1
  <2>4. CASE href # last.href /\ href # h.entries[h.at]
    <3>1. g = IF ShouldPushHistory(last.state, f) THEN PushState(set, href) ELSE ReplaceState(set, href)
      BY <1>1, <1>9, <2>1, <2>4 DEF Effect
    <3> QED
      BY <1>6, <1>7, <1>9, <3>1
  <2> QED
    BY <2>2, <2>3, <2>4
<1> QED
  BY <1>4, <1>8, <1>9

\* The flag of a move is set only where the address leads to what is shown;
\* what was written last is what is shown, unless an effect is due, and the
\* address leads there too, unless a change was absorbed.
UrlInv ==
    /\ mounted \in Views /\ known \subseteq KnownIds
    /\ due \in BOOLEAN /\ absorbed \in BOOLEAN
    /\ HookOK(hist)
    /\ hist.committed = {} => due /\ ~hist.skip
    /\ hist.skip => Resolve(Address) = HandedOut(filters)
    /\ ~hist.skip /\ ~absorbed => Matched(hist)
    /\ ~hist.skip /\ ~due => \A c \in hist.committed : c.href = GetCurrentHref(filters)

LEMMA UrlStarts == UrlInit => UrlInv
<1> SUFFICES ASSUME UrlInit PROVE UrlInv
  OBVIOUS
<1>1. mounted \in Views /\ known \subseteq KnownIds /\ due = TRUE /\ absorbed = FALSE
  BY DEF UrlInit
<1> PICK a : hist = [entries |-> <<a>>, at |-> 1, committed |-> {}, skip |-> FALSE]
  BY DEF UrlInit
<1> PICK es : es = <<a>>
  OBVIOUS
<1>2. es \in Seq({a}) /\ Len(es) = 1
  OBVIOUS
<1>3. /\ hist \in [entries : {es}, at : {1}, committed : {{}}, skip : BOOLEAN]
      /\ hist.entries = es /\ hist.at = 1 /\ hist.committed = {} /\ ~hist.skip
  OBVIOUS
<1>4. HookOK(hist)
  <2>1. hist \in [entries : {hist.entries}, at : {hist.at}, committed : {hist.committed}, skip : BOOLEAN]
    BY <1>3
  <2>2. hist.entries \in Seq({a}) /\ hist.at \in 1..Len(hist.entries)
    BY <1>2, <1>3
  <2> QED
    BY <1>3, <2>1, <2>2 DEF HookOK
<1> QED
  BY <1>1, <1>3, <1>4 DEF UrlInv, Matched

\* The page renders with the filters f.
LEMMA RenderedFacts ==
  ASSUME UrlInv, NEW h, HookOK(h), NEW f,
         hist' = Effect(IF due THEN Effect(h, filters) ELSE h, f)
  PROVE  /\ HookOK(hist)' /\ hist'.committed # {} /\ ~hist'.skip
         /\ \A c \in hist'.committed : c.href = GetCurrentHref(f)
         /\ ~h.skip /\ Matched(h) => Matched(hist')
         /\ ~h.skip /\ hist'.entries # h.entries => Matched(hist')
         /\ h.skip /\ Resolve(h.entries[h.at]) = HandedOut(f) => Matched(hist')
         /\ due /\ h.skip /\ Resolve(h.entries[h.at]) = HandedOut(filters) => Matched(hist')
         /\ ~due /\ h.skip => hist'.entries = h.entries
<1> PICK g : g = hist'
  OBVIOUS
<1>1. CASE ~due
  <2>1. Effected(h, f, g)
    BY <1>1, EffectFacts
  <2> QED
    BY <1>1, <2>1 DEF Effected
<1>2. CASE due
  <2> PICK e : e = Effect(h, filters)
    OBVIOUS
  <2>1. Effected(h, filters, e)
    BY EffectFacts
  <2>2. HookOK(e)
    BY <2>1 DEF Effected
  <2>3. Effected(e, f, g)
    BY <1>2, <2>2, EffectFacts
  <2> QED
    BY <1>2, <2>1, <2>3 DEF Effected
<1> QED
  BY <1>1, <1>2

\* What an address is resolved to depends on the page and its ids alone.
LEMMA SamePage ==
  ASSUME UNCHANGED <<mounted, known>>
  PROVE  /\ \A a : Resolve(a)' = Resolve(a)
         /\ \A f : GetCurrentHref(f)' = GetCurrentHref(f)
         /\ \A h : Matched(h)' = Matched(h)
         /\ \A f : HandedOut(f)' = HandedOut(f)
<1>1. \A a : Resolve(a)' = Resolve(a)
  <2> SUFFICES ASSUME NEW a PROVE Resolve(a)' = Resolve(a)
    OBVIOUS
  <2>1. ResolveSecurityFilterState(a)' = ResolveSecurityFilterState(a)
    BY DEF ResolveSecurityFilterState, ResolveSecurityRoleFilter, Resolved, ResolveScopedProjectId
  <2>2. ResolveServicesFilterState(a)' = ResolveServicesFilterState(a)
    BY DEF ResolveServicesFilterState, Resolved, ResolveScopedProjectId
  <2>3. ResolveEnvironmentsFilterState(a)' = ResolveEnvironmentsFilterState(a)
    BY DEF ResolveEnvironmentsFilterState, Resolved, ResolveScopedProjectId
  <2>4. ResolveIntegrationsFilterState(a)' = ResolveIntegrationsFilterState(a)
    BY DEF ResolveIntegrationsFilterState, Resolved, ResolveScopedProjectId
  <2> QED
    BY <2>1, <2>2, <2>3, <2>4 DEF Resolve
<1>2. \A f : GetCurrentHref(f)' = GetCurrentHref(f)
  BY DEF GetCurrentHref
<1>3. \A h : Matched(h)' = Matched(h)
  BY <1>1 DEF Matched
<1>4. \A f : HandedOut(f)' = HandedOut(f)
  BY <1>1, <1>2 DEF HandedOut
<1> QED
  BY <1>1, <1>2, <1>3, <1>4

\* A change of a filter, and a click that clears a message.
LEMMA ChangeStep ==
  ASSUME UrlInv, NEW f, NEW clears, Change(f, clears)
  PROVE  UrlInv'
<1>1. Rendered(hist, f, clears) /\ UNCHANGED <<mounted, known>>
      /\ absorbed' = (\/ hist.skip /\ ~due
                      \/ absorbed /\ hist'.entries = hist.entries)
  BY DEF Change
<1>2. absorbed' \in BOOLEAN /\ (~absorbed' => ~(hist.skip /\ ~due))
      /\ (~absorbed' => ~absorbed \/ hist'.entries # hist.entries)
  BY <1>1
<1>3. filters' = f
  BY <1>1 DEF Rendered
<1>4. CASE hist' = hist /\ due' = due /\ f = filters
  <2>1. HandedOut(filters)' = HandedOut(filters) /\ GetCurrentHref(filters)' = GetCurrentHref(filters)
    BY <1>1, <1>3, <1>4, SamePage
  <2>2. (Address' = Address) /\ Resolve(Address)' = Resolve(Address) /\ Matched(hist)' = Matched(hist)
    BY <1>1, <1>4, SamePage DEF Address
  <2>3. HookOK(hist)' /\ hist'.skip = hist.skip /\ hist'.committed = hist.committed
    BY <1>4 DEF UrlInv, HookOK
  <2>4. ~absorbed' => ~absorbed
    BY <1>2, <1>4
  <2> QED
    BY <1>1, <1>2, <1>4, <2>1, <2>2, <2>3, <2>4 DEF UrlInv
<1>5. CASE hist' = Effect(IF due THEN Effect(hist, filters) ELSE hist, f) /\ due' = FALSE
  <2>1. /\ HookOK(hist)' /\ hist'.committed # {} /\ ~hist'.skip
        /\ \A c \in hist'.committed : c.href = GetCurrentHref(f)
        /\ ~hist.skip /\ Matched(hist) => Matched(hist')
        /\ ~hist.skip /\ hist'.entries # hist.entries => Matched(hist')
        /\ due /\ hist.skip /\ Resolve(hist.entries[hist.at]) = HandedOut(filters) => Matched(hist')
    BY <1>5, RenderedFacts DEF UrlInv
  <2>2. ~absorbed' => Matched(hist')
    BY <1>2, <2>1 DEF UrlInv, Address
  <2>3. Matched(hist)' = Matched(hist')
    BY <1>1, SamePage
  <2>4. \A c \in hist'.committed : c.href = GetCurrentHref(filters)'
    BY <1>1, <1>3, <2>1, SamePage
  <2> QED
    BY <1>1, <1>2, <1>5, <2>1, <2>2, <2>3, <2>4 DEF UrlInv
<1>6. CASE f # filters \/ (feedback /\ clears)
  <2>1. hist' = Effect(IF due THEN Effect(hist, filters) ELSE hist, f) /\ due' = FALSE
    BY <1>1, <1>6 DEF Rendered
  <2> QED
    BY <1>5, <2>1
<1>7. CASE ~(f # filters \/ (feedback /\ clears))
  <2>1. hist' = hist /\ due' = due
    BY <1>1, <1>7 DEF Rendered
  <2> QED
    BY <1>4, <1>7, <2>1
<1> QED
  BY <1>6, <1>7

\* Copying the address clears a message.
LEMMA CopyStep == UrlInv /\ HandleCopyCurrentView => UrlInv'
<1> SUFFICES ASSUME UrlInv, HandleCopyCurrentView PROVE UrlInv'
  OBVIOUS
<1>1. Rendered(hist, filters, TRUE) /\ UNCHANGED <<mounted, known, absorbed>>
  BY DEF HandleCopyCurrentView
<1>2. filters' = filters
  BY <1>1 DEF Rendered
<1>3. /\ \A a : Resolve(a)' = Resolve(a)
      /\ HandedOut(filters)' = HandedOut(filters) /\ GetCurrentHref(filters)' = GetCurrentHref(filters)
  BY <1>1, <1>2, SamePage
<1>4. CASE feedback
  <2>1. hist' = Effect(IF due THEN Effect(hist, filters) ELSE hist, filters) /\ due' = FALSE
    BY <1>1, <1>4 DEF Rendered
  <2>2. /\ HookOK(hist)' /\ hist'.committed # {} /\ ~hist'.skip
        /\ \A c \in hist'.committed : c.href = GetCurrentHref(filters)
        /\ ~hist.skip /\ Matched(hist) => Matched(hist')
        /\ hist.skip /\ Resolve(hist.entries[hist.at]) = HandedOut(filters) => Matched(hist')
    BY <2>1, RenderedFacts DEF UrlInv
  <2>3. Matched(hist)' = Matched(hist')
    BY <1>1, SamePage
  <2>4. ~absorbed' => Matched(hist')
    BY <1>1, <2>2 DEF UrlInv, Address
  <2> QED
    BY <1>1, <1>3, <2>1, <2>2, <2>3, <2>4 DEF UrlInv
<1>5. CASE ~feedback
  <2>1. hist' = hist /\ due' = due
    BY <1>1, <1>5 DEF Rendered
  <2>2. Matched(hist)' = Matched(hist) /\ HookOK(hist)' = HookOK(hist) /\ Address' = Address
    BY <1>1, <2>1, SamePage DEF HookOK, Address
  <2> QED
    BY <1>1, <1>3, <2>1, <2>2 DEF UrlInv
<1> QED
  BY <1>4, <1>5

\* The browser moves to the entry i, whose address f is resolved from.
LEMMA PopStep ==
  ASSUME UrlInv, NEW i, NEW f, f = Resolve(hist.entries[i]), HandlePopState(i, f)
  PROVE  UrlInv' /\ (~due => hist'.entries = hist.entries)
<1> PICK h : h = [hist EXCEPT !.at = i]
  OBVIOUS
<1>1. /\ h \in [entries : {hist.entries}, at : {i}, committed : {hist.committed}, skip : BOOLEAN]
      /\ h.skip = hist.skip
  BY DEF UrlInv, HookOK
<1>2. h.entries = hist.entries /\ h.at = i /\ h.committed = hist.committed
  BY <1>1
<1>3. i \in 1..Len(hist.entries)
  <2> PICK S : hist.entries \in Seq(S)
    BY DEF UrlInv, HookOK
  <2> QED
    BY DEF HandlePopState
<1>4. HookOK(h)
  BY <1>1, <1>2, <1>3 DEF UrlInv, HookOK
<1>5. UNCHANGED <<mounted, known>>
  BY DEF HandlePopState
<1>6. CASE hist.committed = {}
  <2>1. hist' = h /\ UNCHANGED <<filters, feedback, due, absorbed>>
    BY <1>6 DEF HandlePopState
  <2>2. HookOK(hist)' = HookOK(h) /\ Matched(hist)'
    BY <1>2, <1>6, <2>1 DEF HookOK, Matched
  <2> QED
    BY <1>1, <1>2, <1>4, <1>5, <1>6, <2>1, <2>2 DEF UrlInv
<1>7. CASE hist.committed # {}
  <2> PICK m : m = Marked(h)
    OBVIOUS
  <2>1. /\ m \in [entries : {h.entries}, at : {h.at}, committed : {h.committed}, skip : BOOLEAN]
        /\ m.skip
    BY <1>4 DEF Marked, HookOK
  <2>2. m.entries = hist.entries /\ m.at = i /\ m.committed = hist.committed
    BY <1>2, <2>1
  <2>3. HookOK(m)
    BY <1>2, <1>4, <2>1, <2>2 DEF HookOK
  <2>4. Rendered(m, f, TRUE) /\ absorbed' = FALSE
    BY <1>7 DEF HandlePopState
  <2>5. filters' = f
    BY <2>4 DEF Rendered
  <2>6. HandedOut(f) = f
    BY ShownResolved DEF UrlInv
  <2>7. CASE f # filters \/ feedback
    <3>1. hist' = Effect(IF due THEN Effect(m, filters) ELSE m, f) /\ due' = FALSE
      BY <2>4, <2>7 DEF Rendered
    <3>2. /\ HookOK(hist)' /\ hist'.committed # {} /\ ~hist'.skip
          /\ \A c \in hist'.committed : c.href = GetCurrentHref(f)
          /\ Resolve(m.entries[m.at]) = HandedOut(f) => Matched(hist')
          /\ ~due => hist'.entries = m.entries
      BY <2>1, <2>3, <3>1, RenderedFacts
    <3>3. Matched(hist)'
      BY <1>5, <2>2, <2>6, <3>2, SamePage
    <3>4. \A c \in hist'.committed : c.href = GetCurrentHref(filters)'
      BY <1>5, <2>5, <3>2, SamePage
    <3> QED
      BY <1>5, <2>2, <2>4, <3>1, <3>2, <3>3, <3>4 DEF UrlInv
  <2>8. CASE ~(f # filters \/ feedback)
    <3>1. hist' = m /\ due' = due
      BY <2>4, <2>8 DEF Rendered
    <3>2. Resolve(Address)' = Resolve(hist.entries[i])
      BY <1>5, <2>2, <3>1, SamePage DEF Address
    <3>3. HandedOut(filters)' = f
      BY <1>5, <2>5, <2>6, SamePage
    <3>4. HookOK(hist)'
      BY <2>3, <3>1 DEF HookOK
    <3> QED
      BY <1>5, <1>7, <2>1, <2>2, <2>4, <3>1, <3>2, <3>3, <3>4 DEF UrlInv
  <2> QED
    BY <2>7, <2>8
<1> QED
  BY <1>6, <1>7

\* A page is loaded: its first effect is due.
LEMMA LoadStep == ASSUME UrlInv, NEW set \in SUBSET KnownIds, LoadPage(set) PROVE UrlInv'
<1>1. Mount(mounted, set, hist.entries, hist.at)
  BY DEF LoadPage, ServicesRoute, EnvironmentsRoute, IntegrationsRoute, SecurityRoute
<1>2. /\ mounted' = mounted /\ known' = set /\ due' = TRUE /\ absorbed' = FALSE
      /\ hist' = [entries |-> hist.entries, at |-> hist.at, committed |-> {}, skip |-> FALSE]
  BY <1>1 DEF Mount
<1> PICK h : h = hist'
  OBVIOUS
<1>3. /\ h \in [entries : {hist.entries}, at : {hist.at}, committed : {{}}, skip : BOOLEAN]
      /\ h.entries = hist.entries /\ h.at = hist.at /\ h.committed = {} /\ ~h.skip
  BY <1>2
<1>4. HookOK(h)
  BY <1>3 DEF UrlInv, HookOK
<1> QED
  BY <1>2, <1>3, <1>4 DEF UrlInv, HookOK, Matched

\* An effect runs.
LEMMA EffectStep == UrlInv /\ EffectRuns => UrlInv'
<1> SUFFICES ASSUME UrlInv, EffectRuns PROVE UrlInv'
  OBVIOUS
<1>1. due' = FALSE /\ hist' = Effect(hist, filters) /\ UNCHANGED <<mounted, known, filters, absorbed>>
  BY DEF EffectRuns
<1> PICK g : g = hist'
  OBVIOUS
<1>2. Effected(hist, filters, g)
  BY <1>1, EffectFacts DEF UrlInv
<1>3. HookOK(g) /\ g.committed # {} /\ ~g.skip /\ (~absorbed => Matched(g))
  BY <1>2 DEF UrlInv, Effected, Address
<1>4. \A c \in g.committed : c.href = GetCurrentHref(filters)'
  BY <1>1, <1>2, SamePage DEF Effected
<1>5. Matched(hist)' = Matched(g) /\ HookOK(hist)' = HookOK(g)
  BY <1>1, SamePage DEF HookOK
<1> QED
  BY <1>1, <1>3, <1>4, <1>5 DEF UrlInv

\* What leaves the address, the refs and the filters alone.
LEMMA IdleStep ==
  ASSUME UrlInv, UNCHANGED <<mounted, known, filters, hist, absorbed>>, due' \in {due, TRUE}
  PROVE  UrlInv'
<1>1. /\ Resolve(Address)' = Resolve(Address) /\ HandedOut(filters)' = HandedOut(filters)
      /\ GetCurrentHref(filters)' = GetCurrentHref(filters) /\ Matched(hist)' = Matched(hist)
  BY SamePage DEF Address
<1>2. HookOK(hist)'
  BY DEF UrlInv, HookOK
<1> QED
  BY <1>1, <1>2 DEF UrlInv

\* Whatever a user changes on a page is a change of the filters.
LEMMA ChangesAreChanges ==
  ASSUME \/ ServicesFilters \/ EnvironmentsFilters \/ IntegrationsFilters \/ InventoryFilters \/ SecurityFilters
         \/ ServicesButtons \/ EnvironmentsButtons \/ IntegrationsButtons \/ SecurityButtons
  PROVE  \E f, clears : Change(f, clears)
<1>1. CASE \/ ServicesFilters \/ EnvironmentsFilters \/ IntegrationsFilters \/ InventoryFilters \/ SecurityFilters
  BY <1>1 DEF ServicesFilters, EnvironmentsFilters, IntegrationsFilters, InventoryFilters, SecurityFilters, Inputs, Input
<1>2. CASE ServicesButtons \/ EnvironmentsButtons \/ IntegrationsButtons \/ SecurityButtons
  BY <1>2 DEF ServicesButtons, EnvironmentsButtons, IntegrationsButtons, SecurityButtons
<1> QED
  BY <1>1, <1>2

LEMMA PopStateStep == ASSUME UrlInv, PopState PROVE UrlInv' /\ (~due => hist'.entries = hist.entries)
<1> PICK i : \/ SyncServices(i) \/ SyncEnvironments(i) \/ SyncIntegrations(i) \/ SyncSecurity(i)
  BY DEF PopState
<1> PICK f : f = Resolve(hist.entries[i])
  OBVIOUS
<1>1. HandlePopState(i, f)
  <2>1. CASE SyncServices(i)
    BY <2>1 DEF SyncServices, Resolve
  <2>2. CASE SyncEnvironments(i)
    BY <2>2 DEF SyncEnvironments, Resolve
  <2>3. CASE SyncIntegrations(i)
    BY <2>3 DEF SyncIntegrations, Resolve
  <2>4. CASE SyncSecurity(i)
    BY <2>4 DEF SyncSecurity, Resolve
  <2> QED
    BY <2>1, <2>2, <2>3, <2>4
<1> QED
  BY <1>1, PopStep

LEMMA UrlStep == UrlInv /\ [UrlNext]_urlVars => UrlInv'
<1> SUFFICES ASSUME UrlInv, [UrlNext]_urlVars PROVE UrlInv'
  OBVIOUS
<1>1. CASE \E set \in SUBSET KnownIds : LoadPage(set)
  BY <1>1, LoadStep
<1>2. CASE \/ ServicesFilters \/ EnvironmentsFilters \/ IntegrationsFilters \/ InventoryFilters \/ SecurityFilters
           \/ ServicesButtons \/ EnvironmentsButtons \/ IntegrationsButtons \/ SecurityButtons
  <2> PICK f, clears : Change(f, clears)
    BY <1>2, ChangesAreChanges
  <2> QED
    BY ChangeStep
<1>3. CASE HandleCopyCurrentView
  BY <1>3, CopyStep
<1>4. CASE PopState
  BY <1>4, PopStateStep
<1>5. CASE EffectRuns
  BY <1>5, EffectStep
<1>6. CASE Copied \/ FeedbackExpires \/ Rerender \/ UNCHANGED urlVars
  <2>1. UNCHANGED <<mounted, known, filters, hist, absorbed>> /\ due' \in {due, TRUE}
    BY <1>6 DEF Copied, FeedbackExpires, Rerender, urlVars
  <2> QED
    BY <2>1, IdleStep
<1> QED
  BY <1>1, <1>2, <1>3, <1>4, <1>5, <1>6 DEF UrlNext

LEMMA UrlInvariant == UrlSpec => []UrlInv
  BY UrlStarts, UrlStep, PTL DEF UrlSpec

\* Whatever was changed, gone back to, loaded, copied or cleared in which order,
\* and however renders and effects fell between: once the effects have run, the
\* address leads to the filters that are shown, but for the change that an idle
\* move's flag absorbed.
THEOREM AddressTheorem == UrlSpec => []AddressShowsView
<1>1. UrlInv => AddressShowsView
  <2> SUFFICES ASSUME UrlInv, ~due, ~absorbed PROVE Resolve(Address) = HandedOut(filters)
    BY DEF AddressShowsView, HandedOut
  <2>1. CASE hist.skip
    BY <2>1 DEF UrlInv
  <2>2. CASE ~hist.skip
    <3> PICK c : hist.committed = {c}
      BY DEF UrlInv, HookOK
    <3>1. c.href = GetCurrentHref(filters) /\ Resolve(Address) = Resolve(c.href)
      BY <2>2 DEF UrlInv, Matched, Address
    <3> QED
      BY <3>1 DEF HandedOut
  <2> QED
    BY <2>1, <2>2
<1> QED
  BY <1>1, UrlInvariant, PTL

\* Whatever came before, a move through the browser's history rewrites none of
\* it, unless an effect was due when the browser moved.
THEOREM MovesTheorem == UrlSpec => MovesKeepHistory
<1>1. UrlInv => (PopState /\ ~due => hist'.entries = hist.entries)
  BY PopStateStep
<1> QED
  BY <1>1, UrlInvariant, PTL DEF UrlSpec, MovesKeepHistory

-----------------------------------------------------------------------------
(* The project console                                                       *)

\* The catalog of a render makes the choice good, whoever makes it.
Chosen(ps, id) == id = ResolveProjectSelection(ps, id)

HandlerLine(h) ==
    h \in [n : {h.n}, kind : {"save", "remove"},
           at : {"sent", "answered", "refused", "refresh", "listed", "failed", "unlisted"},
           target : {h.target}, mount : {h.mount}, list : {h.list}, linked : {h.linked},
           projects : {h.projects}, id : {h.id}, got : {h.got}]
LoadLine(l) == l \in [at : {"sent", "listed", "failed"}, got : {l.got}]

\* What was answered a failure is told by "failed".
Told ==
    /\ \A h \in handlers : HandlerLine(h) /\ (h.at \in {"failed", "unlisted"} => failed)
    /\ \A l \in loads : LoadLine(l) /\ (l.at = "failed" => failed)

\* Somebody will install a catalog with a choice, or the choice is good.
WillChoose ==
    \/ Chosen(projects, remembered)
    \/ loads # {}
    \/ \E h \in handlers : h.at \in {"refresh", "listed"}

\* Without overlap one request at most is under way.
Alone ==
    /\ \A h, g \in handlers : h = g
    /\ \A l, k \in loads : l = k
    /\ loads = {} \/ handlers = {}

\* What has been listed is the catalog; what is shown is, too, unless a handler
\* or the load of the first render has yet to list it.
Shows ==
    /\ \A l \in loads : l.at = "listed" => l.got = catalog
    /\ \A h \in handlers : h.at = "listed" => h.got = catalog
    /\ \/ projects = catalog
       \/ loads # {}
       \/ \E h \in handlers : h.at \in {"answered", "refresh", "listed"}

CatalogInv ==
    /\ overlap \in BOOLEAN /\ failed \in BOOLEAN
    /\ Told
    /\ failed \/ WillChoose
    /\ overlap \/ (Alone /\ (failed \/ Shows))

-----------------------------------------------------------------------------

LEMMA Resolved2 == \A ps, id : Chosen(ps, ResolveProjectSelection(ps, id))
BY DEF Chosen, ResolveProjectSelection

LEMMA CatalogBegins == ProjectsInit => CatalogInv
<1> SUFFICES ASSUME ProjectsInit PROVE CatalogInv
  OBVIOUS
<1>1. handlers = {} /\ loads = {[at |-> "sent", got |-> <<>>]} /\ overlap = FALSE /\ failed = FALSE
  BY DEF ProjectsInit
<1>2. Told
  BY <1>1 DEF Told, LoadLine
<1>3. WillChoose
  BY <1>1 DEF WillChoose
<1>4. Alone /\ Shows
  BY <1>1 DEF Alone, Shows
<1> QED
  BY <1>1, <1>2, <1>3, <1>4 DEF CatalogInv

\* A handler takes a step; g is what becomes of it.
LEMMA HandlerKeeps ==
  ASSUME CatalogInv, NEW h \in handlers, NEW g, HandlerBecomes(h, g), HandlerLine(g),
         UNCHANGED <<projects, loads, overlap, failed>>,
         g.at \in {"failed", "unlisted"} => failed,
         UNCHANGED remembered \/ g.at = "refresh",
         h.at \in {"refresh", "listed"} => g.at \in {"refresh", "listed"} \/ failed,
         g.at = "listed" => g.got = catalog,
         \/ UNCHANGED catalog /\ (h.at \in {"answered", "refresh", "listed"} =>
                                     g.at \in {"answered", "refresh", "listed"} \/ failed)
         \/ g.at = "answered"
  PROVE  CatalogInv'
<1>1. handlers' = (handlers \ {h}) \cup {g}
  BY DEF HandlerBecomes
<1>2. Told'
  BY <1>1 DEF CatalogInv, Told
<1>3. failed' \/ WillChoose'
  BY <1>1 DEF CatalogInv, WillChoose, Chosen
<1>4. ASSUME ~overlap PROVE Alone'
  BY <1>1, <1>4 DEF CatalogInv, Alone
<1>5. ASSUME ~overlap, ~failed PROVE Shows'
  <2>1. handlers' = {g} /\ loads' = {}
    BY <1>1, <1>5 DEF CatalogInv, Alone
  <2>2. Shows
    BY <1>5 DEF CatalogInv
  <2>3. CASE UNCHANGED catalog
    BY <1>1, <1>5, <2>1, <2>2, <2>3 DEF Shows
  <2>4. CASE g.at = "answered"
    BY <2>1, <2>4 DEF Shows
  <2> QED
    BY <2>3, <2>4
<1> QED
  BY <1>2, <1>3, <1>4, <1>5 DEF CatalogInv

\* A choice is made, or none; nothing else that matters changes.
LEMMA ChoiceKeeps ==
  ASSUME CatalogInv, UNCHANGED <<catalog, projects, handlers, loads, overlap>>,
         UNCHANGED remembered \/ Chosen(projects, remembered'),
         UNCHANGED failed
  PROVE  CatalogInv'
<1>1. failed' \/ WillChoose'
  BY DEF CatalogInv, WillChoose, Chosen
<1>2. Told'
  BY DEF CatalogInv, Told
<1>3. overlap' \/ (Alone' /\ (failed' \/ Shows'))
  BY DEF CatalogInv, Alone, Shows
<1> QED
  BY <1>1, <1>2, <1>3 DEF CatalogInv

LEMMA SetKeeps ==
  ASSUME NEW ps, NEW id, SetSelectedProjectId(ps, id)
  PROVE  Chosen(ps, remembered')
<1>1. remembered' = ResolveProjectSelection(ps, id)
  BY DEF SetSelectedProjectId
<1> QED
  BY <1>1, Resolved2

LEMMA NavigationKeeps == CatalogInv /\ NavigationEffect => CatalogInv'
<1> SUFFICES ASSUME CatalogInv, NavigationEffect PROVE CatalogInv'
  OBVIOUS
<1>1. PICK nav : nav = ExtractProjectIdFromLocation
  OBVIOUS
<1>2. PICK shown : shown = SelectedProject
  OBVIOUS
<1>3. Chosen(projects, shown)
  BY <1>2, Resolved2 DEF SelectedProject
<1>4. remembered' = IF nav # "" /\ nav = shown THEN nav ELSE remembered
  BY <1>1, <1>2 DEF NavigationEffect
<1>5. UNCHANGED <<catalog, projects, handlers, loads, overlap, failed>>
  BY DEF NavigationEffect
<1>6. UNCHANGED remembered \/ Chosen(projects, remembered')
  BY <1>3, <1>4
<1> QED
  BY <1>5, <1>6, ChoiceKeeps

LEMMA ListsKeeps ==
  ASSUME CatalogInv, NEW l \in loads, ServerLists(l)
  PROVE  CatalogInv'
<1>1. PICK k : k = [l EXCEPT !.at = "listed", !.got = catalog]
  OBVIOUS
<1>2. loads' = (loads \ {l}) \cup {k}
  BY <1>1 DEF ServerLists
<1>3. UNCHANGED <<catalog, projects, remembered, handlers, overlap, failed>>
  BY DEF ServerLists
<1>4. LoadLine(l)
  BY DEF CatalogInv, Told
<1>5. k.at = "listed" /\ k.got = catalog /\ LoadLine(k)
  BY <1>1, <1>4 DEF LoadLine
<1>6. Told'
  BY <1>2, <1>3, <1>5 DEF CatalogInv, Told
<1>7. failed' \/ WillChoose'
  BY <1>2, <1>3 DEF WillChoose
<1>8. ASSUME ~overlap PROVE Alone' /\ (failed' \/ Shows')
  <2>1. Alone /\ (failed \/ Shows)
    BY <1>8 DEF CatalogInv
  <2>2. loads' = {k} /\ handlers' = {}
    BY <1>2, <1>3, <2>1 DEF Alone
  <2>3. Alone'
    BY <2>2 DEF Alone
  <2>4. Shows'
    BY <2>2, <1>3, <1>5 DEF Shows
  <2> QED
    BY <2>3, <2>4
<1> QED
  BY <1>3, <1>6, <1>7, <1>8 DEF CatalogInv

\* The load's answer is shown.
LEMMA SyncKeeps ==
  ASSUME CatalogInv, NEW l \in loads, SyncProjects(l)
  PROVE  CatalogInv'
<1>1. PICK ps : ps = IF l.at = "failed" THEN <<>> ELSE l.got
  OBVIOUS
<1>2. PICK id : id = IF l.at = "failed" THEN "" ELSE remembered
  OBVIOUS
<1>3. Install(ps, id)
  BY <1>1, <1>2 DEF SyncProjects
<1>4. loads' = loads \ {l} /\ UNCHANGED <<catalog, handlers, overlap, failed>> /\ l.at \in {"listed", "failed"}
  BY DEF SyncProjects
<1>5. projects' = ps /\ Chosen(ps, remembered')
  BY <1>3, SetKeeps DEF Install
<1>6. Told'
  BY <1>4 DEF CatalogInv, Told
<1>7. WillChoose'
  BY <1>5 DEF WillChoose
<1>8. ASSUME ~overlap PROVE Alone' /\ (failed' \/ Shows')
  <2>1. Alone /\ (failed \/ Shows)
    BY <1>8 DEF CatalogInv
  <2>2. loads' = {} /\ handlers' = {}
    BY <1>4, <2>1 DEF Alone
  <2>3. Alone'
    BY <2>2 DEF Alone
  <2>4. ASSUME ~failed PROVE ps = catalog
    <3>1. l.at = "listed"
      BY <1>4, <2>4 DEF CatalogInv, Told
    <3> QED
      BY <3>1, <2>1, <2>4, <1>1 DEF Shows
  <2>5. ASSUME ~failed PROVE Shows'
    BY <2>2, <2>4, <2>5, <1>4, <1>5 DEF Shows
  <2> QED
    BY <2>3, <2>5, <1>4
<1> QED
  BY <1>4, <1>6, <1>7, <1>8 DEF CatalogInv

LEMMA EditorKeeps ==
  ASSUME CatalogInv, NEW id,
         HandleProjectChange(id) \/ SelectProject(id) \/ CreateNewDraft \/ UpdateDraft
  PROVE  CatalogInv'
<1>1. UNCHANGED <<catalog, projects, handlers, loads, overlap, failed>>
  BY DEF HandleProjectChange, SelectProject, CreateNewDraft, UpdateDraft, Edit
<1>2. UNCHANGED remembered \/ Chosen(projects, remembered')
  <2>1. CASE HandleProjectChange(id) \/ SelectProject(id)
    BY <2>1, SetKeeps DEF HandleProjectChange, SelectProject
  <2>2. CASE CreateNewDraft
    BY <2>2, SetKeeps DEF CreateNewDraft
  <2>3. CASE UpdateDraft
    BY <2>3 DEF UpdateDraft
  <2> QED
    BY <2>1, <2>2, <2>3
<1> QED
  BY <1>1, <1>2, ChoiceKeeps

\* A click while nothing is under way; or two are, from then on.
LEMMA ClickKeeps ==
  ASSUME CatalogInv, NEW kind \in {"save", "remove"}, Click(kind)
  PROVE  CatalogInv'
<1>1. PICK h : h = [n |-> clicks, kind |-> kind, at |-> "sent", target |-> ActiveProject,
                    mount |-> console.mount, list |-> console.list, linked |-> console.linked,
                    projects |-> projects, id |-> "", got |-> <<>>]
  OBVIOUS
<1>2. handlers' = handlers \cup {h}
  BY <1>1 DEF Click
<1>3. UNCHANGED <<catalog, projects, remembered, loads, failed>>
  BY DEF Click
<1>4. h.at = "sent" /\ HandlerLine(h)
  BY <1>1 DEF HandlerLine
<1>5. overlap' \in BOOLEAN /\ (overlap' \/ (~overlap /\ NothingPending))
  <2>1. overlap' = (overlap \/ ~NothingPending)
    BY DEF Click
  <2> QED
    BY <2>1 DEF CatalogInv
<1>6. Told'
  BY <1>2, <1>3, <1>4 DEF CatalogInv, Told
<1>7. failed' \/ WillChoose'
  BY <1>2, <1>3 DEF CatalogInv, WillChoose, Chosen
<1>8. ASSUME ~overlap, NothingPending PROVE Alone' /\ (failed' \/ Shows')
  <2>1. handlers = {} /\ loads = {} /\ (failed \/ Shows)
    BY <1>8 DEF CatalogInv, NothingPending
  <2>2. handlers' = {h} /\ loads' = {}
    BY <1>2, <1>3, <2>1
  <2>3. Alone'
    BY <2>2 DEF Alone
  <2>4. failed' \/ Shows'
    BY <2>1, <2>2, <1>3, <1>4 DEF Shows
  <2> QED
    BY <2>3, <2>4
<1> QED
  BY <1>3, <1>5, <1>6, <1>7, <1>8 DEF CatalogInv

LEMMA ServerKeeps ==
  ASSUME CatalogInv, NEW h \in handlers, NEW id,
         ServerPuts(h) \/ ServerPosts(h, id) \/ ServerDeletes(h)
  PROVE  CatalogInv'
<1>1. HandlerLine(h) /\ h.at = "sent"
  BY DEF CatalogInv, Told, ServerPuts, ServerPosts, ServerDeletes
<1>2. UNCHANGED <<projects, remembered, loads, overlap, failed>>
  BY DEF ServerPuts, ServerPosts, ServerDeletes, Asking
<1>3. CASE ServerPuts(h)
  <2>1. PICK w : w = IF h.target \in Range(catalog) THEN "answered" ELSE "refused"
    OBVIOUS
  <2>2. PICK g : g = [h EXCEPT !.at = w, !.id = h.target]
    OBVIOUS
  <2>3. HandlerBecomes(h, g) /\ UNCHANGED catalog
    BY <1>3, <2>1, <2>2 DEF ServerPuts
  <2>4. HandlerLine(g) /\ g.at \in {"answered", "refused"}
    BY <1>1, <2>1, <2>2 DEF HandlerLine
  <2> QED
    BY <1>1, <1>2, <2>3, <2>4, HandlerKeeps
<1>4. CASE ServerPosts(h, id)
  <2>1. PICK g : g = [h EXCEPT !.at = "answered", !.id = id]
    OBVIOUS
  <2>2. HandlerBecomes(h, g)
    BY <1>4, <2>1 DEF ServerPosts
  <2>3. HandlerLine(g) /\ g.at = "answered"
    BY <1>1, <2>1 DEF HandlerLine
  <2> QED
    BY <1>1, <1>2, <2>2, <2>3, HandlerKeeps
<1>5. CASE ServerDeletes(h)
  <2>1. CASE h.target \in Range(catalog)
    <3>1. PICK g : g = [h EXCEPT !.at = "answered"]
      OBVIOUS
    <3>2. HandlerBecomes(h, g)
      BY <1>5, <2>1, <3>1 DEF ServerDeletes
    <3>3. HandlerLine(g) /\ g.at = "answered"
      BY <1>1, <3>1 DEF HandlerLine
    <3> QED
      BY <1>1, <1>2, <3>2, <3>3, HandlerKeeps
  <2>2. CASE h.target \notin Range(catalog)
    <3>1. PICK g : g = [h EXCEPT !.at = "refused"]
      OBVIOUS
    <3>2. HandlerBecomes(h, g) /\ UNCHANGED catalog
      BY <1>5, <2>2, <3>1 DEF ServerDeletes
    <3>3. HandlerLine(g) /\ g.at = "refused"
      BY <1>1, <3>1 DEF HandlerLine
    <3> QED
      BY <1>1, <1>2, <3>2, <3>3, HandlerKeeps
  <2> QED
    BY <2>1, <2>2
<1> QED
  BY <1>3, <1>4, <1>5

LEMMA AnsweredKeeps ==
  ASSUME CatalogInv, NEW h \in handlers, SaveAnswered(h) \/ RemoveAnswered(h)
  PROVE  CatalogInv'
<1>1. Settling(h)
  BY DEF SaveAnswered, RemoveAnswered
<1>2. PICK g : g = [h EXCEPT !.at = "refresh"]
  OBVIOUS
<1>3. HandlerBecomes(h, g) /\ h.at = "answered"
  BY <1>1, <1>2 DEF Settling
<1>4. UNCHANGED <<catalog, projects, loads, overlap, failed>>
  BY <1>1 DEF Settling
<1>5. HandlerLine(h)
  BY DEF CatalogInv, Told
<1>6. HandlerLine(g) /\ g.at = "refresh"
  BY <1>2, <1>5 DEF HandlerLine
<1> QED
  BY <1>3, <1>4, <1>6, HandlerKeeps

LEMMA RefreshKeeps ==
  ASSUME CatalogInv, NEW h \in handlers, RefreshLists(h)
  PROVE  CatalogInv'
<1>1. PICK g : g = [h EXCEPT !.at = "listed", !.got = catalog]
  OBVIOUS
<1>2. HandlerBecomes(h, g) /\ UNCHANGED catalog
  BY <1>1 DEF RefreshLists, Listed
<1>3. UNCHANGED <<projects, remembered, loads, overlap, failed>>
  BY DEF RefreshLists, Asking
<1>4. HandlerLine(h)
  BY DEF CatalogInv, Told
<1>5. HandlerLine(g) /\ g.at = "listed" /\ g.got = catalog
  BY <1>1, <1>4 DEF HandlerLine
<1> QED
  BY <1>2, <1>3, <1>5, HandlerKeeps

\* A handler ends: with the catalog it listed, without it, or refused.
LEMMA EndKeeps ==
  ASSUME CatalogInv, NEW h \in handlers, RefreshProjects(h) \/ ShowError(h)
  PROVE  CatalogInv'
<1>1. handlers' = handlers \ {h} /\ UNCHANGED <<catalog, loads, overlap, failed>>
  BY DEF RefreshProjects, ShowError, Asking
<1>2. HandlerLine(h) /\ (h.at \in {"failed", "unlisted"} => failed)
  BY DEF CatalogInv, Told
<1>3. Told'
  BY <1>1 DEF CatalogInv, Told
<1>4. ASSUME ~overlap PROVE Alone' /\ handlers' = {} /\ loads' = {}
  BY <1>1, <1>4 DEF CatalogInv, Alone
<1>5. CASE RefreshProjects(h) /\ h.at = "listed"
  <2>1. Install(h.got, Preferred(h))
    BY <1>5 DEF RefreshProjects
  <2>2. projects' = h.got /\ Chosen(h.got, remembered')
    BY <2>1, SetKeeps DEF Install
  <2>3. WillChoose'
    BY <2>2 DEF WillChoose
  <2>4. ASSUME ~overlap, ~failed PROVE Shows'
    <3>1. h.got = catalog
      BY <1>5, <2>4 DEF CatalogInv, Shows
    <3> QED
      BY <3>1, <2>2, <2>4, <1>1, <1>4 DEF Shows
  <2> QED
    BY <2>3, <2>4, <1>1, <1>3, <1>4 DEF CatalogInv
<1>6. CASE h.at \in {"failed", "unlisted"}
  BY <1>1, <1>2, <1>3, <1>4, <1>6 DEF CatalogInv
<1>7. CASE ShowError(h) /\ h.at = "refused"
  <2>1. UNCHANGED <<projects, remembered>>
    BY <1>7 DEF ShowError, Asking
  <2>2. failed' \/ WillChoose'
    BY <1>1, <1>7, <2>1 DEF CatalogInv, WillChoose, Chosen
  <2>3. ASSUME ~overlap, ~failed PROVE Shows'
    <3>1. projects = catalog
      BY <1>7, <2>3 DEF CatalogInv, Alone, Shows
    <3> QED
      BY <3>1, <2>1, <2>3, <1>1, <1>4 DEF Shows
  <2> QED
    BY <2>2, <2>3, <1>1, <1>3, <1>4 DEF CatalogInv
<1> QED
  BY <1>5, <1>6, <1>7 DEF RefreshProjects, ShowError

LEMMA RouterKeeps ==
  ASSUME CatalogInv, NEW r, Visits(r) \/ ArriveAt(r)
  PROVE  CatalogInv'
<1>1. UNCHANGED <<catalog, projects, remembered, handlers, loads, overlap, failed>>
  BY DEF Visits, ArriveAt
<1> QED
  BY <1>1, ChoiceKeeps

\* From the first mishap on, nothing is promised.
LEMMA MishapKeeps ==
  ASSUME CatalogInv, NEW id, RequestFailed \/ SomebodyDeletes(id)
  PROVE  CatalogInv'
<1>1. failed' = TRUE /\ UNCHANGED overlap
  BY DEF RequestFailed, SomebodyDeletes, Mishap
<1>2. CASE SomebodyDeletes(id)
  BY <1>1, <1>2 DEF SomebodyDeletes, CatalogInv, Told, Alone
<1>3. ASSUME NEW l \in loads, loads' = (loads \ {l}) \cup {[l EXCEPT !.at = "failed"]}, UNCHANGED handlers
      PROVE  CatalogInv'
  <2>1. PICK k : k = [l EXCEPT !.at = "failed"]
    OBVIOUS
  <2>2. LoadLine(l)
    BY DEF CatalogInv, Told
  <2>3. LoadLine(k)
    BY <2>1, <2>2 DEF LoadLine
  <2>4. loads' = (loads \ {l}) \cup {k}
    BY <1>3, <2>1
  <2>5. Told'
    BY <1>1, <1>3, <2>3, <2>4 DEF CatalogInv, Told
  <2>6. overlap \/ Alone'
    BY <1>3, <2>4 DEF CatalogInv, Alone
  <2> QED
    BY <1>1, <2>5, <2>6 DEF CatalogInv
<1>4. ASSUME NEW h \in handlers, UNCHANGED loads,
             HandlerBecomes(h, [h EXCEPT !.at = IF h.at = "sent" THEN "failed" ELSE "unlisted"])
      PROVE  CatalogInv'
  <2>1. PICK w : w = IF h.at = "sent" THEN "failed" ELSE "unlisted"
    OBVIOUS
  <2>2. PICK g : g = [h EXCEPT !.at = w]
    OBVIOUS
  <2>3. HandlerLine(h)
    BY DEF CatalogInv, Told
  <2>4. HandlerLine(g)
    BY <2>1, <2>2, <2>3 DEF HandlerLine
  <2>5. handlers' = (handlers \ {h}) \cup {g}
    BY <1>4, <2>1, <2>2 DEF HandlerBecomes
  <2>6. Told'
    BY <1>1, <1>4, <2>4, <2>5 DEF CatalogInv, Told
  <2>7. overlap \/ Alone'
    BY <1>4, <2>5 DEF CatalogInv, Alone
  <2> QED
    BY <1>1, <2>6, <2>7 DEF CatalogInv
<1>5. CASE RequestFailed
  BY <1>3, <1>4, <1>5 DEF RequestFailed
<1> QED
  BY <1>2, <1>5

LEMMA CatalogKept == CatalogInv /\ [ProjectsNext]_consoleVars => CatalogInv'
<1> SUFFICES ASSUME CatalogInv, [ProjectsNext]_consoleVars PROVE CatalogInv'
  OBVIOUS
<1>1. ASSUME NEW l \in loads, ServerLists(l) \/ SyncProjects(l) PROVE CatalogInv'
  BY <1>1, ListsKeeps, SyncKeeps
<1>2. ASSUME NEW id \in ConsoleIds, HandleProjectChange(id) \/ SelectProject(id) \/ SomebodyDeletes(id)
      PROVE  CatalogInv'
  BY <1>2, EditorKeeps, MishapKeeps
<1>3. CASE UpdateDraft \/ CreateNewDraft
  BY <1>3, EditorKeeps
<1>4. CASE SaveProject \/ RemoveProject
  BY <1>4, ClickKeeps DEF SaveProject, RemoveProject
<1>5. ASSUME NEW h \in handlers,
             ServerPuts(h) \/ ServerDeletes(h) \/ \E id \in ConsoleIds : ServerPosts(h, id)
      PROVE  CatalogInv'
  BY <1>5, ServerKeeps
<1>6. ASSUME NEW h \in handlers,
             SaveAnswered(h) \/ RemoveAnswered(h) \/ RefreshLists(h) \/ RefreshProjects(h) \/ ShowError(h)
      PROVE  CatalogInv'
  BY <1>6, AnsweredKeeps, RefreshKeeps, EndKeeps
<1>7. ASSUME NEW r, Visits(r) \/ ArriveAt(r) PROVE CatalogInv'
  BY <1>7, RouterKeeps
<1>8. CASE RequestFailed
  BY <1>8, MishapKeeps
<1>9. CASE NavigationEffect
  BY <1>9, NavigationKeeps
<1>10. CASE UNCHANGED consoleVars
  <2>1. UNCHANGED <<catalog, projects, remembered, handlers, loads, overlap, failed>>
    BY <1>10 DEF consoleVars
  <2> QED
    BY <2>1, ChoiceKeeps
<1> QED
  BY <1>1, <1>2, <1>3, <1>4, <1>5, <1>6, <1>7, <1>8, <1>9, <1>10 DEF ProjectsNext

\* The console's catalog: a quiet console shows and remembers what is the
\* server's, for any ids and any number of clicks, visits and mishaps
\* (project-provider.tsx, use-project-management-console-controller.ts).
THEOREM CatalogTheorem == ConsoleSpec => []QuietCatalogIsTrue
<1>1. CatalogInv => QuietCatalogIsTrue
  <2> SUFFICES ASSUME CatalogInv, NothingPending PROVE QuietCatalogIsTrue
    BY DEF QuietCatalogIsTrue, RememberedIsListed, ShownIsServed
  <2>1. ASSUME ~failed PROVE Chosen(projects, remembered)
    BY <2>1 DEF CatalogInv, WillChoose, NothingPending
  <2>2. Chosen(projects, SelectedProject)
    BY Resolved2 DEF SelectedProject
  <2>3. ASSUME ~failed, ~overlap PROVE projects = catalog
    BY <2>3 DEF CatalogInv, Shows, NothingPending
  <2> QED
    BY <2>1, <2>2, <2>3 DEF QuietCatalogIsTrue, RememberedIsListed, ShownIsServed, Chosen
<1> QED
  BY <1>1, CatalogBegins, CatalogKept, PTL DEF ConsoleSpec

-----------------------------------------------------------------------------
(* The appearance.  A window's cache is the normal form of what it last read,*)
(* and normal forms are fixed; a dashboard that has heard of every change    *)
(* shows and is painted with the normal form of what is stored; the shade is *)
(* that of the theme, and the theme that of the scheme chosen last.          *)

Schemes == {"auto", "dark", "light"}
Full(s) ==
    s \in [scheme : Schemes, color : {s.color}, info : {s.info}, follow : BOOLEAN, mode : {"normal", "head"},
           width : Int, menu : {s.menu}, sider : BOOLEAN, plain : BOOLEAN, header : {s.header}]
Settled(s) ==
    /\ Full(s)
    /\ s.menu # "dark" /\ s.width \in 160..480
    /\ s.follow => s.info = s.color

Fits(raw) ==
    \/ raw = Absent
    \/ /\ raw # Absent /\ raw # Undefined
       /\ "scheme" \in DOMAIN raw => raw.scheme \in Schemes
       /\ "follow" \in DOMAIN raw => raw.follow \in BOOLEAN
       /\ "mode" \in DOMAIN raw => raw.mode \in {"normal", "head"}
       /\ "width" \in DOMAIN raw => raw.width \in Int
       /\ "sider" \in DOMAIN raw => raw.sider \in BOOLEAN
       /\ "darkSider" \in DOMAIN raw => raw.darkSider \in BOOLEAN
       /\ "plain" \in DOMAIN raw => raw.plain \in BOOLEAN

LEMMA DefaultSettled == Settled(DefaultFnaShellSettings)
BY DEF Settled, Full, DefaultFnaShellSettings, Schemes

LEMMA Widths == \A x \in Int : SideWidth(x) \in 160..480 /\ (x \in 160..480 => SideWidth(x) = x)
BY DEF SideWidth

LEMMA Merged == ASSUME NEW base, NEW raw, Full(base), Fits(raw), raw # Absent
  PROVE Full(MergeDeep(base, raw))
BY DEF Full, Fits, MergeDeep

\* What the normalization does to a whole value.
Tidy(s) == [s EXCEPT !.menu = IF s.menu = "dark" THEN "light" ELSE s.menu,
                     !.sider = s.sider \/ s.menu = "dark",
                     !.info = IF s.follow THEN s.color ELSE s.info,
                     !.width = SideWidth(s.width)]

LEMMA TidyFields ==
  ASSUME NEW s, Full(s)
  PROVE  /\ Settled(Tidy(s))
         /\ Settled(s) => Tidy(s) = s
<1>1. PICK m : m = IF s.menu = "dark" THEN "light" ELSE s.menu
  OBVIOUS
<1>2. PICK b : b = (s.sider \/ s.menu = "dark")
  OBVIOUS
<1>3. PICK i : i = IF s.follow THEN s.color ELSE s.info
  OBVIOUS
<1>4. PICK x : x = SideWidth(s.width)
  OBVIOUS
<1>5. PICK t : t = [s EXCEPT !.menu = m, !.sider = b, !.info = i, !.width = x]
  OBVIOUS
<1>6. t = Tidy(s)
  BY <1>1, <1>2, <1>3, <1>4, <1>5, Zenon DEF Tidy
<1>7. b \in BOOLEAN /\ (s.menu # "dark" => b = s.sider)
  BY <1>2, Zenon DEF Full
<1>8. x \in 160..480 /\ (s.width \in 160..480 => x = s.width)
  BY <1>4, Widths DEF Full
<1>9. Settled(t)
  <2>1. t \in [scheme : {s.scheme}, color : {s.color}, info : {i}, follow : {s.follow}, mode : {s.mode},
               width : {x}, menu : {m}, sider : {b}, plain : {s.plain}, header : {s.header}]
    BY <1>5 DEF Full
  <2>2. m # "dark" /\ (s.follow => i = s.color)
    BY <1>1, <1>3
  <2>3. s.scheme \in Schemes /\ s.follow \in BOOLEAN /\ s.mode \in {"normal", "head"} /\ s.plain \in BOOLEAN
    BY DEF Full
  <2>4. Full(t)
    BY <2>1, <2>3, <1>7, <1>8 DEF Full
  <2> QED
    BY <2>1, <2>2, <2>4, <1>8 DEF Settled
<1>10. ASSUME Settled(s) PROVE t = s
  <2>1. m = s.menu /\ b = s.sider /\ i = s.info /\ x = s.width
    BY <1>1, <1>3, <1>7, <1>8, <1>10 DEF Settled
  <2> QED
    BY <2>1, <1>5 DEF Full
<1> QED
  BY <1>6, <1>9, <1>10

LEMMA FullFits == ASSUME NEW s, Full(s) PROVE Fits(s) /\ s # Absent /\ s # Undefined /\ s # Unreadable
BY DEF Full, Fits, Absent, Undefined, Unreadable

LEMMA MergeAll == ASSUME NEW s, NEW b, Full(s), Full(b) PROVE MergeDeep(b, s) = s
BY DEF Full, MergeDeep

LEMMA Normal ==
  ASSUME NEW raw, Fits(raw)
  PROVE  Settled(NormalizeFnaShellSettings(raw))
<1>1. CASE raw = Absent
  BY <1>1, DefaultSettled DEF NormalizeFnaShellSettings
<1>2. CASE raw # Absent
  <2>1. PICK old : old = IF "darkSider" \in DOMAIN raw /\ "menu" \notin DOMAIN raw
                         THEN [DefaultFnaShellSettings EXCEPT !.sider = raw.darkSider]
                         ELSE DefaultFnaShellSettings
    OBVIOUS
  <2>2. Full(old)
    BY <1>2, <2>1, DefaultSettled DEF Fits, Settled, Full
  <2>3. PICK new : new = MergeDeep(old, raw)
    OBVIOUS
  <2>4. Full(new)
    BY <1>2, <2>2, <2>3, Merged
  <2>5. NormalizeFnaShellSettings(raw) = Tidy(new)
    BY <1>2, <2>1, <2>3 DEF NormalizeFnaShellSettings, Tidy
  <2> QED
    BY <2>4, <2>5, TidyFields
<1> QED
  BY <1>1, <1>2

LEMMA NormalFixed ==
  ASSUME NEW s, Settled(s)
  PROVE  NormalizeFnaShellSettings(s) = s
<1>1. Full(s) /\ s # Absent
  BY FullFits DEF Settled
<1>2. "menu" \in DOMAIN s
  BY <1>1 DEF Full
<1>3. MergeDeep(DefaultFnaShellSettings, s) = s
  BY <1>1, DefaultSettled, MergeAll DEF Settled
<1>4. NormalizeFnaShellSettings(s) = Tidy(s)
  BY <1>1, <1>2, <1>3 DEF NormalizeFnaShellSettings, Tidy
<1> QED
  BY <1>1, <1>4, TidyFields

Themes == {"fna", "graphite", "system"}

Gone == {"failed", "dead"}
Places == {"closed", "login", "dashboard"} \cup Gone

WindowLine(v) ==
    v \in [at : Places, raw : {v.raw}, cached : {v.cached}, settings : {v.settings},
           theme : Themes, dark : {v.dark}, applied : {v.applied}, pane : {v.pane}, list : {v.list},
           importing : {v.importing}, later : Themes \cup {""}, event : BOOLEAN, chosen : Schemes \cup {""}]

\* What a window has read and what it holds.
Wears(v) ==
    /\ WindowLine(v)
    /\ v.raw # Unreadable
    /\ v.raw # Undefined => Fits(v.raw) /\ v.cached = NormalizeFnaShellSettings(v.raw)
    /\ Settled(v.settings)
    /\ v.list = Absent \/ Settled(v.list)
    /\ v.importing = Absent \/ Settled(v.importing)

\* The shade is that of the theme, and the theme that of the scheme chosen here.
DarkOf(theme, d) == IF theme = "system" THEN d ELSE theme = "graphite"
Dressed(v, d) ==
    /\ v.later = "" /\ v.at \notin {"closed", "dead"} => v.dark = DarkOf(v.theme, d)
    /\ v.chosen # "" => ThemeOf(v.chosen) = IF v.later = "" THEN v.theme ELSE v.later

\* The shell shows settings s and is painted with them.
Painted(v, s) ==
    /\ v.settings = s /\ v.cached = s
    /\ v.applied = [settings |-> s, dark |-> ResolveShellIsDark(s, v.dark)]
    /\ s.mode = "normal"

\* u is v but for what rendering and choosing a theme change.
Renders(u, v) ==
    u \in [at : {v.at} \cup Gone, raw : {u.raw}, cached : {u.cached}, settings : {u.settings}, theme : {u.theme},
           dark : {u.dark}, applied : {u.applied}, pane : {v.pane, "none"}, list : {v.list}, importing : {v.importing},
           later : {u.later}, event : {v.event}, chosen : {v.chosen}]
SameTheme(u, v) == u.theme = v.theme /\ u.dark = v.dark /\ u.later = v.later

\* A rendering of a rendering is a rendering.
LEMMA RendersOn ==
  ASSUME NEW x, NEW y, NEW z, Renders(y, x), Renders(z, y)
  PROVE  Renders(z, x)
<1>1. y.at \in {x.at} \cup Gone /\ y.pane \in {x.pane, "none"}
  BY DEF Renders
<1>2. y.list = x.list /\ y.importing = x.importing /\ y.event = x.event /\ y.chosen = x.chosen
  BY DEF Renders
<1>3. z \in [at : {y.at} \cup Gone, raw : {z.raw}, cached : {z.cached}, settings : {z.settings}, theme : {z.theme},
             dark : {z.dark}, applied : {z.applied}, pane : {y.pane, "none"}, list : {x.list}, importing : {x.importing},
             later : {z.later}, event : {x.event}, chosen : {x.chosen}]
  BY <1>2 DEF Renders
<1>4. {y.at} \cup Gone \subseteq {x.at} \cup Gone /\ {y.pane, "none"} \subseteq {x.pane, "none"}
  BY <1>1
<1> QED
  BY <1>3, <1>4 DEF Renders

\* u has read the stored settings.
Seen(here) == IF here = Unreadable THEN Absent ELSE here
Current(u, here) == u.raw = Seen(here) /\ u.cached = NormalizeFnaShellSettings(here)

\* What cannot be read counts as nothing stored.
LEMMA UnreadableIsDefault == NormalizeFnaShellSettings(Unreadable) = DefaultFnaShellSettings
<1>1. PICK new : new = MergeDeep(DefaultFnaShellSettings, Unreadable)
  OBVIOUS
<1>2. new = DefaultFnaShellSettings
  <2>1. Full(DefaultFnaShellSettings)
    BY DefaultSettled DEF Settled
  <2>2. PICK e : e = DefaultFnaShellSettings
    OBVIOUS
  <2>3. DOMAIN e = {"scheme", "color", "info", "follow", "mode", "width", "menu", "sider", "plain", "header"}
        /\ e = [f \in DOMAIN e |-> e[f]]
    BY <2>1, <2>2 DEF Full
  <2>4. DOMAIN Unreadable = {"absent"}
    BY DEF Unreadable
  <2>5. new = [f \in DOMAIN e |-> e[f]]
    BY <1>1, <2>2, <2>3, <2>4 DEF MergeDeep
  <2> QED
    BY <2>2, <2>3, <2>5
<1>3. Unreadable # Absent /\ "darkSider" \notin DOMAIN Unreadable
  BY DEF Unreadable, Absent
<1>4. NormalizeFnaShellSettings(Unreadable) = Tidy(new)
  BY <1>1, <1>3 DEF NormalizeFnaShellSettings, Tidy
<1> QED
  BY <1>2, <1>4, DefaultSettled, TidyFields DEF Settled

LEMMA NothingRead ==
  /\ Fits(Absent) /\ NormalizeFnaShellSettings(Absent) = DefaultFnaShellSettings
  /\ Absent # Unreadable /\ Undefined # Unreadable
<1>1. Absent # Unreadable /\ Undefined # Unreadable
  BY DEF Absent, Undefined, Unreadable
<1>2. NormalizeFnaShellSettings(Absent) = DefaultFnaShellSettings
  BY DEF NormalizeFnaShellSettings
<1> QED
  BY <1>1, <1>2 DEF Fits

LEMMA SeenFits ==
  ASSUME NEW here, Fits(here)
  PROVE  /\ Fits(Seen(here)) /\ Seen(here) # Unreadable /\ Seen(here) # Undefined
         /\ NormalizeFnaShellSettings(Seen(here)) = NormalizeFnaShellSettings(here)
<1>1. CASE here = Unreadable
  <2>1. Seen(here) = Absent
    BY <1>1 DEF Seen
  <2>2. NormalizeFnaShellSettings(Absent) = DefaultFnaShellSettings
    BY DEF NormalizeFnaShellSettings
  <2> QED
    BY <1>1, <2>1, <2>2, UnreadableIsDefault DEF Fits, Absent, Unreadable, Undefined
<1>2. CASE here # Unreadable
  <2>1. Seen(here) = here
    BY <1>2 DEF Seen
  <2>2. here # Undefined
    BY DEF Fits, Undefined, Absent
  <2> QED
    BY <1>2, <2>1, <2>2
<1> QED
  BY <1>1, <1>2

LEMMA ReadReads ==
  ASSUME NEW v, NEW here, Wears(v), Fits(here)
  PROVE  LET u == ReadFnaShellSettings(v, here)
         IN  Renders(u, v) /\ SameTheme(u, v) /\ Current(u, here) /\ u.settings = v.settings /\ u.at = v.at
<1>1. PICK u : u = ReadFnaShellSettings(v, here)
  OBVIOUS
<1>2. PICK n : n = NormalizeFnaShellSettings(here)
  OBVIOUS
<1>3. PICK r : r = Seen(here)
  OBVIOUS
<1>4. WindowLine(v) /\ v.raw # Unreadable
  BY DEF Wears
<1>5. CASE here = v.raw
  <2>1. u = v
    BY <1>1, <1>5 DEF ReadFnaShellSettings
  <2>2. here # Undefined /\ r = here
    BY <1>3, <1>4, <1>5, SeenFits DEF Seen
  <2>3. u.raw = r /\ u.cached = n
    BY <1>2, <1>5, <2>1, <2>2 DEF Wears
  <2>4. Renders(u, v) /\ SameTheme(u, v) /\ u.settings = v.settings /\ u.at = v.at
    BY <1>4, <2>1 DEF WindowLine, Renders, SameTheme
  <2> QED
    BY <1>1, <1>2, <1>3, <2>3, <2>4 DEF Current
<1>6. CASE here # v.raw
  <2>1. u = [v EXCEPT !.raw = r, !.cached = n]
    BY <1>1, <1>2, <1>3, <1>6 DEF ReadFnaShellSettings, Seen
  <2>2. Renders(u, v) /\ SameTheme(u, v) /\ u.raw = r /\ u.cached = n /\ u.settings = v.settings /\ u.at = v.at
    BY <1>4, <2>1 DEF WindowLine, Renders, SameTheme
  <2> QED
    BY <1>1, <1>2, <1>3, <2>2 DEF Current
<1> QED
  BY <1>5, <1>6

\* u is w painted anew, and w a rendering of v.
Repaint(u, w, v) ==
    /\ Renders(u, v) /\ SameTheme(u, w) /\ u.raw = w.raw /\ u.cached = w.cached
    /\ u.settings = w.settings /\ u.at = w.at

LEMMA Repainted ==
  ASSUME NEW v, NEW w, Renders(w, v), NEW s
  PROVE  Repaint(ApplyFnaShellCss(w, s), w, v)
<1>1. PICK u : u = ApplyFnaShellCss(w, s)
  OBVIOUS
<1>2. PICK a : a = [settings |-> s, dark |-> ResolveShellIsDark(s, w.dark)]
  OBVIOUS
<1>3. u = [w EXCEPT !.applied = a]
  BY <1>1, <1>2 DEF ApplyFnaShellCss
<1>4. Renders(u, v) /\ SameTheme(u, w) /\ u.raw = w.raw /\ u.cached = w.cached /\ u.settings = w.settings /\ u.at = w.at
  BY <1>3 DEF Renders, SameTheme
<1> QED
  BY <1>1, <1>4 DEF Repaint

LEMMA CssPaints ==
  ASSUME NEW v, NEW w, Renders(w, v), NEW s
  PROVE  LET u == ApplyFnaShellCss(w, s)
         IN  /\ Renders(u, v) /\ SameTheme(u, w) /\ u.raw = w.raw /\ u.cached = w.cached /\ u.settings = w.settings
             /\ u.at = w.at
             /\ u.applied = [settings |-> s, dark |-> ResolveShellIsDark(s, u.dark)]
<1>1. PICK u : u = ApplyFnaShellCss(w, s)
  OBVIOUS
<1>2. PICK a : a = [settings |-> s, dark |-> ResolveShellIsDark(s, w.dark)]
  OBVIOUS
<1>3. u = [w EXCEPT !.applied = a]
  BY <1>1, <1>2 DEF ApplyFnaShellCss
<1>4. /\ Renders(u, v) /\ SameTheme(u, w) /\ u.raw = w.raw /\ u.cached = w.cached /\ u.settings = w.settings
      /\ u.at = w.at /\ u.applied = a
  BY <1>3 DEF Renders, SameTheme
<1> QED
  BY <1>1, <1>2, <1>4 DEF SameTheme

LEMMA HeldAfter ==
  ASSUME NEW u, NEW v, NEW here, Wears(v), Renders(u, v), Fits(here), Current(u, here),
         u.settings = v.settings \/ Settled(u.settings),
         u.theme \in Themes, u.later \in Themes \cup {""}
  PROVE  Wears(u)
<1>1. WindowLine(v)
  BY DEF Wears
<1>2. WindowLine(u)
  BY <1>1 DEF WindowLine, Renders, Places
<1>3. u.list = v.list /\ u.importing = v.importing
  BY DEF Renders
<1>4. u.raw # Unreadable /\ Fits(u.raw) /\ u.cached = NormalizeFnaShellSettings(u.raw)
  BY SeenFits DEF Current
<1>5. Settled(u.settings)
  BY DEF Wears
<1> QED
  BY <1>2, <1>3, <1>4, <1>5 DEF Wears

\* The layout without a sidebar becomes the ordinary one.
LEMMA NormalMode ==
  ASSUME NEW s, Settled(s)
  PROVE  LET n == [s EXCEPT !.mode = "normal"] IN Settled(n) /\ n.mode = "normal" /\ n.header = s.header
<1>1. PICK n : n = [s EXCEPT !.mode = "normal"]
  OBVIOUS
<1>2. n \in [scheme : {s.scheme}, color : {s.color}, info : {s.info}, follow : {s.follow}, mode : {"normal"},
             width : {s.width}, menu : {s.menu}, sider : {s.sider}, plain : {s.plain}, header : {s.header}]
  BY <1>1 DEF Settled, Full
<1>3. Full(n)
  BY <1>2 DEF Settled, Full
<1>4. Settled(n) /\ n.mode = "normal" /\ n.header = s.header
  BY <1>2, <1>3 DEF Settled
<1> QED
  BY <1>1, <1>4

\* Where a window is after a step: where it was, or gone with settings that
\* cannot be shown; a shell that is still there shows what is stored.
Lands(at, q) ==
    /\ q.v.at = at \/ (q.v.at \in Gone /\ ~CanShow(q.here))
    /\ q.v.at = "dashboard" => CanShow(q.here) /\ Painted(q.v, NormalizeFnaShellSettings(q.here))

LEMMA ShellRenders ==
  ASSUME NEW p, Wears(p.v), Fits(p.here)
  PROVE  LET q == RenderShell(p)
         IN  /\ Wears(q.v) /\ Renders(q.v, p.v) /\ SameTheme(q.v, p.v)
             /\ Fits(q.here) /\ (q.here = Absent => p.here = Absent)
             /\ q.v.at = p.v.at \/ (q.v.at = "failed" /\ p.v.at = "dashboard")
             /\ Lands(p.v.at, q)
<1>1. PICK q : q = RenderShell(p)
  OBVIOUS
<1>2. PICK v : v = ReadFnaShellSettings(p.v, p.here)
  OBVIOUS
<1>3. Renders(v, p.v) /\ SameTheme(v, p.v) /\ Current(v, p.here) /\ v.settings = p.v.settings /\ v.at = p.v.at
  BY <1>2, ReadReads
<1>4. PICK c : c = NormalizeFnaShellSettings(p.here)
  OBVIOUS
<1>5. v.cached = c /\ Settled(c)
  BY <1>3, <1>4, Normal DEF Current
<1>6. p.v.theme \in Themes /\ p.v.later \in Themes \cup {""}
  BY DEF Wears, WindowLine
<1>7. PICK s1 : s1 = [v EXCEPT !.settings = c]
  OBVIOUS
<1>8. Renders(s1, p.v) /\ SameTheme(s1, p.v) /\ s1.raw = v.raw /\ s1.cached = c /\ s1.settings = c /\ s1.at = v.at
  BY <1>3, <1>5, <1>7 DEF Renders, SameTheme
<1>9. PICK shown : shown = ApplyFnaShellCss(s1, c)
  OBVIOUS
<1>10. /\ Renders(shown, p.v) /\ SameTheme(shown, s1) /\ shown.raw = s1.raw /\ shown.cached = c /\ shown.settings = c
       /\ shown.at = v.at
       /\ shown.applied = [settings |-> c, dark |-> ResolveShellIsDark(c, shown.dark)]
  BY <1>8, <1>9, CssPaints
<1>12. SameTheme(shown, p.v)
  BY <1>8, <1>10 DEF SameTheme
<1>13. CASE v.at # "dashboard"
  <2>1. q = [v |-> v, here |-> p.here]
    BY <1>1, <1>2, <1>13 DEF RenderShell
  <2>2. Wears(v)
    BY <1>3, <1>6, HeldAfter DEF SameTheme
  <2>3. Lands(p.v.at, q)
    BY <1>3, <1>13, <2>1 DEF Lands
  <2> QED
    BY <1>1, <1>3, <1>13, <2>1, <2>2, <2>3
<1>16. CASE v.at = "dashboard" /\ ~CanShow(p.here)
  <2>1. PICK f : f = [v EXCEPT !.at = "failed", !.pane = "none"]
    OBVIOUS
  <2>2. q = [v |-> f, here |-> p.here]
    BY <1>1, <1>2, <1>16, <2>1 DEF RenderShell
  <2>3. /\ Renders(f, p.v) /\ SameTheme(f, p.v) /\ f.raw = v.raw /\ f.cached = v.cached
        /\ f.settings = p.v.settings /\ f.at = "failed"
    BY <1>3, <2>1 DEF Renders, SameTheme, Gone
  <2>4. Current(f, p.here)
    BY <1>3, <2>3 DEF Current
  <2>5. Wears(f)
    BY <1>6, <2>3, <2>4, HeldAfter DEF SameTheme
  <2>6. Lands(p.v.at, q)
    BY <1>16, <2>2, <2>3 DEF Lands, Gone
  <2> QED
    BY <1>1, <1>3, <1>16, <2>2, <2>3, <2>5, <2>6
<1>14. CASE v.at = "dashboard" /\ CanShow(p.here) /\ c.mode # "head"
  <2>1. q = [v |-> shown, here |-> p.here]
    BY <1>1, <1>2, <1>5, <1>7, <1>9, <1>14 DEF RenderShell
  <2>2. Current(shown, p.here)
    BY <1>3, <1>4, <1>8, <1>10 DEF Current
  <2>3. Wears(shown)
    BY <1>5, <1>6, <1>10, <1>12, <2>2, HeldAfter DEF SameTheme
  <2>4. c.mode = "normal"
    BY <1>5, <1>14 DEF Settled, Full
  <2>5. Painted(shown, c)
    BY <1>10, <2>4 DEF Painted
  <2>6. Lands(p.v.at, q)
    BY <1>3, <1>4, <1>10, <1>14, <2>1, <2>5 DEF Lands
  <2> QED
    BY <1>1, <1>3, <1>10, <1>12, <2>1, <2>3, <2>6
<1>15. CASE v.at = "dashboard" /\ CanShow(p.here) /\ c.mode = "head"
  <2>1. PICK n : n = [c EXCEPT !.mode = "normal"]
    OBVIOUS
  <2>2. Settled(n) /\ n.mode = "normal" /\ n.header = c.header
    BY <1>5, <2>1, NormalMode
  <2>3. NormalizeFnaShellSettings(n) = n /\ Fits(n) /\ n # Absent /\ n # Unreadable
    BY <2>2, NormalFixed, FullFits DEF Settled
  <2>4. PICK t : t = [shown EXCEPT !.raw = n, !.cached = n]
    OBVIOUS
  <2>5. PICK s2 : s2 = [t EXCEPT !.settings = n]
    OBVIOUS
  <2>6. PICK z : z = ApplyFnaShellCss(s2, n)
    OBVIOUS
  <2>7. t.cached = n
    BY <1>10, <2>4 DEF Renders
  <2>8. WriteFnaShellSettings([v |-> shown, here |-> p.here], n) = [v |-> t, here |-> n]
    BY <2>3, <2>4 DEF WriteFnaShellSettings
  <2>9. q = [v |-> z, here |-> n]
    BY <1>1, <1>2, <1>5, <1>7, <1>9, <1>15, <2>1, <2>5, <2>6, <2>7, <2>8 DEF RenderShell
  <2>10. Renders(s2, p.v) /\ SameTheme(s2, shown) /\ s2.raw = n /\ s2.cached = n /\ s2.settings = n /\ s2.at = v.at
    BY <1>10, <2>4, <2>5 DEF Renders, SameTheme
  <2>11. /\ Renders(z, p.v) /\ SameTheme(z, s2) /\ z.raw = n /\ z.cached = n /\ z.settings = n /\ z.at = v.at
         /\ z.applied = [settings |-> n, dark |-> ResolveShellIsDark(n, z.dark)]
    BY <2>6, <2>10, CssPaints
  <2>12. SameTheme(z, p.v)
    BY <1>12, <2>10, <2>11 DEF SameTheme
  <2>13. Current(z, n)
    BY <2>3, <2>11 DEF Current, Seen
  <2>14. Wears(z)
    BY <1>6, <2>2, <2>3, <2>11, <2>12, <2>13, HeldAfter DEF SameTheme
  <2>15. Painted(z, n)
    BY <2>2, <2>11 DEF Painted
  <2>16. CanShow(n)
    BY <1>4, <1>15, <2>2, <2>3 DEF CanShow
  <2>17. Lands(p.v.at, q)
    BY <1>3, <2>3, <2>9, <2>11, <2>15, <2>16 DEF Lands
  <2> QED
    BY <1>1, <1>3, <2>3, <2>9, <2>11, <2>12, <2>14, <2>17
<1> QED
  BY <1>13, <1>14, <1>15, <1>16

\* A theme is put on.
LEMMA ThemeRenders ==
  ASSUME NEW p, Wears(p.v), Fits(p.here), NEW theme \in Themes,
         p.v.chosen # "" => ThemeOf(p.v.chosen) = theme
  PROVE  LET q == RenderTheme(p, theme)
         IN  /\ Wears(q.v) /\ Renders(q.v, p.v) /\ Dressed(q.v, sysDark)
             /\ Fits(q.here) /\ (q.here = Absent => p.here = Absent)
             /\ Lands(p.v.at, q)
<1>1. PICK d : d = ClassIsDark(theme)
  OBVIOUS
<1>2. PICK a : a = [p.v EXCEPT !.dark = d]
  OBVIOUS
<1>3. WindowLine(p.v)
  BY DEF Wears
<1>4. Renders(a, p.v) /\ a.dark = d /\ a.raw = p.v.raw /\ a.cached = p.v.cached /\ a.settings = p.v.settings
        /\ a.theme = p.v.theme /\ a.later = p.v.later /\ a.at = p.v.at
  BY <1>2, <1>3 DEF Renders, WindowLine
<1>5. WindowLine(a)
  BY <1>3, <1>4 DEF WindowLine, Renders
<1>6. Wears(a)
  BY <1>4, <1>5 DEF Wears, Renders
<1>7. PICK v : v = ReadFnaShellSettings(a, p.here)
  OBVIOUS
<1>8. Renders(v, a) /\ SameTheme(v, a) /\ Current(v, p.here) /\ v.settings = a.settings /\ v.at = a.at
  BY <1>6, <1>7, ReadReads
<1>9. PICK t : t = [v EXCEPT !.theme = theme, !.later = ""]
  OBVIOUS
<1>10. Renders(t, p.v) /\ t.raw = v.raw /\ t.cached = v.cached /\ t.settings = v.settings
         /\ t.theme = theme /\ t.later = "" /\ t.dark = v.dark /\ t.at = v.at
  BY <1>4, <1>8, <1>9 DEF Renders
<1>11. PICK c : c = v.cached
  OBVIOUS
<1>12. d = DarkOf(theme, sysDark)
  BY <1>1 DEF ClassIsDark, DarkOf
<1>13. ASSUME NEW u, Renders(u, p.v), u.theme = theme, u.later = "", u.dark = d PROVE Dressed(u, sysDark)
  <2>1. u.chosen = p.v.chosen
    BY <1>13 DEF Renders
  <2> QED
    BY <1>12, <1>13, <2>1 DEF Dressed
<1>14. t.theme = theme /\ t.later = "" /\ t.dark = d /\ t.at = p.v.at /\ t.settings = p.v.settings
  BY <1>4, <1>8, <1>10 DEF SameTheme
<1>15. Current(t, p.here)
  BY <1>8, <1>10 DEF Current
<1>16. PICK x : x = p.v
  OBVIOUS
\* The shell renders with the new theme, painted anew or not.
<1>17. ASSUME NEW u, u = t \/ u = ApplyFnaShellCss(t, c), NEW q, q = RenderShell([v |-> u, here |-> p.here])
       PROVE  /\ Wears(q.v) /\ Renders(q.v, p.v) /\ Dressed(q.v, sysDark)
              /\ Fits(q.here) /\ (q.here = Absent => p.here = Absent)
              /\ Lands(p.v.at, q)
  <2>1. Renders(u, x) /\ SameTheme(u, t) /\ u.raw = t.raw /\ u.cached = t.cached /\ u.settings = t.settings /\ u.at = t.at
    <3>1. Renders(t, x)
      BY <1>10, <1>16
    <3>2. CASE u = ApplyFnaShellCss(t, c)
      <4>1. Repaint(ApplyFnaShellCss(t, c), t, x)
        BY <3>1, Repainted
      <4>2. Repaint(u, t, x)
        BY <3>2, <4>1
      <4> QED
        BY <4>2 DEF Repaint
    <3>3. CASE u = t
      BY <3>1, <3>3 DEF SameTheme
    <3> QED
      BY <1>17, <3>2, <3>3
  <2>2. Current(u, p.here) /\ u.settings = p.v.settings
    BY <1>14, <1>15, <2>1 DEF Current
  <2>3. u.theme = theme /\ u.later = "" /\ u.dark = d /\ u.at = p.v.at
    BY <1>14, <2>1 DEF SameTheme
  <2>4. Wears(u)
    BY <1>16, <2>1, <2>2, <2>3, HeldAfter
  <2>5. PICK r : r = [v |-> u, here |-> p.here]
    OBVIOUS
  <2>6. r.v = u /\ r.here = p.here /\ q = RenderShell(r)
    BY <1>17, <2>5
  <2>7. /\ Wears(q.v) /\ Renders(q.v, r.v) /\ SameTheme(q.v, r.v)
        /\ Fits(q.here) /\ (q.here = Absent => r.here = Absent)
        /\ Lands(r.v.at, q)
    <3>1. Wears(r.v) /\ Fits(r.here)
      BY <2>4, <2>6
    <3> QED
      BY <2>6, <3>1, ShellRenders
  <2>8. Renders(q.v, x)
    <3>1. Renders(q.v, u)
      BY <2>6, <2>7
    <3> QED
      BY <2>1, <3>1, RendersOn
  <2>9. Dressed(q.v, sysDark)
    BY <1>13, <1>16, <2>3, <2>6, <2>7, <2>8 DEF SameTheme
  <2> QED
    BY <1>16, <2>3, <2>6, <2>7, <2>8, <2>9
\* The first paint with a theme throws.
<1>18. ASSUME c.header = Null, NEW q, q = [v |-> DiesPainting(t), here |-> p.here]
       PROVE  /\ Wears(q.v) /\ Renders(q.v, p.v) /\ Dressed(q.v, sysDark)
              /\ Fits(q.here) /\ (q.here = Absent => p.here = Absent)
              /\ Lands(p.v.at, q)
  <2>1. PICK u : u = [t EXCEPT !.at = "dead", !.pane = "none"]
    OBVIOUS
  <2>2. q.v = u /\ q.here = p.here
    BY <1>18, <2>1 DEF DiesPainting
  <2>3. /\ Renders(u, x) /\ u.raw = t.raw /\ u.cached = t.cached /\ u.settings = t.settings
        /\ u.theme = t.theme /\ u.later = t.later /\ u.dark = t.dark /\ u.at = "dead"
    BY <1>10, <1>16, <2>1 DEF Renders, Gone
  <2>4. Current(u, p.here)
    BY <1>15, <2>3 DEF Current
  <2>5. Wears(u)
    BY <1>14, <1>16, <2>3, <2>4, HeldAfter
  <2>6. Dressed(u, sysDark)
    BY <1>13, <1>14, <1>16, <2>3
  <2>7. ~CanShow(p.here)
    BY <1>8, <1>11, <1>18 DEF Current, CanShow
  <2>8. Lands(p.v.at, q)
    BY <2>2, <2>3, <2>7 DEF Lands, Gone
  <2> QED
    BY <1>16, <2>2, <2>3, <2>5, <2>6, <2>8
<1>19. PICK q : q = RenderTheme(p, theme)
  OBVIOUS
<1>20. \/ \E u : (u = t \/ u = ApplyFnaShellCss(t, c)) /\ q = RenderShell([v |-> u, here |-> p.here])
       \/ c.header = Null /\ q = [v |-> DiesPainting(t), here |-> p.here]
  <2>1. q = IF c.header # Null THEN RenderShell([v |-> ApplyFnaShellCss(t, c), here |-> p.here])
            ELSE IF p.v.theme = theme /\ p.v.applied # Absent THEN RenderShell([v |-> t, here |-> p.here])
            ELSE [v |-> DiesPainting(t), here |-> p.here]
    BY <1>1, <1>2, <1>7, <1>9, <1>11, <1>19, Zenon DEF RenderTheme, ApplyTheme
  <2> QED
    BY <2>1, Zenon
<1> QED
  BY <1>17, <1>18, <1>19, <1>20

LEMMA WriteWrites ==
  ASSUME NEW p, Wears(p.v), NEW s, Full(s)
  PROVE  LET q == WriteFnaShellSettings(p, s)
         IN  /\ Wears(q.v) /\ Renders(q.v, p.v) /\ SameTheme(q.v, p.v) /\ q.v.at = p.v.at
             /\ Fits(q.here) /\ q.here # Absent
<1>1. PICK n : n = NormalizeFnaShellSettings(s)
  OBVIOUS
<1>2. Settled(n)
  BY <1>1, Normal, FullFits
<1>3. NormalizeFnaShellSettings(n) = n /\ Fits(n) /\ n # Absent /\ Seen(n) = n
  BY <1>2, NormalFixed, FullFits DEF Settled, Seen
<1>4. PICK u : u = [p.v EXCEPT !.raw = n, !.cached = n]
  OBVIOUS
<1>5. WriteFnaShellSettings(p, s) = [v |-> u, here |-> n]
  BY <1>1, <1>4 DEF WriteFnaShellSettings
<1>6. WindowLine(p.v)
  BY DEF Wears
<1>7. Renders(u, p.v) /\ SameTheme(u, p.v) /\ u.raw = n /\ u.cached = n /\ u.settings = p.v.settings
        /\ u.at = p.v.at
  BY <1>4, <1>6 DEF WindowLine, Renders, SameTheme
<1>8. Wears(u)
  BY <1>3, <1>6, <1>7, HeldAfter DEF Current, SameTheme, WindowLine
<1> QED
  BY <1>3, <1>5, <1>7, <1>8

StoredThemes == Themes \cup {"", "gva"}

WindowOK(v, d, here) ==
    /\ Wears(v) /\ Dressed(v, d)
    /\ v.at = "dashboard" /\ ~v.event => CanShow(here) /\ Painted(v, NormalizeFnaShellSettings(here))

SettingsInv ==
    /\ Fits(storedSettings) /\ Fits(legacy)
    /\ storedTheme \in StoredThemes
    /\ presets = Absent \/ Settled(presets)
    /\ win = [w \in Windows |-> win[w]]
    /\ \A w \in Windows : WindowOK(win[w], sysDark, MigrateLegacyLocalStorageValue)
    /\ spoilt \in BOOLEAN
    /\ ~CanShow(MigrateLegacyLocalStorageValue) => spoilt
    /\ \A w \in Windows : win[w].at \in Gone => spoilt

\* What a step prepares for the store and its window.
Prepared(p) ==
    /\ Wears(p.v) /\ Dressed(p.v, sysDark)
    /\ Fits(p.here) /\ (p.here = Absent => MigrateLegacyLocalStorageValue = Absent)
    /\ p.v.at = "dashboard" => CanShow(p.here) /\ Painted(p.v, NormalizeFnaShellSettings(p.here))
    /\ p.v.at \in Gone => spoilt \/ ~CanShow(p.here)

LEMMA EventOK ==
  ASSUME NEW v, NEW d, NEW here, NEW e \in BOOLEAN, WindowOK(v, d, here), e = v.event \/ e = TRUE \/ v.at # "dashboard",
         NEW u, u = [v EXCEPT !.event = e], NEW then, then = here \/ e = TRUE \/ v.at # "dashboard"
  PROVE  WindowOK(u, d, then) /\ u.at = v.at
<1>1. u \in [at : {v.at}, raw : {v.raw}, cached : {v.cached}, settings : {v.settings}, theme : {v.theme},
             dark : {v.dark}, applied : {v.applied}, pane : {v.pane}, list : {v.list}, importing : {v.importing},
             later : {v.later}, event : {e}, chosen : {v.chosen}]
  BY DEF WindowOK, Wears, WindowLine
<1>2. WindowLine(v)
  BY DEF WindowOK, Wears
<1>3. WindowLine(u)
  BY <1>1, <1>2 DEF WindowLine
<1>4. Wears(u)
  BY <1>1, <1>3 DEF WindowOK, Wears
<1>5. Dressed(u, d)
  BY <1>1 DEF WindowOK, Dressed
<1>6. ASSUME u.at = "dashboard", ~u.event PROVE CanShow(then) /\ Painted(u, NormalizeFnaShellSettings(then))
  <2>1. v.at = "dashboard" /\ ~v.event /\ then = here
    BY <1>1, <1>6
  <2>2. CanShow(here) /\ Painted(v, NormalizeFnaShellSettings(here))
    BY <2>1 DEF WindowOK
  <2> QED
    BY <1>1, <2>1, <2>2 DEF Painted
<1> QED
  BY <1>1, <1>4, <1>5, <1>6 DEF WindowOK

\* A window that stays as it is, or hears that the stored settings changed.
LEMMA OthersHear ==
  ASSUME NEW v, NEW d, NEW here, NEW then, WindowOK(v, d, here), NEW u,
         (u = v /\ then = here) \/ u = (IF v.at = "closed" THEN v ELSE [v EXCEPT !.event = TRUE])
  PROVE  WindowOK(u, d, then) /\ u.at = v.at
<1>1. CASE u = v /\ (then = here \/ v.at = "closed")
  BY <1>1 DEF WindowOK
<1>2. CASE u = [v EXCEPT !.event = TRUE]
  BY <1>2, EventOK
<1> QED
  BY <1>1, <1>2

LEMMA StoresKeeps ==
  ASSUME SettingsInv, NEW w \in Windows, NEW p, Prepared(p), Stores(w, p),
         storedTheme' \in StoredThemes, UNCHANGED <<presets, sysDark>>
  PROVE  SettingsInv'
<1>1. PICK m : m = MigrateLegacyLocalStorageValue
  OBVIOUS
<1>2. PICK old : old = storedSettings
  OBVIOUS
<1>3. PICK was : was = win
  OBVIOUS
<1>4. /\ storedSettings' = p.here /\ legacy' = IF old = Absent THEN Absent ELSE legacy
      /\ spoilt' = (spoilt \/ ~CanShow(p.here))
  BY <1>2 DEF Stores
<1>5. p.here = Absent => m = Absent
  BY <1>1 DEF Prepared
<1>6. MigrateLegacyLocalStorageValue' = p.here
  BY <1>1, <1>2, <1>4, <1>5 DEF MigrateLegacyLocalStorageValue
<1>7. p.here = old => p.here = m
  BY <1>1, <1>2, <1>5 DEF MigrateLegacyLocalStorageValue
<1>8. win' = [x \in Windows |-> IF x = w THEN p.v
                                ELSE IF p.here # old
                                THEN (IF was[x].at = "closed" THEN was[x] ELSE [was[x] EXCEPT !.event = TRUE])
                                ELSE was[x]]
  BY <1>2, <1>3 DEF Stores, Hears
<1>9. Fits(storedSettings)' /\ Fits(legacy)'
  BY <1>4 DEF Prepared, SettingsInv, Fits
<1>10. ASSUME NEW x \in Windows PROVE WindowOK(win[x], sysDark, MigrateLegacyLocalStorageValue)'
  <2>1. PICK u : u = win'[x]
    OBVIOUS
  <2>2. PICK d : d = sysDark
    OBVIOUS
  <2>3. CASE x = w
    <3>1. u = p.v
      BY <1>8, <2>1, <2>3
    <3>2. WindowOK(u, d, p.here)
      BY <3>1, <2>2 DEF Prepared, WindowOK
    <3> QED
      BY <3>2, <2>1, <2>2, <1>6
  <2>4. CASE x # w
    <3>1. PICK v : v = was[x]
      OBVIOUS
    <3>2. WindowOK(v, d, m)
      BY <1>1, <1>3, <2>2, <3>1 DEF SettingsInv
    <3>3. (u = v /\ p.here = m) \/ u = (IF v.at = "closed" THEN v ELSE [v EXCEPT !.event = TRUE])
      BY <1>7, <1>8, <2>1, <2>4, <3>1
    <3>4. WindowOK(u, d, p.here)
      BY <3>2, <3>3, OthersHear
    <3> QED
      BY <3>4, <2>1, <2>2, <1>6
  <2> QED
    BY <2>3, <2>4
<1>11. win' = [x \in Windows |-> win'[x]]
  BY <1>8
<1>12. spoilt' \in BOOLEAN /\ (~CanShow(MigrateLegacyLocalStorageValue)' => spoilt')
  BY <1>4, <1>6
<1>13. ASSUME NEW x \in Windows, win'[x].at \in Gone PROVE spoilt'
  <2>1. CASE x = w
    <3>1. win'[x] = p.v
      BY <1>8, <2>1
    <3> QED
      BY <1>4, <1>13, <3>1 DEF Prepared
  <2>2. CASE x # w
    <3>1. PICK v : v = was[x]
      OBVIOUS
    <3>2. PICK u : u = win'[x]
      OBVIOUS
    <3>3. PICK d : d = sysDark
      OBVIOUS
    <3>4. WindowOK(v, d, m)
      BY <1>1, <1>3, <3>1, <3>3 DEF SettingsInv
    <3>5. (u = v /\ p.here = m) \/ u = (IF v.at = "closed" THEN v ELSE [v EXCEPT !.event = TRUE])
      BY <1>7, <1>8, <2>2, <3>1, <3>2
    <3>6. u.at = v.at
      BY <3>4, <3>5, OthersHear
    <3> QED
      BY <1>3, <1>4, <1>13, <3>1, <3>2, <3>6 DEF SettingsInv
  <2> QED
    BY <2>1, <2>2
<1> QED
  BY <1>9, <1>10, <1>11, <1>12, <1>13 DEF SettingsInv

LEMMA FieldsHeld ==
  ASSUME NEW v, Wears(v), NEW u,
         u \in [at : Places, raw : {v.raw}, cached : {v.cached}, settings : {v.settings},
                theme : Themes, dark : {u.dark}, applied : {u.applied}, pane : {u.pane}, list : {u.list},
                importing : {u.importing}, later : Themes \cup {""}, event : BOOLEAN, chosen : Schemes \cup {""}],
         u.list = v.list \/ u.list = Absent \/ Settled(u.list),
         u.importing = v.importing \/ u.importing = Absent \/ Settled(u.importing)
  PROVE  Wears(u)
<1>1. WindowLine(u)
  BY DEF WindowLine
<1>2. u.raw = v.raw /\ u.cached = v.cached /\ u.settings = v.settings
  OBVIOUS
<1> QED
  BY <1>1, <1>2 DEF Wears

LEMMA MigratedFits == SettingsInv => Fits(MigrateLegacyLocalStorageValue)
BY DEF SettingsInv, MigrateLegacyLocalStorageValue

LEMMA ShellPrepared ==
  ASSUME NEW p, Wears(p.v), Dressed(p.v, sysDark), Fits(p.here),
         p.here = Absent => MigrateLegacyLocalStorageValue = Absent,
         p.v.at \in Gone => spoilt
  PROVE  Prepared(RenderShell(p))
<1>1. PICK q : q = RenderShell(p)
  OBVIOUS
<1>2. /\ Wears(q.v) /\ Renders(q.v, p.v) /\ SameTheme(q.v, p.v)
      /\ Fits(q.here) /\ (q.here = Absent => p.here = Absent)
      /\ q.v.at = p.v.at \/ (q.v.at = "failed" /\ p.v.at = "dashboard")
      /\ Lands(p.v.at, q)
  BY <1>1, ShellRenders
<1>3. Dressed(q.v, sysDark)
  BY <1>2 DEF Dressed, Renders, SameTheme
<1>4. Prepared(q)
  BY <1>2, <1>3 DEF Prepared, Lands
<1> QED
  BY <1>1, <1>4

LEMMA ThemePrepared ==
  ASSUME NEW p, Wears(p.v), Fits(p.here), NEW theme \in Themes,
         p.v.chosen # "" => ThemeOf(p.v.chosen) = theme,
         p.here = Absent => MigrateLegacyLocalStorageValue = Absent,
         p.v.at \in Gone => spoilt
  PROVE  Prepared(RenderTheme(p, theme))
<1>1. PICK q : q = RenderTheme(p, theme)
  OBVIOUS
<1>2. /\ Wears(q.v) /\ Renders(q.v, p.v) /\ Dressed(q.v, sysDark)
      /\ Fits(q.here) /\ (q.here = Absent => p.here = Absent)
      /\ Lands(p.v.at, q)
  BY <1>1, ThemeRenders
<1>3. Prepared(q)
  BY <1>2 DEF Prepared, Lands
<1> QED
  BY <1>1, <1>3

LEMMA HereReads ==
  ASSUME SettingsInv, NEW v, Wears(v)
  PROVE  LET p == Here(v) IN p.v = v /\ Fits(p.here) /\ p.here = MigrateLegacyLocalStorageValue
BY MigratedFits DEF Here

LEMMA WindowHeld == ASSUME SettingsInv, NEW w \in Windows
  PROVE /\ Wears(win[w]) /\ Dressed(win[w], sysDark) /\ WindowOK(win[w], sysDark, MigrateLegacyLocalStorageValue)
        /\ win[w].at \in Gone => spoilt
BY DEF SettingsInv, WindowOK

LEMMA ThemesOf == \A x \in Schemes \cup {""} : ThemeOf(x) \in Themes
BY DEF ThemeOf, Themes

LEMMA OpenKeeps == ASSUME SettingsInv, NEW w \in Windows, OpenWindow(w) PROVE SettingsInv'
<1>1. PICK theme : theme = NormalizeStoredThemeMode(storedTheme)
  OBVIOUS
<1>2. PICK where \in {"login", "dashboard"} :
          Stores(w, RenderTheme(Here([ClosedWindow EXCEPT !.at = where, !.theme = theme]), theme))
  BY <1>1 DEF OpenWindow
<1>3. theme \in Themes
  BY <1>1 DEF SettingsInv, StoredThemes, NormalizeStoredThemeMode, Themes
<1>4. PICK v : v = [ClosedWindow EXCEPT !.at = where, !.theme = theme]
  OBVIOUS
<1>5. v = [at |-> where, raw |-> Absent, cached |-> DefaultFnaShellSettings, settings |-> DefaultFnaShellSettings,
           theme |-> theme, dark |-> FALSE, applied |-> Absent, pane |-> "none",
           list |-> Absent, importing |-> Absent, later |-> "", event |-> FALSE, chosen |-> ""]
  BY <1>4 DEF ClosedWindow
<1>6. WindowLine(v) /\ v.raw = Absent /\ v.cached = DefaultFnaShellSettings /\ v.settings = DefaultFnaShellSettings
        /\ v.list = Absent /\ v.importing = Absent /\ v.chosen = "" /\ v.at \notin Gone
  BY <1>3, <1>5 DEF WindowLine, Places, Gone
<1>7. Wears(v)
  BY <1>6, DefaultSettled, NothingRead DEF Wears
<1>8. PICK p : p = Here(v)
  OBVIOUS
<1>9. p.v = v /\ Fits(p.here) /\ p.here = MigrateLegacyLocalStorageValue
  BY <1>7, <1>8, HereReads
<1>10. Wears(p.v) /\ (p.v.chosen # "" => ThemeOf(p.v.chosen) = theme) /\ p.v.at \notin Gone
  BY <1>6, <1>7, <1>9
<1>11. PICK q : q = RenderTheme(p, theme)
  OBVIOUS
<1>12. Prepared(q)
  BY <1>3, <1>9, <1>10, <1>11, ThemePrepared
<1>13. Stores(w, q)
  BY <1>2, <1>4, <1>8, <1>11
<1>14. storedTheme' \in StoredThemes /\ UNCHANGED <<presets, sysDark>>
  BY DEF OpenWindow, SettingsInv, StoredThemes, Themes
<1> QED
  BY <1>12, <1>13, <1>14, StoresKeeps

\* One window changes, and nothing that is stored.
LEMMA OneKeeps ==
  ASSUME SettingsInv, NEW w \in Windows, NEW u, win' = [win EXCEPT ![w] = u],
         WindowOK(u, sysDark, MigrateLegacyLocalStorageValue), u.at \in Gone => spoilt,
         UNCHANGED <<storedSettings, spoilt, legacy, storedTheme, presets, sysDark>>
  PROVE  SettingsInv'
<1>1. PICK m : m = MigrateLegacyLocalStorageValue
  OBVIOUS
<1>2. MigrateLegacyLocalStorageValue' = m
  BY <1>1 DEF MigrateLegacyLocalStorageValue
<1>3. win' = [x \in Windows |-> IF x = w THEN u ELSE win[x]]
  BY DEF SettingsInv
<1>4. ASSUME NEW x \in Windows PROVE WindowOK(win[x], sysDark, MigrateLegacyLocalStorageValue)'
  <2>1. PICK v : v = win'[x]
    OBVIOUS
  <2>2. v = IF x = w THEN u ELSE win[x]
    BY <1>3, <2>1
  <2>3. WindowOK(v, sysDark, m)
    BY <1>1, <2>2 DEF SettingsInv
  <2> QED
    BY <1>2, <2>1, <2>3
<1>5. win' = [x \in Windows |-> win'[x]]
  BY <1>3
<1>6. \A x \in Windows : win'[x].at \in Gone => spoilt
  BY <1>3 DEF SettingsInv
<1> QED
  BY <1>1, <1>2, <1>4, <1>5, <1>6 DEF SettingsInv

LEMMA ClosedOK == \A d, here : WindowOK(ClosedWindow, d, here)
<1> TAKE d, here
<1>1. PICK v : v = ClosedWindow
  OBVIOUS
<1>2. WindowLine(v) /\ v.raw = Absent /\ v.cached = DefaultFnaShellSettings /\ v.settings = DefaultFnaShellSettings
        /\ v.list = Absent /\ v.importing = Absent /\ v.chosen = "" /\ v.at = "closed"
  BY <1>1 DEF WindowLine, ClosedWindow, Themes, Places
<1>3. Wears(v)
  BY <1>2, DefaultSettled, NothingRead DEF Wears
<1>4. WindowOK(v, d, here)
  BY <1>2, <1>3 DEF WindowOK, Dressed
<1> QED
  BY <1>1, <1>4

LEMMA CloseKeeps == ASSUME SettingsInv, NEW w \in Windows, CloseWindow(w) PROVE SettingsInv'
<1>1. WindowOK(ClosedWindow, sysDark, MigrateLegacyLocalStorageValue) /\ ClosedWindow.at \notin Gone
  BY ClosedOK DEF ClosedWindow, Gone
<1> QED
  BY <1>1, OneKeeps DEF CloseWindow

LEMMA EnterKeeps == ASSUME SettingsInv, NEW w \in Windows, EnterShell(w) PROVE SettingsInv'
<1>1. PICK v : v = win[w]
  OBVIOUS
<1>2. Wears(v) /\ Dressed(v, sysDark) /\ v.at \in {"login", "failed"}
  BY <1>1, WindowHeld DEF EnterShell
<1>3. PICK u : u = [v EXCEPT !.at = "dashboard"]
  OBVIOUS
<1>4. u \in [at : {"dashboard"}, raw : {v.raw}, cached : {v.cached}, settings : {v.settings}, theme : {v.theme},
             dark : {v.dark}, applied : {v.applied}, pane : {v.pane}, list : {v.list}, importing : {v.importing},
             later : {v.later}, event : {v.event}, chosen : {v.chosen}]
  BY <1>2, <1>3 DEF Wears, WindowLine
<1>5. WindowLine(v)
  BY <1>2 DEF Wears
<1>6. u \in [at : Places, raw : {v.raw}, cached : {v.cached}, settings : {v.settings},
             theme : Themes, dark : {u.dark}, applied : {u.applied}, pane : {u.pane}, list : {u.list},
             importing : {u.importing}, later : Themes \cup {""}, event : BOOLEAN, chosen : Schemes \cup {""}]
  BY <1>4, <1>5 DEF WindowLine, Places
<1>7. Wears(u)
  BY <1>2, <1>4, <1>6, FieldsHeld
<1>8. Dressed(u, sysDark)
  BY <1>2, <1>4 DEF Dressed
<1>9. PICK p : p = Here(u)
  OBVIOUS
<1>10. p.v = u /\ Fits(p.here) /\ p.here = MigrateLegacyLocalStorageValue
  BY <1>7, <1>9, HereReads
<1>11. PICK q : q = RenderShell(p)
  OBVIOUS
<1>12. Prepared(q)
  BY <1>4, <1>7, <1>8, <1>10, <1>11, ShellPrepared DEF Gone
<1>13. Stores(w, q) /\ UNCHANGED <<storedTheme, presets, sysDark>>
  BY <1>1, <1>3, <1>9, <1>11 DEF EnterShell
<1>14. storedTheme' \in StoredThemes
  BY <1>13 DEF SettingsInv
<1> QED
  BY <1>12, <1>13, <1>14, StoresKeeps

LEMMA LeaveKeeps == ASSUME SettingsInv, NEW w \in Windows, LeaveShell(w) PROVE SettingsInv'
<1>1. PICK v : v = win[w]
  OBVIOUS
<1>2. Wears(v) /\ Dressed(v, sysDark) /\ v.at \in {"dashboard", "failed"}
  BY <1>1, WindowHeld DEF LeaveShell
<1>3. PICK u : u = [v EXCEPT !.at = "login", !.pane = "none"]
  OBVIOUS
<1>4. u \in [at : {"login"}, raw : {v.raw}, cached : {v.cached}, settings : {v.settings}, theme : {v.theme},
             dark : {v.dark}, applied : {v.applied}, pane : {u.pane}, list : {v.list}, importing : {v.importing},
             later : {v.later}, event : {v.event}, chosen : {v.chosen}]
  BY <1>2, <1>3 DEF Wears, WindowLine
<1>5. WindowLine(v)
  BY <1>2 DEF Wears
<1>6. u \in [at : Places, raw : {v.raw}, cached : {v.cached}, settings : {v.settings},
             theme : Themes, dark : {u.dark}, applied : {u.applied}, pane : {u.pane}, list : {u.list},
             importing : {u.importing}, later : Themes \cup {""}, event : BOOLEAN, chosen : Schemes \cup {""}]
  BY <1>4, <1>5 DEF WindowLine, Places
<1>7. Wears(u)
  BY <1>2, <1>4, <1>6, FieldsHeld
<1>8. WindowOK(u, sysDark, MigrateLegacyLocalStorageValue) /\ u.at \notin Gone
  BY <1>2, <1>4, <1>7 DEF WindowOK, Dressed, Gone
<1>9. win' = [win EXCEPT ![w] = u] /\ UNCHANGED <<storedSettings, spoilt, legacy, storedTheme, presets, sysDark>>
  BY <1>1, <1>3 DEF LeaveShell, SettingsInv
<1> QED
  BY <1>8, <1>9, OneKeeps

LEMMA EventKeeps == ASSUME SettingsInv, NEW w \in Windows, StorageEvent(w) PROVE SettingsInv'
<1>1. PICK v : v = win[w]
  OBVIOUS
<1>2. /\ Wears(v) /\ Dressed(v, sysDark) /\ WindowOK(v, sysDark, MigrateLegacyLocalStorageValue)
      /\ v.at \in Gone => spoilt
  BY <1>1, WindowHeld
<1>3. UNCHANGED <<storedTheme, presets, sysDark>>
  BY DEF StorageEvent
<1>4. CASE v.at # "dashboard"
  <2>1. PICK u : u = [v EXCEPT !.event = FALSE]
    OBVIOUS
  <2>2. WindowOK(u, sysDark, MigrateLegacyLocalStorageValue) /\ u.at = v.at
    BY <1>2, <1>4, <2>1, EventOK
  <2>3. win' = [win EXCEPT ![w] = u] /\ UNCHANGED <<storedSettings, spoilt, legacy>>
    BY <1>1, <1>4, <2>1 DEF StorageEvent, SettingsInv
  <2> QED
    BY <1>2, <1>3, <2>2, <2>3, OneKeeps
<1>5. CASE v.at = "dashboard"
  <2>1. PICK u : u = [v EXCEPT !.event = FALSE, !.raw = Undefined]
    OBVIOUS
  <2>2. u \in [at : {v.at}, raw : {Undefined}, cached : {v.cached}, settings : {v.settings}, theme : {v.theme},
               dark : {v.dark}, applied : {v.applied}, pane : {v.pane}, list : {v.list}, importing : {v.importing},
               later : {v.later}, event : {FALSE}, chosen : {v.chosen}]
    BY <1>2, <2>1 DEF Wears, WindowLine
  <2>3. WindowLine(v)
    BY <1>2 DEF Wears
  <2>4. WindowLine(u) /\ u.raw = Undefined /\ u.settings = v.settings /\ u.list = v.list /\ u.importing = v.importing
    BY <2>2, <2>3 DEF WindowLine
  <2>5. Wears(u)
    BY <1>2, <2>4, NothingRead DEF Wears
  <2>6. Dressed(u, sysDark)
    BY <1>2, <2>2 DEF Dressed
  <2>7. PICK p : p = Here(u)
    OBVIOUS
  <2>8. p.v = u /\ Fits(p.here) /\ p.here = MigrateLegacyLocalStorageValue
    BY <2>5, <2>7, HereReads
  <2>9. PICK q : q = RenderShell(p)
    OBVIOUS
  <2>10. Prepared(q)
    BY <1>5, <2>2, <2>5, <2>6, <2>8, <2>9, ShellPrepared DEF Gone
  <2>11. Stores(w, q)
    BY <1>1, <1>5, <2>1, <2>7, <2>9 DEF StorageEvent
  <2>12. storedTheme' \in StoredThemes
    BY <1>3 DEF SettingsInv
  <2> QED
    BY <1>3, <2>10, <2>11, <2>12, StoresKeeps
<1> QED
  BY <1>4, <1>5

LEMMA AgainKeeps == ASSUME SettingsInv, NEW w \in Windows, RendersAgain(w) PROVE SettingsInv'
<1>1. PICK v : v = win[w]
  OBVIOUS
<1>2. Wears(v) /\ Dressed(v, sysDark) /\ (v.at \in Gone => spoilt)
  BY <1>1, WindowHeld
<1>3. PICK p : p = Here(v)
  OBVIOUS
<1>4. p.v = v /\ Fits(p.here) /\ p.here = MigrateLegacyLocalStorageValue
  BY <1>2, <1>3, HereReads
<1>5. PICK q : q = RenderShell(p)
  OBVIOUS
<1>6. Prepared(q)
  BY <1>2, <1>4, <1>5, ShellPrepared
<1>7. Stores(w, q) /\ UNCHANGED <<storedTheme, presets, sysDark>>
  BY <1>1, <1>3, <1>5 DEF RendersAgain
<1>8. storedTheme' \in StoredThemes
  BY <1>7 DEF SettingsInv
<1> QED
  BY <1>6, <1>7, <1>8, StoresKeeps

LEMMA SystemKeeps == ASSUME SettingsInv, SystemThemeChanges PROVE SettingsInv'
<1>1. PICK m : m = MigrateLegacyLocalStorageValue
  OBVIOUS
<1>2. PICK d : d = sysDark'
  OBVIOUS
<1>3. PICK was : was = win
  OBVIOUS
<1>4. UNCHANGED <<storedSettings, spoilt, legacy, storedTheme, presets>>
  BY DEF SystemThemeChanges
<1>5. MigrateLegacyLocalStorageValue' = m
  BY <1>1, <1>4 DEF MigrateLegacyLocalStorageValue
<1>6. win' = [w \in Windows |->
          IF was[w].at \in {"closed", "dead"} \/ was[w].theme # "system" THEN was[w]
          ELSE LET v == ReadFnaShellSettings([was[w] EXCEPT !.dark = d], m)
               IN  IF v.cached.header = Null THEN DiesPainting(v) ELSE ApplyFnaShellCss(v, v.cached)]
  BY <1>1, <1>2, <1>3 DEF SystemThemeChanges
<1>7. Fits(m)
  BY <1>1, MigratedFits
<1>8. ASSUME NEW w \in Windows
      PROVE  WindowOK(win[w], sysDark, MigrateLegacyLocalStorageValue)' /\ (win'[w].at \in Gone => spoilt)
  <2>1. PICK v : v = was[w]
    OBVIOUS
  <2>2. PICK z : z = win'[w]
    OBVIOUS
  <2>3. Wears(v) /\ Dressed(v, sysDark) /\ WindowOK(v, sysDark, m) /\ (v.at \in Gone => spoilt)
    BY <1>1, <1>3, <2>1, WindowHeld
  <2>4. CASE v.at \in {"closed", "dead"} \/ v.theme # "system"
    <3>1. z = v
      BY <1>6, <2>1, <2>2, <2>4
    <3>2. Dressed(v, d)
      BY <2>3, <2>4 DEF Dressed, DarkOf
    <3>3. WindowOK(z, d, m)
      BY <2>3, <3>1, <3>2 DEF WindowOK
    <3> QED
      BY <3>1, <3>3, <1>2, <1>5, <2>2, <2>3
  <2>5. CASE ~(v.at \in {"closed", "dead"} \/ v.theme # "system")
    <3>1. PICK a : a = [v EXCEPT !.dark = d]
      OBVIOUS
    <3>2. WindowLine(v)
      BY <2>3 DEF Wears
    <3>3. Renders(a, v) /\ a.dark = d /\ a.raw = v.raw /\ a.cached = v.cached /\ a.settings = v.settings
            /\ a.theme = v.theme /\ a.later = v.later /\ a.at = v.at
      BY <3>1, <3>2 DEF Renders, WindowLine
    <3>4. WindowLine(a)
      BY <3>2, <3>3 DEF WindowLine, Renders
    <3>5. Wears(a)
      BY <2>3, <3>3, <3>4 DEF Wears, Renders
    <3>6. PICK b : b = ReadFnaShellSettings(a, m)
      OBVIOUS
    <3>7. Renders(b, a) /\ SameTheme(b, a) /\ Current(b, m) /\ b.settings = a.settings /\ b.at = a.at
      BY <1>7, <3>5, <3>6, ReadReads
    <3>8. Renders(b, v)
      BY <3>3, <3>7 DEF Renders
    <3>9. PICK c : c = b.cached
      OBVIOUS
    <3>10. CASE c.header # Null
      <4>1. z = ApplyFnaShellCss(b, c)
        BY <1>6, <2>1, <2>2, <2>5, <3>1, <3>6, <3>9, <3>10
      <4>2. /\ Renders(z, v) /\ SameTheme(z, b) /\ z.raw = b.raw /\ z.cached = b.cached /\ z.settings = b.settings
            /\ z.at = b.at
            /\ z.applied = [settings |-> c, dark |-> ResolveShellIsDark(c, z.dark)]
        BY <3>8, <4>1, CssPaints
      <4>3. Current(z, m)
        BY <3>7, <4>2 DEF Current
      <4>4. z.theme = v.theme /\ z.later = v.later /\ z.dark = d /\ z.settings = v.settings /\ z.at = v.at
        BY <3>3, <3>7, <4>2 DEF SameTheme
      <4>5. Wears(z)
        BY <1>7, <2>3, <3>2, <4>2, <4>3, <4>4, HeldAfter DEF WindowLine
      <4>6. Dressed(z, d)
        BY <2>3, <2>5, <4>2, <4>4 DEF Dressed, DarkOf, Renders
      <4>7. ASSUME z.at = "dashboard", ~z.event PROVE CanShow(m) /\ Painted(z, NormalizeFnaShellSettings(m))
        <5>1. v.at = "dashboard" /\ ~v.event
          BY <4>2, <4>4, <4>7 DEF Renders
        <5>2. CanShow(m) /\ Painted(v, NormalizeFnaShellSettings(m))
          BY <2>3, <5>1 DEF WindowOK
        <5>3. z.cached = NormalizeFnaShellSettings(m) /\ c = z.cached
          BY <3>9, <4>2, <4>3 DEF Current
        <5> QED
          BY <5>2, <5>3, <4>2, <4>4 DEF Painted
      <4>8. WindowOK(z, d, m)
        BY <4>5, <4>6, <4>7 DEF WindowOK
      <4> QED
        BY <4>4, <4>8, <1>2, <1>5, <2>2, <2>3
    <3>11. CASE c.header = Null
      <4>1. z = [b EXCEPT !.at = "dead", !.pane = "none"]
        BY <1>6, <2>1, <2>2, <2>5, <3>1, <3>6, <3>9, <3>11 DEF DiesPainting
      <4>2. /\ Renders(z, v) /\ z.raw = b.raw /\ z.cached = b.cached /\ z.settings = b.settings /\ z.at = "dead"
            /\ z.theme = b.theme /\ z.later = b.later
        BY <3>8, <4>1 DEF Renders, Gone
      <4>3. Current(z, m)
        BY <3>7, <4>2 DEF Current
      <4>4. z.theme = v.theme /\ z.later = v.later /\ z.settings = v.settings
        BY <3>3, <3>7, <4>2 DEF SameTheme
      <4>5. Wears(z)
        BY <1>7, <2>3, <3>2, <4>2, <4>3, <4>4, HeldAfter DEF WindowLine
      <4>6. Dressed(z, d)
        BY <2>3, <4>2, <4>4 DEF Dressed, Renders
      <4>7. WindowOK(z, d, m)
        BY <4>2, <4>5, <4>6 DEF WindowOK
      <4>8. spoilt
        <5>1. ~CanShow(m)
          BY <3>7, <3>9, <3>11 DEF Current, CanShow
        <5> QED
          BY <1>1, <5>1 DEF SettingsInv
      <4> QED
        BY <4>7, <4>8, <1>2, <1>5, <2>2
    <3> QED
      BY <3>10, <3>11
  <2> QED
    BY <2>4, <2>5
<1>9. win' = [w \in Windows |-> win'[w]]
  BY <1>6
<1> QED
  BY <1>1, <1>4, <1>5, <1>8, <1>9 DEF SettingsInv

LEMMA WrittenPrepared ==
  ASSUME SettingsInv, NEW u, Wears(u), NEW s, Full(s), NEW theme \in Themes, ThemeOf(u.chosen) = theme,
         u.at \in Gone => spoilt
  PROVE  Prepared(RenderTheme(WriteFnaShellSettings(Here(u), s), theme))
<1>1. PICK p : p = Here(u)
  OBVIOUS
<1>2. p.v = u
  BY <1>1, HereReads
<1>3. PICK r : r = WriteFnaShellSettings(p, s)
  OBVIOUS
<1>4. Wears(p.v)
  BY <1>2
<1>5. Wears(r.v) /\ Renders(r.v, p.v) /\ r.v.at = p.v.at /\ Fits(r.here) /\ r.here # Absent
  BY <1>3, <1>4, WriteWrites
<1>6. r.v.chosen = u.chosen
  BY <1>2, <1>5 DEF Renders
<1>7. r.v.chosen # "" => ThemeOf(r.v.chosen) = theme
  BY <1>6
<1>8. Prepared(RenderTheme(r, theme))
  BY <1>2, <1>5, <1>7, ThemePrepared
<1> QED
  BY <1>1, <1>3, <1>8

LEMMA PatchKeeps ==
  ASSUME SettingsInv, NEW w \in Windows, NEW v, Wears(v), NEW next, Full(next), Patch(w, v, next),
         v.at \in Gone => spoilt, UNCHANGED <<presets, sysDark>>
  PROVE  SettingsInv'
<1>1. PICK theme : theme = ThemeOf(next.scheme)
  OBVIOUS
<1>2. next.scheme \in Schemes
  BY DEF Full
<1>3. theme \in Themes
  BY <1>1, <1>2, ThemesOf
<1>4. PICK u : u = [v EXCEPT !.chosen = next.scheme]
  OBVIOUS
<1>5. WindowLine(v)
  BY DEF Wears
<1>6. /\ u \in [at : Places, raw : {v.raw}, cached : {v.cached}, settings : {v.settings},
                theme : Themes, dark : {u.dark}, applied : {u.applied}, pane : {u.pane}, list : {u.list},
                importing : {u.importing}, later : Themes \cup {""}, event : BOOLEAN, chosen : Schemes \cup {""}]
      /\ u.list = v.list /\ u.importing = v.importing /\ u.chosen = next.scheme /\ u.at = v.at
  BY <1>2, <1>4, <1>5 DEF WindowLine
<1>7. Wears(u)
  BY <1>6, FieldsHeld
<1>8. ThemeOf(u.chosen) = theme
  BY <1>1, <1>6
<1>9. PICK q : q = RenderTheme(WriteFnaShellSettings(Here(u), next), theme)
  OBVIOUS
<1>10. Prepared(q)
  BY <1>3, <1>6, <1>7, <1>8, <1>9, WrittenPrepared
<1>11. Stores(w, q) /\ storedTheme' = theme
  BY <1>1, <1>4, <1>9 DEF Patch
<1>12. storedTheme' \in StoredThemes
  BY <1>3, <1>11 DEF StoredThemes
<1> QED
  BY <1>10, <1>11, <1>12, StoresKeeps

LEMMA ToggleKeeps == ASSUME SettingsInv, NEW w \in Windows, ToggleTheme(w) PROVE SettingsInv'
<1>1. PICK v : v = win[w]
  OBVIOUS
<1>2. Wears(v) /\ (v.at \in Gone => spoilt)
  BY <1>1, WindowHeld
<1>3. PICK theme : theme = IF v.theme = "graphite" THEN "fna" ELSE "graphite"
  OBVIOUS
<1>4. PICK here : here = Here(v).here
  OBVIOUS
<1>5. Fits(here)
  BY <1>2, <1>4, HereReads
<1>6. PICK base : base = IF v.at = "login" THEN ReadFnaShellSettings(v, here).cached ELSE v.settings
  OBVIOUS
<1>7. Full(base)
  <2>1. PICK b : b = ReadFnaShellSettings(v, here)
    OBVIOUS
  <2>2. Current(b, here)
    BY <1>2, <1>5, <2>1, ReadReads
  <2>3. Settled(b.cached)
    BY <1>5, <2>2, Normal DEF Current
  <2> QED
    BY <1>2, <1>6, <2>1, <2>3 DEF Wears, Settled
<1>8. PICK x : x = IF theme = "graphite" THEN "dark" ELSE "light"
  OBVIOUS
<1>9. PICK next : next = [base EXCEPT !.scheme = x]
  OBVIOUS
<1>10. Full(next) /\ next.scheme = x
  BY <1>7, <1>8, <1>9 DEF Full, Schemes
<1>11. PICK d : d = ClassIsDark(theme)
  OBVIOUS
<1>12. PICK a : a = [v EXCEPT !.dark = d]
  OBVIOUS
<1>13. PICK u : u = [a EXCEPT !.chosen = x]
  OBVIOUS
<1>14. WindowLine(v)
  BY <1>2 DEF Wears
<1>15. /\ u \in [at : Places, raw : {v.raw}, cached : {v.cached}, settings : {v.settings},
                 theme : Themes, dark : {u.dark}, applied : {u.applied}, pane : {u.pane}, list : {u.list},
                 importing : {u.importing}, later : Themes \cup {""}, event : BOOLEAN, chosen : Schemes \cup {""}]
       /\ u.list = v.list /\ u.importing = v.importing /\ u.chosen = x /\ u.at = v.at
  BY <1>8, <1>12, <1>13, <1>14 DEF WindowLine, Schemes
<1>16. Wears(u)
  BY <1>2, <1>15, FieldsHeld
<1>17. theme \in Themes /\ ThemeOf(u.chosen) = theme
  BY <1>3, <1>8, <1>15 DEF Themes, ThemeOf
<1>18. PICK q : q = RenderTheme(WriteFnaShellSettings(Here(u), next), theme)
  OBVIOUS
<1>19. Prepared(q)
  BY <1>2, <1>10, <1>15, <1>16, <1>17, <1>18, WrittenPrepared
<1>20. u = [ApplyTheme(v, theme) EXCEPT !.chosen = next.scheme]
  BY <1>10, <1>11, <1>12, <1>13 DEF ApplyTheme
<1>21. Stores(w, q) /\ storedTheme' = theme /\ UNCHANGED <<presets, sysDark>>
  BY <1>1, <1>3, <1>4, <1>6, <1>8, <1>9, <1>18, <1>20 DEF ToggleTheme
<1>22. storedTheme' \in StoredThemes
  BY <1>17, <1>21 DEF StoredThemes
<1> QED
  BY <1>19, <1>21, <1>22, StoresKeeps

LEMMA SetThemeKeeps == ASSUME SettingsInv, NEW w \in Windows, SetTheme(w) PROVE SettingsInv'
<1>1. PICK v : v = win[w]
  OBVIOUS
<1>2. Wears(v) /\ (v.at \in Gone => spoilt)
  BY <1>1, WindowHeld
<1>3. PICK u : u = [v EXCEPT !.chosen = ""]
  OBVIOUS
<1>4. PICK theme \in Themes : storedTheme' = theme /\ Stores(w, RenderTheme(Here(u), theme))
  BY <1>1, <1>3 DEF SetTheme, Themes
<1>5. WindowLine(v)
  BY <1>2 DEF Wears
<1>6. /\ u \in [at : Places, raw : {v.raw}, cached : {v.cached}, settings : {v.settings},
                theme : Themes, dark : {u.dark}, applied : {u.applied}, pane : {u.pane}, list : {u.list},
                importing : {u.importing}, later : Themes \cup {""}, event : BOOLEAN, chosen : Schemes \cup {""}]
      /\ u.list = v.list /\ u.importing = v.importing /\ u.chosen = "" /\ u.at = v.at
  BY <1>3, <1>5 DEF WindowLine
<1>7. Wears(u)
  BY <1>2, <1>6, FieldsHeld
<1>8. PICK p : p = Here(u)
  OBVIOUS
<1>9. p.v = u /\ Fits(p.here) /\ p.here = MigrateLegacyLocalStorageValue
  BY <1>7, <1>8, HereReads
<1>10. Wears(p.v) /\ p.v.chosen = "" /\ (p.v.at \in Gone => spoilt)
  BY <1>2, <1>6, <1>7, <1>9
<1>11. PICK q : q = RenderTheme(p, theme)
  OBVIOUS
<1>12. Prepared(q)
  BY <1>9, <1>10, <1>11, ThemePrepared
<1>13. Stores(w, q) /\ UNCHANGED <<presets, sysDark>> /\ storedTheme' \in StoredThemes
  BY <1>4, <1>8, <1>11 DEF SetTheme, StoredThemes
<1> QED
  BY <1>12, <1>13, StoresKeeps

LEMMA CommitKeeps == ASSUME SettingsInv, NEW w \in Windows, ThemeCommits(w) PROVE SettingsInv'
<1>1. PICK v : v = win[w]
  OBVIOUS
<1>2. Wears(v) /\ Dressed(v, sysDark) /\ (v.at \in Gone => spoilt)
  BY <1>1, WindowHeld
<1>3. PICK theme : theme = v.later
  OBVIOUS
<1>4. theme \in Themes
  BY <1>1, <1>2, <1>3 DEF ThemeCommits, Wears, WindowLine
<1>5. PICK p : p = Here(v)
  OBVIOUS
<1>6. p.v = v /\ Fits(p.here) /\ p.here = MigrateLegacyLocalStorageValue
  BY <1>2, <1>5, HereReads
<1>7. v.chosen # "" => ThemeOf(v.chosen) = theme
  BY <1>1, <1>2, <1>3 DEF ThemeCommits, Dressed
<1>8. Wears(p.v) /\ (p.v.chosen # "" => ThemeOf(p.v.chosen) = theme) /\ (p.v.at \in Gone => spoilt)
  BY <1>2, <1>6, <1>7
<1>9. PICK q : q = RenderTheme(p, theme)
  OBVIOUS
<1>10. Prepared(q)
  BY <1>4, <1>6, <1>8, <1>9, ThemePrepared
<1>11. Stores(w, q) /\ UNCHANGED <<storedTheme, presets, sysDark>>
  BY <1>1, <1>3, <1>5, <1>9 DEF ThemeCommits
<1>12. storedTheme' \in StoredThemes
  BY <1>11 DEF SettingsInv
<1> QED
  BY <1>10, <1>11, <1>12, StoresKeeps

LEMMA PaneKeeps == ASSUME SettingsInv, NEW w \in Windows, OpenPane(w) PROVE SettingsInv'
<1>1. PICK v : v = win[w]
  OBVIOUS
<1>2. Wears(v) /\ WindowOK(v, sysDark, MigrateLegacyLocalStorageValue) /\ (v.at \in Gone => spoilt)
  BY <1>1, WindowHeld
<1>3. PICK pane : win' = [win EXCEPT ![w].pane = pane, ![w].list = IF pane = "presets" THEN presets ELSE Absent]
  BY DEF OpenPane
<1>4. PICK l : l = IF pane = "presets" THEN presets ELSE Absent
  OBVIOUS
<1>5. l = Absent \/ Settled(l)
  BY <1>4 DEF SettingsInv
<1>6. PICK u : u = [v EXCEPT !.pane = pane, !.list = l]
  OBVIOUS
<1>7. u \in [at : {v.at}, raw : {v.raw}, cached : {v.cached}, settings : {v.settings}, theme : {v.theme},
             dark : {v.dark}, applied : {v.applied}, pane : {u.pane}, list : {l}, importing : {v.importing},
             later : {v.later}, event : {v.event}, chosen : {v.chosen}]
  BY <1>2, <1>6 DEF Wears, WindowLine
<1>8. WindowLine(v)
  BY <1>2 DEF Wears
<1>9. u \in [at : Places, raw : {v.raw}, cached : {v.cached}, settings : {v.settings},
             theme : Themes, dark : {u.dark}, applied : {u.applied}, pane : {u.pane}, list : {u.list},
             importing : {u.importing}, later : Themes \cup {""}, event : BOOLEAN, chosen : Schemes \cup {""}]
  BY <1>7, <1>8 DEF WindowLine
<1>10. Wears(u)
  <2>1. Wears(v) /\ (u.list = Absent \/ Settled(u.list)) /\ u.importing = v.importing
    BY <1>2, <1>5, <1>7
  <2> QED
    BY <2>1, <1>9, FieldsHeld
<1>11. WindowOK(u, sysDark, MigrateLegacyLocalStorageValue) /\ (u.at \in Gone => spoilt)
  BY <1>2, <1>7, <1>10 DEF WindowOK, Dressed, Painted
<1>12. win' = [win EXCEPT ![w] = u]
  BY <1>1, <1>3, <1>4, <1>6 DEF SettingsInv
<1>13. UNCHANGED <<storedSettings, spoilt, legacy, storedTheme, presets, sysDark>>
  BY DEF OpenPane
<1> QED
  BY <1>11, <1>12, <1>13, OneKeeps

\* The controls ask for whole settings, and presets fit.
LEMMA ControlsFull ==
  ASSUME NEW s, Full(s), NEW next \in AppearancePane(s) \cup LayoutPane(s)
  PROVE  Full(next)
<1>1. CASE next \in ThemeModeSelector(s)
  BY <1>1 DEF Full, ThemeModeSelector, Schemes
<1>6. CASE next \in ThemeColorPicker(s)
  <2>1. PICK c : next = [s EXCEPT !.color = c, !.info = IF s.follow THEN c ELSE s.info]
    BY <1>6 DEF ThemeColorPicker
  <2>2. PICK i : i = IF s.follow THEN c ELSE s.info
    OBVIOUS
  <2>3. next = [s EXCEPT !.color = c, !.info = i]
    BY <2>1, <2>2
  <2> QED
    BY <2>3 DEF Full
<1>7. CASE next \in ColorSwatch(s)
  <2>1. PICK c : next = [s EXCEPT !.info = c]
    BY <1>7 DEF ColorSwatch
  <2> QED
    BY <2>1 DEF Full
<1>2. CASE next \in FollowSwitch(s)
  <2>1. PICK b : b = ~s.follow
    OBVIOUS
  <2>2. PICK i : i = IF s.follow THEN s.info ELSE s.color
    OBVIOUS
  <2>3. next = [s EXCEPT !.follow = b, !.info = i]
    BY <1>2, <2>1, <2>2 DEF FollowSwitch
  <2>4. b \in BOOLEAN
    BY <2>1
  <2> QED
    BY <2>3, <2>4 DEF Full
<1>3. CASE next \in DarkSiderSwitch(s)
  <2>1. PICK b : b = ~s.sider
    OBVIOUS
  <2>2. next = [s EXCEPT !.sider = b]
    BY <1>3, <2>1 DEF DarkSiderSwitch
  <2>3. b \in BOOLEAN
    BY <2>1
  <2> QED
    BY <2>2, <2>3 DEF Full
<1>4. CASE next \in PlainSelectors(s)
  <2>1. PICK b : b = ~s.plain
    OBVIOUS
  <2>2. next = [s EXCEPT !.plain = b]
    BY <1>4, <2>1 DEF PlainSelectors
  <2>3. b \in BOOLEAN
    BY <2>1
  <2> QED
    BY <2>2, <2>3 DEF Full
<1>5. CASE next \in LayoutModeCard(s) \cup NumberField(s)
  BY <1>5 DEF Full, LayoutModeCard, NumberField
<1> QED
  BY <1>1, <1>2, <1>3, <1>4, <1>5, <1>6, <1>7 DEF AppearancePane, LayoutPane

LEMMA PresetFull ==
  ASSUME NEW s, Settled(s), NEW preset, Fits(preset), preset # Absent
  PROVE  Full(ApplyPresetToSettings(preset, s))
<1>1. PICK m : m = MergeDeep(s, preset)
  OBVIOUS
<1>2. Full(m)
  BY <1>1, Merged DEF Settled
<1>3. Settled(NormalizeFnaShellSettings(m))
  BY <1>2, FullFits, Normal
<1> QED
  BY <1>1, <1>3 DEF ApplyPresetToSettings, Settled

LEMMA BuiltinFits == \A preset \in BuiltinPresets : Fits(preset) /\ preset # Absent
<1> TAKE preset \in BuiltinPresets
<1>1. CASE preset = [scheme |-> "auto", color |-> "blue", mode |-> "normal", width |-> 256, menu |-> "light",
                     sider |-> FALSE]
  BY <1>1 DEF Fits, Absent, Undefined, Schemes
<1>2. CASE preset = [scheme |-> "dark", color |-> "blue", menu |-> "light", sider |-> TRUE]
  BY <1>2 DEF Fits, Absent, Undefined, Schemes
<1> QED
  BY <1>1, <1>2, Zenon DEF BuiltinPresets

LEMMA ImportFits == \A preset \in ParseImportedPreset : Fits(preset) /\ preset # Absent
BY DEF ParseImportedPreset, Fits, Absent, Undefined, Unreadable, Schemes

LEMMA ChangeKeeps == ASSUME SettingsInv, NEW w \in Windows, ChangeSetting(w) PROVE SettingsInv'
<1>1. PICK v : v = win[w]
  OBVIOUS
<1>2. Wears(v) /\ Settled(v.settings) /\ (v.at \in Gone => spoilt)
  BY <1>1, WindowHeld DEF Wears
<1>3. UNCHANGED <<presets, sysDark>>
  BY DEF ChangeSetting
<1>4. ASSUME NEW next \in AppearancePane(v.settings) \cup LayoutPane(v.settings), Patch(w, v, next)
      PROVE  SettingsInv'
  <2>1. PICK s : s = v.settings
    OBVIOUS
  <2>2. Full(s) /\ next \in AppearancePane(s) \cup LayoutPane(s)
    BY <1>2, <2>1 DEF Settled
  <2>3. Full(next)
    BY <2>2, ControlsFull
  <2> QED
    BY <1>2, <1>3, <1>4, <2>3, PatchKeeps
<1>5. ASSUME NEW preset \in BuiltinPresets \cup (IF v.list = Absent THEN {} ELSE {v.list}),
             Patch(w, v, ApplyPresetToSettings(preset, v.settings))
      PROVE  SettingsInv'
  <2>1. PICK next : next = ApplyPresetToSettings(preset, v.settings)
    OBVIOUS
  <2>2. Fits(preset) /\ preset # Absent
    <3>1. CASE preset \in BuiltinPresets
      BY <3>1, BuiltinFits
    <3>2. CASE v.list # Absent /\ preset = v.list
      BY <1>2, <3>2, FullFits DEF Wears, Settled
    <3> QED
      BY <1>5, <3>1, <3>2
  <2>3. Full(next)
    BY <1>2, <2>1, <2>2, PresetFull
  <2>4. Patch(w, v, next)
    BY <1>5, <2>1
  <2> QED
    BY <1>2, <1>3, <2>3, <2>4, PatchKeeps
<1> QED
  BY <1>1, <1>4, <1>5 DEF ChangeSetting

LEMMA ResetKeeps == ASSUME SettingsInv, NEW w \in Windows, ResetConfig(w) PROVE SettingsInv'
<1>1. PICK v : v = win[w]
  OBVIOUS
<1>2. Wears(v) /\ (v.at \in Gone => spoilt)
  BY <1>1, WindowHeld
<1>3. PICK next : next = DefaultFnaShellSettings
  OBVIOUS
<1>4. Full(next)
  BY <1>3, DefaultSettled DEF Settled
<1>5. Patch(w, v, next) /\ UNCHANGED <<presets, sysDark>>
  BY <1>1, <1>3 DEF ResetConfig
<1> QED
  BY <1>2, <1>4, <1>5, PatchKeeps

\* Presets: the others hear, and the list of this window is the new one.
LEMMA SavesKeeps ==
  ASSUME SettingsInv, NEW w \in Windows, NEW v, v = win[w], NEW preset, preset = Absent \/ Settled(preset),
         SavesPreset(w, v, preset), UNCHANGED <<storedSettings, spoilt, legacy, storedTheme, sysDark>>
  PROVE  SettingsInv'
<1>1. PICK m : m = MigrateLegacyLocalStorageValue
  OBVIOUS
<1>2. MigrateLegacyLocalStorageValue' = m
  BY <1>1 DEF MigrateLegacyLocalStorageValue
<1>3. PICK was : was = win
  OBVIOUS
<1>4. PICK old : old = presets
  OBVIOUS
<1>5. presets' = preset
  BY DEF SavesPreset
<1>6. win' = [x \in Windows |-> IF x = w THEN [v EXCEPT !.list = preset]
                                ELSE IF old # preset
                                     THEN (IF was[x].at = "closed" THEN was[x] ELSE [was[x] EXCEPT !.event = TRUE])
                                     ELSE was[x]]
  BY <1>3, <1>4 DEF SavesPreset, Hears
<1>7. PICK d : d = sysDark
  OBVIOUS
<1>8. ASSUME NEW x \in Windows
      PROVE  WindowOK(win[x], sysDark, MigrateLegacyLocalStorageValue)' /\ (win'[x].at \in Gone => spoilt)
  <2>1. PICK z : z = win'[x]
    OBVIOUS
  <2>2. CASE x = w
    <3>1. Wears(v) /\ WindowOK(v, d, m) /\ (v.at \in Gone => spoilt)
      BY <1>1, <1>7, WindowHeld
    <3>2. z = [v EXCEPT !.list = preset]
      BY <1>6, <2>1, <2>2
    <3>3. z \in [at : {v.at}, raw : {v.raw}, cached : {v.cached}, settings : {v.settings}, theme : {v.theme},
                 dark : {v.dark}, applied : {v.applied}, pane : {v.pane}, list : {preset}, importing : {v.importing},
                 later : {v.later}, event : {v.event}, chosen : {v.chosen}]
      BY <3>1, <3>2 DEF Wears, WindowLine
    <3>4. WindowLine(v)
      BY <3>1 DEF Wears
    <3>5. z \in [at : Places, raw : {v.raw}, cached : {v.cached}, settings : {v.settings},
                 theme : Themes, dark : {z.dark}, applied : {z.applied}, pane : {z.pane}, list : {z.list},
                 importing : {z.importing}, later : Themes \cup {""}, event : BOOLEAN, chosen : Schemes \cup {""}]
      BY <3>3, <3>4 DEF WindowLine
    <3>6. (z.list = Absent \/ Settled(z.list)) /\ z.importing = v.importing
      BY <3>3
    <3>7. Wears(z)
      BY <3>1, <3>5, <3>6, FieldsHeld
    <3>8. WindowOK(z, d, m)
      BY <3>1, <3>3, <3>7 DEF WindowOK, Dressed, Painted
    <3> QED
      BY <3>1, <3>3, <3>8, <2>1, <1>2, <1>7
  <2>3. CASE x # w
    <3>1. PICK y : y = was[x]
      OBVIOUS
    <3>2. WindowOK(y, d, m) /\ (y.at \in Gone => spoilt)
      BY <1>1, <1>3, <1>7, <3>1, WindowHeld
    <3>3. z = y \/ z = (IF y.at = "closed" THEN y ELSE [y EXCEPT !.event = TRUE])
      BY <1>6, <2>1, <2>3, <3>1
    <3>4. WindowOK(z, d, m) /\ z.at = y.at
      BY <3>2, <3>3, OthersHear
    <3> QED
      BY <3>2, <3>4, <2>1, <1>2, <1>7
  <2> QED
    BY <2>2, <2>3
<1>9. win' = [x \in Windows |-> win'[x]]
  BY <1>6
<1> QED
  BY <1>1, <1>2, <1>5, <1>8, <1>9 DEF SettingsInv

LEMMA PresetsKeep ==
  ASSUME SettingsInv, NEW w \in Windows, AddCustomPreset(w) \/ RemoveCustomPreset(w)
  PROVE  SettingsInv'
<1>1. PICK v : v = win[w]
  OBVIOUS
<1>2. Settled(v.settings)
  BY <1>1, WindowHeld DEF Wears
<1>3. PICK preset : preset = IF AddCustomPreset(w) THEN v.settings ELSE Absent
  OBVIOUS
<1>4. SavesPreset(w, v, preset) /\ UNCHANGED <<storedSettings, spoilt, legacy, storedTheme, sysDark>>
  BY <1>1, <1>3 DEF AddCustomPreset, RemoveCustomPreset
<1>5. preset = Absent \/ Settled(preset)
  BY <1>2, <1>3
<1> QED
  BY <1>1, <1>4, <1>5, SavesKeeps

LEMMA ImportStarts == ASSUME SettingsInv, NEW w \in Windows, HandleImport(w) PROVE SettingsInv'
<1>1. PICK v : v = win[w]
  OBVIOUS
<1>2. Wears(v) /\ WindowOK(v, sysDark, MigrateLegacyLocalStorageValue) /\ (v.at \in Gone => spoilt)
  BY <1>1, WindowHeld
<1>3. PICK i : i = v.settings
  OBVIOUS
<1>4. PICK u : u = [v EXCEPT !.importing = i]
  OBVIOUS
<1>5. u \in [at : {v.at}, raw : {v.raw}, cached : {v.cached}, settings : {v.settings}, theme : {v.theme},
             dark : {v.dark}, applied : {v.applied}, pane : {v.pane}, list : {v.list}, importing : {i},
             later : {v.later}, event : {v.event}, chosen : {v.chosen}]
  BY <1>2, <1>4 DEF Wears, WindowLine
<1>6. WindowLine(v)
  BY <1>2 DEF Wears
<1>7. u \in [at : Places, raw : {v.raw}, cached : {v.cached}, settings : {v.settings},
             theme : Themes, dark : {u.dark}, applied : {u.applied}, pane : {u.pane}, list : {u.list},
             importing : {u.importing}, later : Themes \cup {""}, event : BOOLEAN, chosen : Schemes \cup {""}]
  BY <1>5, <1>6 DEF WindowLine
<1>8. Wears(u)
  <2>1. Settled(u.importing) /\ u.list = v.list
    BY <1>2, <1>3, <1>5 DEF Wears
  <2> QED
    BY <2>1, <1>2, <1>7, FieldsHeld
<1>9. WindowOK(u, sysDark, MigrateLegacyLocalStorageValue) /\ (u.at \in Gone => spoilt)
  BY <1>2, <1>5, <1>8 DEF WindowOK, Dressed, Painted
<1>10. win' = [win EXCEPT ![w] = u] /\ UNCHANGED <<storedSettings, spoilt, legacy, storedTheme, presets, sysDark>>
  BY <1>1, <1>3, <1>4 DEF HandleImport, SettingsInv
<1> QED
  BY <1>9, <1>10, OneKeeps

\* The file has been read: its settings are rendered, its theme comes later.
LEMMA ImportKeeps == ASSUME SettingsInv, NEW w \in Windows, ImportLoaded(w) PROVE SettingsInv'
<1>1. PICK o : o = win[w]
  OBVIOUS
<1>2. Wears(o) /\ WindowOK(o, sysDark, MigrateLegacyLocalStorageValue) /\ (o.at \in Gone => spoilt)
  BY <1>1, WindowHeld
<1>3. PICK v : v = [o EXCEPT !.importing = Absent]
  OBVIOUS
<1>4. v \in [at : {o.at}, raw : {o.raw}, cached : {o.cached}, settings : {o.settings}, theme : {o.theme},
             dark : {o.dark}, applied : {o.applied}, pane : {o.pane}, list : {o.list}, importing : {Absent},
             later : {o.later}, event : {o.event}, chosen : {o.chosen}]
  BY <1>2, <1>3 DEF Wears, WindowLine
<1>5. WindowLine(o)
  BY <1>2 DEF Wears
<1>6. v \in [at : Places, raw : {o.raw}, cached : {o.cached}, settings : {o.settings},
             theme : Themes, dark : {v.dark}, applied : {v.applied}, pane : {v.pane}, list : {v.list},
             importing : {v.importing}, later : Themes \cup {""}, event : BOOLEAN, chosen : Schemes \cup {""}]
  BY <1>4, <1>5 DEF WindowLine
<1>7. Wears(v)
  <2>1. v.importing = Absent /\ v.list = o.list
    BY <1>4
  <2> QED
    BY <2>1, <1>2, <1>6, FieldsHeld
<1>8. UNCHANGED <<presets, sysDark>>
  BY DEF ImportLoaded
<1>9. CASE win' = [win EXCEPT ![w] = v] /\ UNCHANGED <<storedSettings, spoilt, legacy, storedTheme>>
  <2>1. WindowOK(v, sysDark, MigrateLegacyLocalStorageValue) /\ (v.at \in Gone => spoilt)
    BY <1>2, <1>4, <1>7 DEF WindowOK, Dressed, Painted
  <2> QED
    BY <1>8, <1>9, <2>1, OneKeeps
<1>10. ASSUME NEW preset \in ParseImportedPreset, o.importing # Absent,
              NEW next, next = ApplyPresetToSettings(preset, o.importing),
              NEW theme, theme = ThemeOf(next.scheme),
              storedTheme' = theme,
              NEW a, a = (IF theme = "system" THEN v ELSE ApplyTheme(v, theme)),
              NEW u, u = [a EXCEPT !.later = theme, !.chosen = next.scheme],
              Stores(w, RenderShell(WriteFnaShellSettings(Here(u), next)))
       PROVE  SettingsInv'
  <2>1. Full(next)
    BY <1>2, <1>10, ImportFits, PresetFull DEF Wears
  <2>2. next.scheme \in Schemes
    BY <2>1 DEF Full
  <2>3. theme \in Themes
    BY <2>2, <1>10, ThemesOf
  <2>4. WindowLine(v)
    BY <1>7 DEF Wears
  <2>5. PICK d : d = ClassIsDark(theme)
    OBVIOUS
  <2>6. a = v \/ a = [v EXCEPT !.dark = d]
    BY <1>10, <2>5 DEF ApplyTheme
  <2>7. /\ u \in [at : Places, raw : {v.raw}, cached : {v.cached}, settings : {v.settings},
                  theme : Themes, dark : {u.dark}, applied : {u.applied}, pane : {u.pane}, list : {u.list},
                  importing : {u.importing}, later : Themes \cup {""}, event : BOOLEAN, chosen : Schemes \cup {""}]
        /\ u.list = v.list /\ u.importing = v.importing /\ u.chosen = next.scheme /\ u.later = theme /\ u.at = v.at
    <3>1. /\ WindowLine(a) /\ a.at = v.at /\ a.raw = v.raw /\ a.cached = v.cached /\ a.settings = v.settings
          /\ a.list = v.list /\ a.importing = v.importing
      BY <2>4, <2>6 DEF WindowLine
    <3>2. u = [a EXCEPT !.later = theme, !.chosen = next.scheme]
      BY <1>10
    <3>3. u.list = a.list /\ u.importing = a.importing /\ u.chosen = next.scheme /\ u.later = theme /\ u.at = a.at
      BY <3>1, <3>2 DEF WindowLine
    <3>4. u \in [at : Places, raw : {a.raw}, cached : {a.cached}, settings : {a.settings},
                 theme : Themes, dark : {u.dark}, applied : {u.applied}, pane : {u.pane}, list : {u.list},
                 importing : {u.importing}, later : Themes \cup {""}, event : BOOLEAN, chosen : Schemes \cup {""}]
      BY <3>1, <3>2, <2>2, <2>3 DEF WindowLine
    <3> QED
      BY <3>1, <3>3, <3>4
  <2>8. Wears(u)
    BY <1>7, <2>7, FieldsHeld
  <2>9. PICK p : p = Here(u)
    OBVIOUS
  <2>10. p.v = u /\ Wears(p.v)
    BY <2>8, <2>9, HereReads
  <2>11. PICK r : r = WriteFnaShellSettings(p, next)
    OBVIOUS
  <2>12. /\ Wears(r.v) /\ Renders(r.v, p.v) /\ SameTheme(r.v, p.v) /\ r.v.at = p.v.at
         /\ Fits(r.here) /\ r.here # Absent
    BY <2>1, <2>10, <2>11, WriteWrites
  <2>13. r.v.later = theme /\ r.v.chosen = next.scheme
    BY <2>7, <2>10, <2>12 DEF SameTheme, Renders
  <2>14. theme # ""
    BY <2>3 DEF Themes
  <2>15. Dressed(r.v, sysDark)
    BY <1>10, <2>13, <2>14 DEF Dressed
  <2>16. PICK q : q = RenderShell(r)
    OBVIOUS
  <2>20. r.v.at \in Gone => spoilt
    BY <1>2, <1>4, <2>7, <2>10, <2>12
  <2>17. Prepared(q)
    BY <2>12, <2>15, <2>16, <2>20, ShellPrepared
  <2>18. Stores(w, q)
    BY <1>10, <2>9, <2>11, <2>16
  <2>19. storedTheme' \in StoredThemes
    BY <1>10, <2>3 DEF StoredThemes
  <2> QED
    BY <1>8, <2>17, <2>18, <2>19, StoresKeeps
<1> QED
  BY <1>1, <1>3, <1>9, <1>10 DEF ImportLoaded

LEMMA SettingsBegin == SettingsInit => SettingsInv
<1> SUFFICES ASSUME SettingsInit PROVE SettingsInv
  OBVIOUS
<1>1. Fits(storedSettings)
  <2>1. CASE storedSettings = [DefaultFnaShellSettings EXCEPT !.scheme = "dark"]
    <3>1. Full(storedSettings)
      BY <2>1, DefaultSettled DEF Settled, Full, Schemes
    <3> QED
      BY <3>1, FullFits
  <2>2. CASE storedSettings = [menu |-> "dark"]
    BY <2>2 DEF Fits, Absent, Undefined
  <2>3. CASE storedSettings = Unreadable
    BY <2>3 DEF Fits, Absent, Undefined, Unreadable
  <2> QED
    BY <2>1, <2>2, <2>3 DEF SettingsInit, Fits
<1>2. Fits(legacy)
  <2>1. CASE legacy = [darkSider |-> TRUE, width |-> 500]
    <3>1. PICK l : l = [darkSider |-> TRUE, width |-> 500]
      OBVIOUS
    <3>2. l.darkSider \in BOOLEAN /\ l.width \in Int /\ "scheme" \notin DOMAIN l /\ "follow" \notin DOMAIN l
          /\ "mode" \notin DOMAIN l /\ "sider" \notin DOMAIN l /\ "plain" \notin DOMAIN l
      BY <3>1
    <3>3. l # Absent /\ l # Undefined
      BY <3>1 DEF Absent, Undefined
    <3>4. Fits(l)
      BY <3>2, <3>3 DEF Fits
    <3> QED
      BY <2>1, <3>1, <3>4
  <2> QED
    BY <2>1 DEF SettingsInit, Fits
<1>3. storedTheme \in StoredThemes /\ presets = Absent /\ win = [w \in Windows |-> ClosedWindow]
  BY DEF SettingsInit, StoredThemes, Themes
<1>4. \A w \in Windows : WindowOK(win[w], sysDark, MigrateLegacyLocalStorageValue)
  BY <1>3, ClosedOK
<1>5. spoilt = ~CanShow(storedSettings)
  BY DEF SettingsInit
\* What an older version left can be shown.
<1>6. ASSUME storedSettings = Absent PROVE CanShow(legacy)
  <2>1. CASE legacy = Absent
    BY <2>1 DEF CanShow, NormalizeFnaShellSettings, DefaultFnaShellSettings, Absent, Unreadable, Filled, Null
  <2>2. CASE legacy = [darkSider |-> TRUE, width |-> 500]
    <3>1. PICK l : l = [darkSider |-> TRUE, width |-> 500]
      OBVIOUS
    <3>2. DOMAIN l = {"darkSider", "width"} /\ l # Absent /\ l # Unreadable
      BY <3>1 DEF Absent, Unreadable
    <3>3. PICK old : old = [DefaultFnaShellSettings EXCEPT !.sider = l.darkSider]
      OBVIOUS
    <3>4. Full(old) /\ old.header = Filled
      <4>1. PICK e : e = DefaultFnaShellSettings
        OBVIOUS
      <4>2. Full(e) /\ e.header = Filled
        BY <4>1, DefaultSettled DEF Settled, DefaultFnaShellSettings
      <4>3. old = [e EXCEPT !.sider = TRUE]
        BY <3>1, <3>3, <4>1
      <4> QED
        BY <4>2, <4>3 DEF Full
    <3>5. PICK new : new = MergeDeep(old, l)
      OBVIOUS
    <3>6. Fits(l)
      BY <1>2, <2>2, <3>1
    <3>7. Full(new) /\ new.header = Filled
      BY <3>2, <3>4, <3>5, <3>6, Merged DEF MergeDeep, Full
    <3>8. NormalizeFnaShellSettings(l) = Tidy(new)
      BY <3>2, <3>3, <3>5 DEF NormalizeFnaShellSettings, Tidy
    <3>9. Tidy(new).header = Filled
      BY <3>7 DEF Tidy, Full
    <3> QED
      BY <2>2, <3>1, <3>2, <3>8, <3>9 DEF CanShow, Filled, Null
  <2> QED
    BY <2>1, <2>2 DEF SettingsInit
<1>7. spoilt \in BOOLEAN /\ (~CanShow(MigrateLegacyLocalStorageValue) => spoilt)
  BY <1>5, <1>6 DEF MigrateLegacyLocalStorageValue
<1>8. \A w \in Windows : win[w].at \notin Gone
  BY <1>3 DEF ClosedWindow, Gone
<1> QED
  BY <1>1, <1>2, <1>3, <1>4, <1>7, <1>8 DEF SettingsInv

LEMMA SettingsKept == SettingsInv /\ [SettingsNext]_settingsVars => SettingsInv'
<1> SUFFICES ASSUME SettingsInv, [SettingsNext]_settingsVars PROVE SettingsInv'
  OBVIOUS
<1>1. CASE SystemThemeChanges
  BY <1>1, SystemKeeps
<1>2. ASSUME NEW w \in Windows,
             \/ OpenWindow(w) \/ CloseWindow(w) \/ EnterShell(w) \/ LeaveShell(w) \/ StorageEvent(w) \/ RendersAgain(w)
             \/ ToggleTheme(w) \/ SetTheme(w) \/ OpenPane(w) \/ ChangeSetting(w)
             \/ ResetConfig(w)
             \/ AddCustomPreset(w) \/ RemoveCustomPreset(w)
             \/ HandleImport(w) \/ ImportLoaded(w) \/ ThemeCommits(w)
      PROVE  SettingsInv'
  BY <1>2, OpenKeeps, CloseKeeps, EnterKeeps, LeaveKeeps, EventKeeps, AgainKeeps, ToggleKeeps, SetThemeKeeps,
     PaneKeeps, ChangeKeeps, ResetKeeps, PresetsKeep, ImportStarts, ImportKeeps, CommitKeeps
<1>3. CASE UNCHANGED settingsVars
  BY <1>3 DEF settingsVars, SettingsInv, WindowOK, MigrateLegacyLocalStorageValue
<1> QED
  BY <1>1, <1>2, <1>3 DEF SettingsNext

\* The appearance: a window with nothing outstanding shows what is stored and is
\* painted with it; it fails, or its page dies, only once settings that no shell
\* can show have been stored; for any windows, colours and number of touches
\* (fna-shell-settings.ts, fna-setting-drawer.tsx, theme-provider.tsx).
THEOREM SettingsTheorem == SettingsSpec => []SettingsReachWindows
<1>1. SettingsInv => SettingsReachWindows
  <2> SUFFICES ASSUME SettingsInv PROVE SettingsReachWindows
    OBVIOUS
  <2>1. PICK here : here = MigrateLegacyLocalStorageValue
    OBVIOUS
  <2>2. PICK m : m = NormalizeFnaShellSettings(here)
    OBVIOUS
  <2>3. Settled(m)
    BY <2>1, <2>2, MigratedFits, Normal
  <2>4. ASSUME NEW w \in Windows, NEW v, v = win[w], NothingOutstanding(v)
        PROVE  /\ CanShow(here)
               /\ v.settings = m
               /\ v.applied = [settings |-> v.settings, dark |-> ResolveShellIsDark(v.settings, v.dark)]
               /\ v.settings.mode = "normal" /\ v.settings.width \in 160..480
               /\ v.settings.follow => v.settings.info = v.settings.color
               /\ v.chosen = v.settings.scheme => v.dark = ClassIsDark(ThemeOf(v.settings.scheme))
    <3>1. Wears(v) /\ Dressed(v, sysDark) /\ CanShow(here) /\ Painted(v, m)
      BY <2>1, <2>2, <2>4, WindowHeld DEF NothingOutstanding, WindowOK
    <3>2. ASSUME v.chosen = v.settings.scheme PROVE v.dark = ClassIsDark(ThemeOf(v.settings.scheme))
      <4>1. v.settings.scheme \in Schemes
        BY <2>3, <3>1 DEF Painted, Settled, Full
      <4>2. v.chosen # "" /\ v.later = "" /\ v.at \notin {"closed", "dead"}
        BY <2>4, <3>2, <4>1 DEF Schemes, NothingOutstanding
      <4>3. ThemeOf(v.settings.scheme) = v.theme /\ v.dark = DarkOf(v.theme, sysDark)
        BY <3>1, <3>2, <4>2 DEF Dressed
      <4> QED
        BY <4>3 DEF ClassIsDark, DarkOf
    <3> QED
      BY <2>3, <3>1, <3>2 DEF Painted, Settled
  <2>5. \A w \in Windows : win[w].at \in {"failed", "dead"} => spoilt
    BY DEF SettingsInv, Gone
  <2> QED
    BY <2>1, <2>2, <2>4, <2>5 DEF SettingsReachWindows
<1> QED
  BY <1>1, SettingsBegin, SettingsKept, PTL DEF SettingsSpec

-----------------------------------------------------------------------------
(* The tabs.  A page the router is still on keeps no tab it was closed from: *)
(* what is suppressed was closed, or is back because of a drop that started  *)
(* while it was still shown.                                                 *)

TabPages == {Home} \cup Paths

\* What a list of tabs has, as a set.
On(ts) == {ts[i] : i \in 1..Len(ts)}

LEMMA ContainsOn == \A ts \in Seq(TabPages) : \A p : Contains(ts, p) <=> p \in On(ts)
BY DEF Contains, On

LEMMA AppendOn ==
  ASSUME NEW ts \in Seq(TabPages), NEW p \in TabPages
  PROVE  Append(ts, p) \in Seq(TabPages) /\ On(Append(ts, p)) = On(ts) \cup {p}
<1>1. PICK r : r = Append(ts, p)
  OBVIOUS
<1>2. r \in Seq(TabPages) /\ Len(r) = Len(ts) + 1 /\ r[Len(ts) + 1] = p /\ \A i \in 1..Len(ts) : r[i] = ts[i]
  BY <1>1
<1>3. On(r) \subseteq On(ts) \cup {p}
  BY <1>2 DEF On
<1>4. On(ts) \subseteq On(r)
  BY <1>2 DEF On
<1>5. p \in On(r)
  BY <1>2 DEF On
<1> QED
  BY <1>1, <1>2, <1>3, <1>4, <1>5

LEMMA ConcatOn ==
  ASSUME NEW a \in Seq(TabPages), NEW b \in Seq(TabPages)
  PROVE  a \o b \in Seq(TabPages) /\ On(a \o b) = On(a) \cup On(b) /\ Len(a \o b) = Len(a) + Len(b)
         /\ \A i \in 1..Len(a) : (a \o b)[i] = a[i]
<1>1. PICK r : r = a \o b
  OBVIOUS
<1>2. /\ r \in Seq(TabPages) /\ Len(r) = Len(a) + Len(b)
      /\ \A i \in 1..Len(a) : r[i] = a[i]
      /\ \A i \in 1..Len(b) : r[Len(a) + i] = b[i]
  BY <1>1
<1>3. On(r) \subseteq On(a) \cup On(b)
  <2> SUFFICES ASSUME NEW i \in 1..Len(r) PROVE r[i] \in On(a) \cup On(b)
    BY DEF On
  <2>1. CASE i <= Len(a)
    BY <1>2, <2>1 DEF On
  <2>2. CASE i > Len(a)
    <3>1. PICK j : j = i - Len(a)
      OBVIOUS
    <3>2. j \in 1..Len(b) /\ r[i] = b[j]
      BY <1>2, <2>2, <3>1
    <3> QED
      BY <3>2 DEF On
  <2> QED
    BY <2>1, <2>2, <1>2
<1>4. On(a) \subseteq On(r)
  BY <1>2 DEF On
<1>5. On(b) \subseteq On(r)
  <2> SUFFICES ASSUME NEW i \in 1..Len(b) PROVE b[i] \in On(r)
    BY DEF On
  <2>1. PICK j : j = Len(a) + i
    OBVIOUS
  <2>2. j \in 1..Len(r) /\ r[j] = b[i]
    BY <1>2, <2>1
  <2> QED
    BY <2>2 DEF On
<1> QED
  BY <1>1, <1>2, <1>3, <1>4, <1>5

LEMMA SubOn ==
  ASSUME NEW ts \in Seq(TabPages), NEW m \in Nat, NEW n \in Nat, m >= 1, n <= Len(ts)
  PROVE  /\ SubSeq(ts, m, n) \in Seq(TabPages)
         /\ On(SubSeq(ts, m, n)) = {ts[i] : i \in m..n}
         /\ Len(SubSeq(ts, m, n)) = IF m <= n THEN n - m + 1 ELSE 0
<1>1. PICK r : r = SubSeq(ts, m, n)
  OBVIOUS
<1>2. PICK l : l = IF m <= n THEN n - m + 1 ELSE 0
  OBVIOUS
<1>3. r \in Seq(TabPages) /\ Len(r) = l /\ \A i \in 1..l : r[i] = ts[m + i - 1]
  BY <1>1, <1>2
<1>4. On(r) \subseteq {ts[i] : i \in m..n}
  <2> SUFFICES ASSUME NEW i \in 1..l PROVE r[i] \in {ts[k] : k \in m..n}
    BY <1>3 DEF On
  <2>1. PICK j : j = m + i - 1
    OBVIOUS
  <2>2. j \in m..n /\ r[i] = ts[j]
    BY <1>2, <1>3, <2>1
  <2> QED
    BY <2>2
<1>5. {ts[i] : i \in m..n} \subseteq On(r)
  <2> SUFFICES ASSUME NEW i \in m..n PROVE ts[i] \in On(r)
    OBVIOUS
  <2>1. PICK j : j = i - m + 1
    OBVIOUS
  <2>2. j \in 1..l /\ r[j] = ts[i]
    BY <1>2, <1>3, <2>1
  <2> QED
    BY <1>3, <2>2 DEF On
<1> QED
  BY <1>1, <1>2, <1>3, <1>4, <1>5

LEMMA RemoveOn ==
  ASSUME NEW ts \in Seq(TabPages), NEW i \in 1..Len(ts)
  PROVE  /\ RemoveAt(ts, i) \in Seq(TabPages) /\ Len(RemoveAt(ts, i)) = Len(ts) - 1
         /\ On(RemoveAt(ts, i)) = {ts[k] : k \in 1..Len(ts) \ {i}}
<1>1. PICK a : a = SubSeq(ts, 1, i - 1)
  OBVIOUS
<1>2. PICK b : b = SubSeq(ts, i + 1, Len(ts))
  OBVIOUS
<1>3. RemoveAt(ts, i) = a \o b
  BY <1>1, <1>2 DEF RemoveAt
<1>4. a \in Seq(TabPages) /\ On(a) = {ts[k] : k \in 1..(i - 1)} /\ Len(a) = i - 1
  <2>1. i - 1 \in Nat /\ i - 1 <= Len(ts)
    OBVIOUS
  <2>2. Len(a) = IF 1 <= i - 1 THEN i - 1 - 1 + 1 ELSE 0
    BY <1>1, <2>1, SubOn
  <2>3. Len(a) = i - 1
    BY <2>1, <2>2
  <2>4. 1 \in Nat /\ 1 >= 1
    OBVIOUS
  <2>5. a \in Seq(TabPages) /\ On(a) = {ts[k] : k \in 1..(i - 1)}
    BY <1>1, <2>1, <2>4, SubOn
  <2> QED
    BY <2>3, <2>5
<1>5. b \in Seq(TabPages) /\ On(b) = {ts[k] : k \in (i + 1)..Len(ts)} /\ Len(b) = Len(ts) - i
  <2>1. i + 1 \in Nat /\ i + 1 >= 1 /\ Len(ts) \in Nat /\ Len(ts) <= Len(ts)
    OBVIOUS
  <2>2. Len(b) = IF i + 1 <= Len(ts) THEN Len(ts) - (i + 1) + 1 ELSE 0
    BY <1>2, <2>1, SubOn
  <2>3. Len(b) = Len(ts) - i
    BY <2>1, <2>2
  <2> QED
    BY <1>2, <2>1, <2>3, SubOn
<1>6. a \o b \in Seq(TabPages) /\ On(a \o b) = On(a) \cup On(b) /\ Len(a \o b) = Len(a) + Len(b)
  BY <1>4, <1>5, ConcatOn
<1>7. On(a) \cup On(b) = {ts[k] : k \in 1..Len(ts) \ {i}}
  <2>1. \A k : k \in 1..Len(ts) \ {i} <=> (k \in 1..(i - 1) \/ k \in (i + 1)..Len(ts))
    OBVIOUS
  <2>2. On(a) = {ts[k] : k \in 1..(i - 1)} /\ On(b) = {ts[k] : k \in (i + 1)..Len(ts)}
    BY <1>4, <1>5
  <2>3. On(a) \cup On(b) \subseteq {ts[k] : k \in 1..Len(ts) \ {i}}
    BY <2>1, <2>2
  <2>4. {ts[k] : k \in 1..Len(ts) \ {i}} \subseteq On(a) \cup On(b)
    BY <2>1, <2>2
  <2> QED
    BY <2>3, <2>4
<1>8. Len(a) = i - 1 /\ Len(b) = Len(ts) - i /\ Len(ts) \in Nat /\ i \in Int
  BY <1>4, <1>5
<1>9. Len(a) + Len(b) = Len(ts) - 1
  BY <1>8
<1>10. RemoveAt(ts, i) \in Seq(TabPages) /\ Len(RemoveAt(ts, i)) = Len(ts) - 1
  BY <1>3, <1>6, <1>9
<1>11. On(RemoveAt(ts, i)) = {ts[k] : k \in 1..Len(ts) \ {i}}
  BY <1>3, <1>6, <1>7
<1> QED
  BY <1>10, <1>11

LEMMA InsertOn ==
  ASSUME NEW ts \in Seq(TabPages), NEW p \in TabPages, NEW i \in 1..(Len(ts) + 1)
  PROVE  InsertAt(ts, i, p) \in Seq(TabPages) /\ On(InsertAt(ts, i, p)) = On(ts) \cup {p}
<1>1. PICK a : a = SubSeq(ts, 1, i - 1)
  OBVIOUS
<1>2. PICK b : b = SubSeq(ts, i, Len(ts))
  OBVIOUS
<1>3. PICK one : one = <<p>>
  OBVIOUS
<1>4. InsertAt(ts, i, p) = (a \o one) \o b
  BY <1>1, <1>2, <1>3 DEF InsertAt
<1>5. a \in Seq(TabPages) /\ On(a) = {ts[k] : k \in 1..(i - 1)}
  <2>1. i - 1 \in Nat /\ i - 1 <= Len(ts)
    OBVIOUS
  <2> QED
    BY <1>1, <2>1, SubOn
<1>6. b \in Seq(TabPages) /\ On(b) = {ts[k] : k \in i..Len(ts)}
  <2>1. i \in Nat /\ i >= 1 /\ Len(ts) \in Nat /\ Len(ts) <= Len(ts)
    OBVIOUS
  <2> QED
    BY <1>2, <2>1, SubOn
<1>7. one \in Seq(TabPages) /\ On(one) = {p}
  BY <1>3 DEF On
<1>8. a \o one \in Seq(TabPages) /\ On(a \o one) = On(a) \cup On(one)
  BY <1>5, <1>7, ConcatOn
<1>9. (a \o one) \o b \in Seq(TabPages) /\ On((a \o one) \o b) = On(a \o one) \cup On(b)
  BY <1>6, <1>8, ConcatOn
<1>10. On(a) \cup On(b) = On(ts)
  <2>1. 1..Len(ts) = (1..(i - 1)) \cup (i..Len(ts))
    OBVIOUS
  <2> QED
    BY <1>5, <1>6, <2>1 DEF On
<1> QED
  BY <1>4, <1>7, <1>8, <1>9, <1>10

LEMMA RangeOn == \A ts \in Seq(TabPages) : Range(ts) = On(ts)
BY DEF Range, On

LEMMA IndexOn ==
  ASSUME NEW ts \in Seq(TabPages), NEW p
  PROVE  /\ p \in On(ts) => IndexOf(ts, p) \in 1..Len(ts) /\ ts[IndexOf(ts, p)] = p
         /\ p \notin On(ts) => IndexOf(ts, p) = 0
<1>1. DOMAIN ts = 1..Len(ts)
  OBVIOUS
<1>2. CASE p \in On(ts)
  <2>1. \E i \in DOMAIN ts : ts[i] = p
    BY <1>1, <1>2 DEF On
  <2>2. IndexOf(ts, p) = CHOOSE i \in DOMAIN ts : ts[i] = p
    BY <1>2, ContainsOn DEF IndexOf
  <2> QED
    BY <1>1, <1>2, <2>1, <2>2, Zenon
<1>3. CASE p \notin On(ts)
  BY <1>3, ContainsOn DEF IndexOf
<1> QED
  BY <1>2, <1>3

\* A good list begins with the home tab.
GoodTags(ts) == ts \in Seq(TabPages) /\ Len(ts) > 0 /\ ts[1] = Home

LEMMA HomeOn == \A ts : GoodTags(ts) => Home \in On(ts)
BY DEF GoodTags, On

LEMMA NormalOn ==
  ASSUME NEW ts \in Seq(TabPages), Home \in On(ts)
  PROVE  /\ GoodTags(NormalizeTagOrder(ts)) /\ On(NormalizeTagOrder(ts)) = On(ts)
         /\ Len(NormalizeTagOrder(ts)) = Len(ts)
         /\ NormalizeTags(ts) = NormalizeTagOrder(ts)
<1>1. PICK i : i = IndexOf(ts, Home)
  OBVIOUS
<1>2. i \in 1..Len(ts) /\ ts[i] = Home
  BY <1>1, IndexOn
<1>3. PICK r : r = RemoveAt(ts, i)
  OBVIOUS
<1>4. r \in Seq(TabPages) /\ Len(r) = Len(ts) - 1 /\ On(r) = {ts[k] : k \in 1..Len(ts) \ {i}}
  BY <1>2, <1>3, RemoveOn
<1>5. PICK h : h = <<Home>>
  OBVIOUS
<1>6. h \in Seq(TabPages) /\ On(h) = {Home} /\ Len(h) = 1 /\ h[1] = Home
  BY <1>5 DEF On, TabPages
<1>7. NormalizeTagOrder(ts) = h \o r
  BY <1>1, <1>3, <1>5, ContainsOn DEF NormalizeTagOrder, Pinned
<1>8. h \o r \in Seq(TabPages) /\ On(h \o r) = On(h) \cup On(r) /\ Len(h \o r) = Len(h) + Len(r)
  BY <1>4, <1>6, ConcatOn
<1>9. (h \o r)[1] = Home
  <2>1. \A k \in 1..Len(h) : (h \o r)[k] = h[k]
    BY <1>4, <1>6, ConcatOn
  <2>2. 1 \in 1..Len(h)
    BY <1>6
  <2> QED
    BY <2>1, <2>2, <1>6
<1>10. On(h) \cup On(r) = On(ts)
  BY <1>2, <1>4, <1>6 DEF On
<1>11. Len(h \o r) = Len(ts)
  BY <1>4, <1>6, <1>8
<1>12. Len(ts) > 0
  BY <1>2
<1>13. ts # <<>>
  BY <1>12
<1> QED
  BY <1>7, <1>8, <1>9, <1>10, <1>11, <1>12, <1>13 DEF GoodTags, NormalizeTags

LEMMA MoveOn ==
  ASSUME NEW ts \in Seq(TabPages), NEW i \in 1..Len(ts), NEW j \in 1..(Len(ts) + 1)
  PROVE  MoveToIndex(ts, i, j) \in Seq(TabPages) /\ On(MoveToIndex(ts, i, j)) = On(ts)
<1>1. CASE i = j
  BY <1>1 DEF MoveToIndex
<1>2. CASE i # j
  <2>1. PICK r : r = RemoveAt(ts, i)
    OBVIOUS
  <2>2. PICK k : k = IF j > i THEN j - 1 ELSE j
    OBVIOUS
  <2>3. MoveToIndex(ts, i, j) = InsertAt(r, k, ts[i])
    BY <1>2, <2>1, <2>2 DEF MoveToIndex
  <2>4. r \in Seq(TabPages) /\ Len(r) = Len(ts) - 1 /\ On(r) = {ts[n] : n \in 1..Len(ts) \ {i}}
    BY <2>1, RemoveOn
  <2>5. k \in 1..(Len(r) + 1) /\ ts[i] \in TabPages
    BY <1>2, <2>2, <2>4
  <2>6. InsertAt(r, k, ts[i]) \in Seq(TabPages) /\ On(InsertAt(r, k, ts[i])) = On(r) \cup {ts[i]}
    BY <2>4, <2>5, InsertOn
  <2>7. On(r) \cup {ts[i]} = On(ts)
    BY <2>4 DEF On
  <2> QED
    BY <2>3, <2>6, <2>7
<1> QED
  BY <1>1, <1>2

DragOK(d, ts, sup) ==
    /\ d \in [at : {"none", "down", "active", "settling"}, path : TabPages, from : Nat, base : {d.base}, insert : Nat,
              again : Nat]
    /\ d.at = "down" => d.from \in 1..Len(ts)
    /\ d.at \in {"active", "settling"} =>
          /\ d.base \in Seq(TabPages) /\ Home \in On(d.base)
          /\ d.insert \in 1..(Len(d.base) + 1)
          /\ sup \cap On(ts) \subseteq On(d.base)

\* A closed tab on whose page the router still is, is suppressed; what is
\* suppressed was closed, or came back with a drop; nothing else is missing.
TabsInv ==
    /\ GoodTags(tags)
    /\ pathname \in TabPages /\ pushed \subseteq TabPages
    /\ \A ts \in stored : ts \in Seq(TabPages) /\ Home \in On(ts)
    /\ hydrated \in BOOLEAN /\ stale \in BOOLEAN
    /\ ~hydrated => stale /\ tags = ServerSnapshot /\ suppressed = {} /\ closed = {} /\ drag.at = "none"
    /\ Home \notin suppressed
    /\ suppressed \subseteq closed \cup On(tags)
    /\ pathname \in closed => pathname \in suppressed
    /\ closed \cap On(tags) = {}
    /\ ~stale => suppressed \subseteq {pathname} /\ pathname \in On(tags) \cup closed
    /\ menu \subseteq TabPages /\ menu \cap closed = {}
    /\ Held => menu = {}
    /\ DragOK(drag, tags, suppressed)

LEMMA ServerGood == GoodTags(ServerSnapshot) /\ On(ServerSnapshot) = {Home}
BY DEF GoodTags, ServerSnapshot, TabPages, On

LEMMA TabsBegin == TagsInit => TabsInv
<1> SUFFICES ASSUME TagsInit PROVE TabsInv
  OBVIOUS
<1>1. \A ts \in stored : ts \in Seq(TabPages) /\ Home \in On(ts)
  <2> SUFFICES ASSUME NEW ts \in stored PROVE ts \in Seq(TabPages) /\ Home \in On(ts)
    OBVIOUS
  <2>1. CASE ts = <<Home>>
    BY <2>1, ServerGood, HomeOn DEF ServerSnapshot, GoodTags
  <2>2. CASE \E p \in Paths : ts = <<Home, p>>
    <3>1. PICK p \in Paths : ts = <<Home, p>>
      BY <2>2
    <3>2. ts \in Seq(TabPages) /\ Len(ts) = 2 /\ ts[1] = Home
      BY <3>1 DEF TabPages
    <3> QED
      BY <3>2, HomeOn DEF GoodTags
  <2> QED
    BY <2>1, <2>2 DEF TagsInit
<1>2. DragOK(NoDrag, tags, suppressed)
  BY DEF DragOK, NoDrag, TabPages
<1>3. NoDrag.at = "none"
  BY DEF NoDrag
<1>4. GoodTags(tags) /\ tags = ServerSnapshot
  BY ServerGood DEF TagsInit
<1>5. Home \in TabPages
  BY DEF TabPages
<1> QED
  BY <1>1, <1>2, <1>3, <1>4, <1>5 DEF TagsInit, TabsInv, Held, TabPages

\* The effect: the tab of the page is added unless it is suppressed.
LEMMA EnsureKeeps ==
  ASSUME TabsInv, NEW ts, GoodTags(ts), On(tags) = On(ts), Len(ts) = Len(tags), Ensure(ts),
         hydrated \/ (ts = tags /\ pathname # Home),
         UNCHANGED <<pathname, pushed, menu, drag, closed>>
  PROVE  TabsInv'
<1>1. suppressed' = suppressed \cap {pathname}
  BY DEF Ensure, Suppressed
<1>2. PICK d : d = drag
  OBVIOUS
<1>3. DragOK(d, tags, suppressed) /\ drag' = d
  BY <1>2 DEF TabsInv
<1>4. CASE pathname \in Suppressed \/ Contains(ts, pathname)
  <2>1. stale' = FALSE /\ UNCHANGED <<stored, hydrated, tags>>
    BY <1>4 DEF Ensure
  <2>2. pathname \in On(tags) \cup closed
    BY <1>4, ContainsOn DEF Suppressed, TabsInv, GoodTags
  <2>3. DragOK(d, tags, suppressed \cap {pathname})
    BY <1>3 DEF DragOK
  <2>4. hydrated
    BY <1>4, ServerGood, ContainsOn DEF TabsInv, Suppressed, GoodTags
  <2>5. DragOK(drag, tags, suppressed)'
    BY <2>1, <2>3, <1>1, <1>3
  <2> QED
    BY <1>1, <2>1, <2>2, <2>4, <2>5 DEF TabsInv, Held
<1>5. CASE ~(pathname \in Suppressed \/ Contains(ts, pathname))
  <2>1. PICK long : long = Append(ts, pathname)
    OBVIOUS
  <2>2. long \in Seq(TabPages) /\ On(long) = On(ts) \cup {pathname} /\ Len(long) = Len(ts) + 1
    BY <2>1, AppendOn DEF TabsInv, GoodTags
  <2>3. Home \in On(long)
    BY <2>2, HomeOn
  <2>4. PICK n : n = NormalizeTagOrder(long)
    OBVIOUS
  <2>5. GoodTags(n) /\ On(n) = On(long) /\ Len(n) = Len(long)
    BY <2>2, <2>3, <2>4, NormalOn
  <2>6. stored' = {n} /\ hydrated' = TRUE /\ tags' = n /\ stale' = TRUE
    BY <1>5, <2>1, <2>4 DEF Ensure, EnsureTag, PersistTags
  <2>7. pathname \notin suppressed /\ pathname \notin closed
    BY <1>5 DEF Suppressed, TabsInv
  <2>8. suppressed' = {}
    BY <1>1, <2>7
  <2>9. DragOK(d, n, {})
    <3>1. Len(tags) \in Nat /\ Len(n) = Len(tags) + 1
      BY <2>2, <2>5 DEF TabsInv, GoodTags
    <3> QED
      BY <1>3, <3>1 DEF DragOK
  <2>10. DragOK(drag, tags, suppressed)'
    BY <1>3, <2>6, <2>8, <2>9
  <2>11. closed \cap On(n) = {}
    BY <2>2, <2>5, <2>7 DEF TabsInv
  <2>12. n \in Seq(TabPages) /\ Home \in On(n)
    BY <2>5, HomeOn DEF GoodTags
  <2> QED
    BY <2>5, <2>6, <2>7, <2>8, <2>10, <2>11, <2>12 DEF TabsInv, Held
<1> QED
  BY <1>4, <1>5

LEMMA EffectKeeps == TabsInv /\ EnsureEffect => TabsInv'
<1> SUFFICES ASSUME TabsInv, EnsureEffect PROVE TabsInv'
  OBVIOUS
<1>1. PICK ts : ts = tags
  OBVIOUS
<1>2. GoodTags(ts) /\ On(tags) = On(ts) /\ Len(ts) = Len(tags)
  BY <1>1 DEF TabsInv
<1>3. Ensure(ts) /\ hydrated /\ UNCHANGED <<pathname, pushed, menu, drag, closed>>
  BY <1>1 DEF EnsureEffect
<1> QED
  BY <1>2, <1>3, EnsureKeeps

LEMMA HydrateKeeps == TabsInv /\ HydrateTags => TabsInv'
<1> SUFFICES ASSUME TabsInv, HydrateTags PROVE TabsInv'
  OBVIOUS
<1>1. UNCHANGED <<pathname, pushed, menu, drag, closed>> /\ ~hydrated
  BY DEF HydrateTags
<1>2. tags = ServerSnapshot /\ suppressed = {} /\ closed = {} /\ drag.at = "none"
  BY <1>1 DEF TabsInv
<1>3. CASE pathname # Home
  <2>1. PICK ts : ts = ServerSnapshot
    OBVIOUS
  <2>2. GoodTags(ts) /\ On(tags) = On(ts) /\ Len(ts) = Len(tags) /\ ts = tags
    BY <1>2, <2>1, ServerGood
  <2>3. Ensure(ts)
    BY <1>3, <2>1 DEF HydrateTags
  <2> QED
    BY <1>1, <1>3, <2>2, <2>3, EnsureKeeps
<1>4. CASE pathname = Home
  <2>1. UNCHANGED <<stored, suppressed>> /\ hydrated' = TRUE /\ stale' = TRUE
    BY <1>4 DEF HydrateTags
  <2>2. GoodTags(tags')
    <3>1. CASE stored = {}
      BY <1>4, <3>1, ServerGood DEF HydrateTags
    <3>2. CASE stored # {}
      <4>1. PICK ts : ts = CHOOSE t \in stored : TRUE
        OBVIOUS
      <4>2. ts \in stored
        BY <3>2, <4>1
      <4>3. ts \in Seq(TabPages) /\ Home \in On(ts)
        BY <4>2 DEF TabsInv
      <4>4. tags' = NormalizeTags(ts)
        BY <1>4, <3>2, <4>1 DEF HydrateTags
      <4> QED
        BY <4>3, <4>4, NormalOn
    <3> QED
      BY <3>1, <3>2
  <2>3. DragOK(drag, tags, suppressed)'
    BY <1>1, <1>2, <2>1 DEF TabsInv, DragOK
  <2> QED
    BY <1>1, <1>2, <2>1, <2>2, <2>3 DEF TabsInv, Held
<1> QED
  BY <1>3, <1>4

\* Tabs are closed while none is held: what is left is of the tabs, or the
\* tab of the menu, or home.
LEMMA TabsCommitKeeps ==
  ASSUME TabsInv, ~stale, ~Held, NEW ts \in Seq(TabPages), Home \in On(ts), On(ts) \subseteq On(tags) \cup menu,
         CommitTags(NormalizeTags(ts)), NEW go \in TabPages, UNCHANGED pushed \/ NavigateTo(go),
         menu' = {}, UNCHANGED <<pathname, drag>>
  PROVE  TabsInv'
<1>1. PICK n : n = NormalizeTagOrder(ts)
  OBVIOUS
<1>2. GoodTags(n) /\ On(n) = On(ts) /\ NormalizeTags(ts) = n
  BY <1>1, NormalOn
<1>3. n \in Seq(TabPages) /\ Home \in On(n)
  BY <1>2 DEF GoodTags
<1>4. PICK z : z = NormalizeTagOrder(n)
  OBVIOUS
<1>5. GoodTags(z) /\ On(z) = On(n)
  BY <1>3, <1>4, NormalOn
<1>6. z \in Seq(TabPages) /\ Home \in On(z)
  BY <1>3, <1>5 DEF GoodTags
<1>7. tags \in Seq(TabPages)
  BY DEF TabsInv, GoodTags
<1>8. Range(tags) = On(tags) /\ Range(n) = On(ts)
  BY <1>2, <1>3, <1>7, RangeOn
<1>9. PICK gone : gone = On(tags) \ On(ts)
  OBVIOUS
<1>10. /\ suppressed' = suppressed \cup gone /\ closed' = closed \cup gone
       /\ stored' = {z} /\ hydrated' = TRUE /\ tags' = z /\ stale' = TRUE
  BY <1>2, <1>4, <1>8, <1>9 DEF CommitTags, PersistTags
<1>11. On(z) = On(ts)
  BY <1>2, <1>5
<1>12. closed \cap On(ts) = {}
  BY DEF TabsInv
<1>13. closed' \cap On(z) = {}
  BY <1>9, <1>10, <1>11, <1>12
<1>14. suppressed' \subseteq closed' \cup On(z)
  BY <1>9, <1>10, <1>11 DEF TabsInv
<1>15. PICK d : d = drag
  OBVIOUS
<1>16. DragOK(d, z, suppressed \cup gone)
  <2>1. DragOK(d, tags, suppressed) /\ d.at \notin {"down", "active"}
    BY <1>15 DEF TabsInv, Held
  <2>2. (suppressed \cup gone) \cap On(z) \subseteq suppressed \cap On(tags)
    BY <1>9, <1>11, <1>12 DEF TabsInv
  <2> QED
    BY <2>1, <2>2 DEF DragOK
<1>17. DragOK(drag, tags, suppressed)'
  BY <1>10, <1>15, <1>16
<1>18. Home \notin suppressed' /\ (pathname \in closed' => pathname \in suppressed')
  BY <1>9, <1>10 DEF TabsInv
<1>19. pushed' \subseteq TabPages
  BY DEF TabsInv, NavigateTo
<1> QED
  BY <1>5, <1>6, <1>10, <1>13, <1>14, <1>17, <1>18, <1>19 DEF TabsInv, Held

LEMMA VisitKeeps == ASSUME TabsInv, NEW p \in TabPages, Visit(p) PROVE TabsInv'
BY DEF TabsInv, Visit, Held

LEMMA MenuKeeps == ASSUME TabsInv, ~stale, NEW p \in TabPages, OpenContextMenu(p) PROVE TabsInv'
<1>1. p \in On(tags)
  BY ContainsOn DEF OpenContextMenu, TabsInv, GoodTags
<1>2. p \notin closed
  BY <1>1 DEF TabsInv
<1> QED
  BY <1>2 DEF TabsInv, OpenContextMenu, Held

LEMMA ArrivesKeeps == TabsInv /\ ~stale /\ RouterArrives => TabsInv'
<1> SUFFICES ASSUME TabsInv, ~stale, RouterArrives PROVE TabsInv'
  OBVIOUS
<1>1. PICK p : p = CHOOSE q \in pushed : TRUE
  OBVIOUS
<1>2. p \in pushed
  BY <1>1 DEF RouterArrives
<1>3. p \in TabPages
  BY <1>2 DEF TabsInv
<1>4. /\ pathname' = p /\ pushed' = {}
      /\ stale' = (stale \/ p # pathname)
      /\ closed' = IF p = pathname THEN closed ELSE closed \ {p}
      /\ UNCHANGED <<stored, hydrated, tags, suppressed, menu, drag>>
  BY <1>1 DEF RouterArrives
<1>5. suppressed \subseteq {pathname} /\ hydrated
  BY DEF TabsInv
<1>6. CASE p = pathname
  BY <1>3, <1>4, <1>5, <1>6 DEF TabsInv, Held
<1>7. CASE p # pathname
  <2>1. suppressed \subseteq closed' \cup On(tags)
    BY <1>4, <1>5, <1>7 DEF TabsInv
  <2>2. p \notin closed' /\ closed' \subseteq closed
    BY <1>4, <1>7
  <2>3. stale' = TRUE
    BY <1>4, <1>7
  <2> QED
    BY <1>3, <1>4, <1>5, <2>1, <2>2, <2>3 DEF TabsInv, Held
<1> QED
  BY <1>6, <1>7

LEMMA CloseTagKeeps == ASSUME TabsInv, ~stale, NEW p \in TabPages, CloseTag(p) PROVE TabsInv'
<1>1. PICK i : i = IndexOf(tags, p)
  OBVIOUS
<1>2. PICK next : next = RemoveAt(tags, i)
  OBVIOUS
<1>3. tags \in Seq(TabPages) /\ Len(tags) > 0 /\ tags[1] = Home
  BY DEF TabsInv, GoodTags
<1>4. p # Home /\ i > 0 /\ ~Held /\ menu = {} /\ CommitTags(NormalizeTags(next))
  BY <1>1, <1>2 DEF CloseTag, Closable
<1>5. i \in 1..Len(tags) /\ tags[i] = p
  <2>1. p \in On(tags) \/ i = 0
    BY <1>1, <1>3, IndexOn
  <2>2. p \in On(tags)
    BY <1>4, <2>1
  <2> QED
    BY <1>1, <1>3, <2>2, IndexOn
<1>6. next \in Seq(TabPages) /\ Len(next) = Len(tags) - 1 /\ On(next) = {tags[k] : k \in 1..Len(tags) \ {i}}
  BY <1>2, <1>3, <1>5, RemoveOn
<1>7. i # 1 /\ 1 \in 1..Len(tags) \ {i}
  BY <1>3, <1>4, <1>5
<1>8. Home \in On(next)
  BY <1>3, <1>6, <1>7
<1>9. On(next) \subseteq On(tags)
  BY <1>6 DEF On
<1>10. PICK go : go = IF p = pathname THEN (IF i <= Len(next) THEN next[i] ELSE next[i - 1]) ELSE Home
  OBVIOUS
<1>11. go \in TabPages
  <2>1. i <= Len(next) => next[i] \in TabPages
    BY <1>5, <1>6
  <2>2. i > Len(next) => next[i - 1] \in TabPages
    BY <1>3, <1>5, <1>6, <1>7
  <2>3. Home \in TabPages /\ i \in Int /\ Len(next) \in Int
    BY <1>5, <1>6 DEF TabPages
  <2> QED
    BY <1>10, <2>1, <2>2, <2>3
<1>12. UNCHANGED pushed \/ NavigateTo(go)
  BY <1>1, <1>2, <1>10 DEF CloseTag
<1>13. menu' = {} /\ UNCHANGED <<pathname, drag>>
  BY <1>4 DEF CloseTag
<1> QED
  BY <1>4, <1>6, <1>8, <1>9, <1>11, <1>12, <1>13, TabsCommitKeeps

\* The context menu's groups.
LEMMA GroupKeeps ==
  ASSUME TabsInv, ~stale, menu # {}, NEW ts \in Seq(TabPages), Home \in On(ts), On(ts) \subseteq On(tags) \cup menu,
         NEW to, to \subseteq TabPages, Group(ts, to)
  PROVE  TabsInv'
<1>1. ~Held
  BY DEF TabsInv
<1>2. PICK go : go = IF to = {} THEN Home ELSE CHOOSE p \in to : TRUE
  OBVIOUS
<1>3. go \in TabPages
  BY <1>2 DEF TabPages
<1>4. UNCHANGED pushed \/ NavigateTo(go)
  BY <1>2 DEF Group
<1>5. CommitTags(NormalizeTags(ts)) /\ menu' = {} /\ UNCHANGED <<pathname, drag>>
  BY DEF Group
<1> QED
  BY <1>1, <1>3, <1>4, <1>5, TabsCommitKeeps

LEMMA PinnedOn ==
  ASSUME NEW ts \in Seq(TabPages)
  PROVE  Pinned(ts) \in Seq(TabPages) /\ On(Pinned(ts)) = On(ts) \cap {Home}
<1>1. CASE Home \in On(ts)
  <2>1. Pinned(ts) = ServerSnapshot
    BY <1>1, ContainsOn DEF Pinned, ServerSnapshot
  <2> QED
    BY <1>1, <2>1, ServerGood DEF GoodTags
<1>2. CASE Home \notin On(ts)
  <2>1. Pinned(ts) = <<>>
    BY <1>2, ContainsOn DEF Pinned
  <2> QED
    BY <1>2, <2>1 DEF On
<1> QED
  BY <1>1, <1>2

LEMMA AllKeeps == TabsInv /\ ~stale /\ CloseAll => TabsInv'
<1> SUFFICES ASSUME TabsInv, ~stale, CloseAll PROVE TabsInv'
  OBVIOUS
<1>1. PICK ts : ts = ServerSnapshot
  OBVIOUS
<1>2. ts \in Seq(TabPages) /\ On(ts) = {Home}
  BY <1>1, ServerGood DEF GoodTags
<1>3. Home \in On(tags) /\ {Home} \subseteq TabPages
  BY HomeOn DEF TabsInv, TabPages
<1>4. menu # {} /\ Group(ts, {Home})
  BY <1>1 DEF CloseAll
<1> QED
  BY <1>2, <1>3, <1>4, GroupKeeps

LEMMA OthersKeeps == TabsInv /\ ~stale /\ CloseOthers => TabsInv'
<1> SUFFICES ASSUME TabsInv, ~stale, NEW p \in menu,
                    Group(IF Closable(p) THEN Append(Pinned(tags), p) ELSE Pinned(tags), {p})
             PROVE  TabsInv'
  BY DEF CloseOthers
<1>1. PICK pin : pin = Pinned(tags)
  OBVIOUS
<1>2. p \in TabPages /\ tags \in Seq(TabPages) /\ Home \in On(tags)
  BY HomeOn DEF TabsInv, GoodTags
<1>3. pin \in Seq(TabPages) /\ On(pin) = {Home}
  BY <1>1, <1>2, PinnedOn
<1>4. PICK ts : ts = IF Closable(p) THEN Append(pin, p) ELSE pin
  OBVIOUS
<1>5. Append(pin, p) \in Seq(TabPages) /\ On(Append(pin, p)) = On(pin) \cup {p}
  BY <1>2, <1>3, AppendOn
<1>6. ts \in Seq(TabPages) /\ Home \in On(ts) /\ On(ts) \subseteq On(tags) \cup menu
  BY <1>2, <1>3, <1>4, <1>5
<1>7. Group(ts, {p}) /\ menu # {} /\ {p} \subseteq TabPages
  BY <1>1, <1>2, <1>4
<1> QED
  BY <1>6, <1>7, GroupKeeps

LEMMA RightKeeps == TabsInv /\ ~stale /\ CloseRight => TabsInv'
<1> SUFFICES ASSUME TabsInv, ~stale, CloseRight PROVE TabsInv'
  OBVIOUS
<1>1. PICK p \in menu :
          LET next == SubSeq(tags, 1, IndexOf(tags, p))
          IN  next # <<>> /\ Group(next, IF Contains(next, pathname) THEN {} ELSE {Last(next)})
  BY DEF CloseRight
<1>2. PICK i : i = IndexOf(tags, p)
  OBVIOUS
<1>3. PICK ts : ts = SubSeq(tags, 1, i)
  OBVIOUS
<1>4. PICK to : to = IF Contains(ts, pathname) THEN {} ELSE {Last(ts)}
  OBVIOUS
<1>5. ts # <<>> /\ Group(ts, to)
  BY <1>1, <1>2, <1>3, <1>4
<1>6. tags \in Seq(TabPages) /\ Len(tags) > 0 /\ tags[1] = Home
  BY DEF TabsInv, GoodTags
<1>7. i \in Nat /\ i <= Len(tags)
  BY <1>2, <1>6, IndexOn
<1>8. ts \in Seq(TabPages) /\ On(ts) = {tags[k] : k \in 1..i} /\ Len(ts) = IF 1 <= i THEN i - 1 + 1 ELSE 0
  BY <1>3, <1>6, <1>7, SubOn
<1>9. i >= 1
  BY <1>5, <1>7, <1>8
<1>10. Home \in On(ts)
  BY <1>6, <1>7, <1>8, <1>9
<1>11. On(ts) \subseteq On(tags)
  BY <1>7, <1>8 DEF On
<1>12. to \subseteq TabPages
  <2>1. Last(ts) \in TabPages
    BY <1>7, <1>8, <1>9 DEF Last
  <2> QED
    BY <1>4, <2>1
<1>13. menu # {}
  OBVIOUS
<1> QED
  BY <1>5, <1>8, <1>10, <1>11, <1>12, <1>13, GroupKeeps

LEMMA LeftKeeps == TabsInv /\ ~stale /\ CloseLeft => TabsInv'
<1> SUFFICES ASSUME TabsInv, ~stale, CloseLeft PROVE TabsInv'
  OBVIOUS
<1>1. PICK p \in menu :
          LET i == IndexOf(tags, p)
              next == Pinned(SubSeq(tags, 1, i - 1)) \o SubSeq(tags, i, Len(tags))
          IN  i > 0 /\ Group(next, IF Contains(next, pathname) THEN {} ELSE {p})
  BY DEF CloseLeft
<1>2. PICK i : i = IndexOf(tags, p)
  OBVIOUS
<1>3. PICK a : a = SubSeq(tags, 1, i - 1)
  OBVIOUS
<1>4. PICK b : b = SubSeq(tags, i, Len(tags))
  OBVIOUS
<1>5. PICK pin : pin = Pinned(a)
  OBVIOUS
<1>6. PICK ts : ts = pin \o b
  OBVIOUS
<1>7. PICK to : to = IF Contains(ts, pathname) THEN {} ELSE {p}
  OBVIOUS
<1>8. i > 0 /\ Group(ts, to)
  BY <1>1, <1>2, <1>3, <1>4, <1>5, <1>6, <1>7
<1>9. tags \in Seq(TabPages) /\ Len(tags) > 0 /\ tags[1] = Home
  BY DEF TabsInv, GoodTags
<1>10. i \in 1..Len(tags)
  BY <1>2, <1>8, <1>9, IndexOn
<1>11. a \in Seq(TabPages) /\ On(a) = {tags[k] : k \in 1..(i - 1)}
  <2>1. i - 1 \in Nat /\ i - 1 <= Len(tags)
    BY <1>9, <1>10
  <2> QED
    BY <1>3, <1>9, <2>1, SubOn
<1>12. b \in Seq(TabPages) /\ On(b) = {tags[k] : k \in i..Len(tags)}
  <2>1. i \in Nat /\ i >= 1 /\ Len(tags) \in Nat /\ Len(tags) <= Len(tags)
    BY <1>9, <1>10
  <2> QED
    BY <1>4, <1>9, <2>1, SubOn
<1>13. pin \in Seq(TabPages) /\ On(pin) = On(a) \cap {Home}
  BY <1>5, <1>11, PinnedOn
<1>14. ts \in Seq(TabPages) /\ On(ts) = On(pin) \cup On(b)
  BY <1>6, <1>12, <1>13, ConcatOn
<1>15. Home \in On(ts)
  <2>1. CASE i = 1
    BY <1>9, <1>10, <1>12, <1>14, <2>1
  <2>2. CASE i # 1
    <3>1. 1 \in 1..(i - 1)
      BY <1>10, <2>2
    <3> QED
      BY <1>9, <1>11, <1>13, <1>14, <3>1
  <2> QED
    BY <2>1, <2>2
<1>16. On(ts) \subseteq On(tags)
  <2>1. On(tags) = {tags[k] : k \in 1..Len(tags)}
    BY DEF On
  <2>2. 1..(i - 1) \subseteq 1..Len(tags) /\ i..Len(tags) \subseteq 1..Len(tags)
    BY <1>9, <1>10
  <2>3. On(a) \subseteq On(tags)
    BY <2>1, <2>2, <1>11
  <2>4. On(b) \subseteq On(tags)
    BY <2>1, <2>2, <1>12
  <2> QED
    BY <2>3, <2>4, <1>13, <1>14
<1>17. to \subseteq TabPages /\ menu # {}
  BY <1>7 DEF TabsInv
<1> QED
  BY <1>8, <1>14, <1>15, <1>16, <1>17, GroupKeeps

\* A step of the pointer: nothing but the drag changes.
LEMMA DragKeeps ==
  ASSUME TabsInv, NEW d, Dragging(d), hydrated, DragOK(d, tags, suppressed), d.at \in {"down", "active"} => menu = {},
         UNCHANGED pushed
  PROVE  TabsInv'
<1>1. drag' = d /\ UNCHANGED <<stored, hydrated, tags, pathname, suppressed, stale, menu, closed>>
  BY DEF Dragging
<1>2. DragOK(drag, tags, suppressed)'
  BY <1>1
<1>3. Held' => menu' = {}
  BY <1>1 DEF Held
<1> QED
  BY <1>1, <1>2, <1>3 DEF TabsInv

LEMMA DownKeeps == ASSUME TabsInv, ~stale, NEW p \in TabPages, OnMouseDown(p) PROVE TabsInv'
<1>1. PICK i : i = IndexOf(tags, p)
  OBVIOUS
<1>2. tags \in Seq(TabPages) /\ p \in On(tags) /\ menu = {} /\ hydrated
  BY ContainsOn DEF OnMouseDown, TabsInv, GoodTags
<1>3. i \in 1..Len(tags)
  BY <1>1, <1>2, IndexOn
<1>4. PICK d : d = IF drag.at = "none" THEN [NoDrag EXCEPT !.at = "down", !.path = p, !.from = i]
                   ELSE [drag EXCEPT !.again = i]
  OBVIOUS
<1>5. Dragging(d)
  BY <1>1, <1>4 DEF OnMouseDown
<1>6. UNCHANGED pushed
  BY <1>5 DEF Dragging
<1>7. DragOK(d, tags, suppressed)
  <2>1. CASE drag.at = "none"
    <3>1. d = [at |-> "down", path |-> p, from |-> i, base |-> <<>>, insert |-> 0, again |-> 0]
      BY <1>4, <2>1 DEF NoDrag
    <3> QED
      BY <1>3, <3>1 DEF DragOK
  <2>2. CASE drag.at # "none"
    <3>1. PICK o : o = drag
      OBVIOUS
    <3>2. DragOK(o, tags, suppressed) /\ d = [o EXCEPT !.again = i]
      BY <1>4, <2>2, <3>1 DEF TabsInv
    <3>3. d \in [at : {o.at}, path : {o.path}, from : {o.from}, base : {o.base}, insert : {o.insert}, again : {i}]
      BY <3>2 DEF DragOK
    <3> QED
      BY <1>3, <3>2, <3>3 DEF DragOK
  <2> QED
    BY <2>1, <2>2
<1> QED
  BY <1>2, <1>5, <1>6, <1>7, DragKeeps

LEMMA MouseMoveKeeps == TabsInv /\ ~stale /\ OnMouseMove => TabsInv'
<1> SUFFICES ASSUME TabsInv, ~stale, OnMouseMove PROVE TabsInv'
  OBVIOUS
<1>1. PICK o : o = drag
  OBVIOUS
<1>2. DragOK(o, tags, suppressed) /\ (o.at \in {"down", "active"} => menu = {}) /\ hydrated
  BY <1>1 DEF TabsInv, Held
<1>3. tags \in Seq(TabPages) /\ Home \in On(tags)
  BY HomeOn DEF TabsInv, GoodTags
<1>4. CASE o.at = "down" /\ Dragging([o EXCEPT !.at = "active", !.base = tags, !.insert = o.from])
  <2>1. PICK ts : ts = tags
    OBVIOUS
  <2>2. PICK d : d = [o EXCEPT !.at = "active", !.base = ts, !.insert = o.from]
    OBVIOUS
  <2>3. d \in [at : {"active"}, path : {o.path}, from : {o.from}, base : {ts}, insert : {o.from}, again : {o.again}]
    BY <1>2, <2>2 DEF DragOK
  <2>4. o.from \in 1..(Len(ts) + 1)
    BY <1>2, <1>3, <1>4, <2>1 DEF DragOK
  <2>5. DragOK(d, ts, suppressed)
    BY <1>2, <1>3, <2>1, <2>3, <2>4 DEF DragOK
  <2>6. Dragging(d) /\ DragOK(d, tags, suppressed)
    BY <1>4, <2>1, <2>2, <2>5
  <2>7. UNCHANGED pushed
    BY <2>6 DEF Dragging
  <2> QED
    BY <1>2, <1>4, <2>6, <2>7, DragKeeps
<1>5. ASSUME o.at = "active", NEW i \in 1..(Len(o.base) + 1),
             Dragging([o EXCEPT !.insert = ComputeInsertIndex(o.base, i)])
      PROVE  TabsInv'
  <2>1. PICK j : j = ComputeInsertIndex(o.base, i)
    OBVIOUS
  <2>2. o.base \in Seq(TabPages) /\ Home \in On(o.base)
    BY <1>2, <1>5 DEF DragOK
  <2>3. j \in 1..(Len(o.base) + 1)
    <3>1. Pinned(o.base) = <<Home>>
      BY <2>2, ContainsOn DEF Pinned
    <3>2. Len(Pinned(o.base)) = 1
      BY <3>1
    <3>3. Len(o.base) \in Nat /\ Len(o.base) >= 1
      BY <2>2 DEF On
    <3>4. j = IF i > 1 THEN i ELSE 1 + 1
      BY <2>1, <3>2 DEF ComputeInsertIndex
    <3> QED
      BY <3>3, <3>4
  <2>4. PICK d : d = [o EXCEPT !.insert = j]
    OBVIOUS
  <2>5. d \in [at : {o.at}, path : {o.path}, from : {o.from}, base : {o.base}, insert : {j}, again : {o.again}]
    BY <1>2, <2>4 DEF DragOK
  <2>6. DragOK(d, tags, suppressed)
    BY <1>2, <1>5, <2>3, <2>5 DEF DragOK
  <2>7. Dragging(d)
    BY <1>5, <2>1, <2>4
  <2>8. UNCHANGED pushed
    BY <2>7 DEF Dragging
  <2> QED
    BY <1>2, <1>5, <2>6, <2>7, <2>8, DragKeeps
<1> QED
  BY <1>1, <1>4, <1>5 DEF OnMouseMove

LEMMA UpKeeps == TabsInv /\ ~stale /\ OnMouseUp => TabsInv'
<1> SUFFICES ASSUME TabsInv, ~stale, OnMouseUp PROVE TabsInv'
  OBVIOUS
<1>1. PICK o : o = drag
  OBVIOUS
<1>2. DragOK(o, tags, suppressed) /\ hydrated
  BY <1>1 DEF TabsInv
<1>3. CASE o.at = "down"
  <2>1. NavigateTo(o.path) /\ drag' = NoDrag
        /\ UNCHANGED <<stored, hydrated, tags, pathname, suppressed, stale, menu, closed>>
    BY <1>1, <1>3 DEF OnMouseUp
  <2>2. pushed' \subseteq TabPages
    BY <1>2, <2>1 DEF NavigateTo, TabsInv, DragOK
  <2>3. DragOK(NoDrag, tags, suppressed) /\ NoDrag.at = "none"
    BY DEF DragOK, NoDrag, TabPages
  <2> QED
    BY <2>1, <2>2, <2>3 DEF TabsInv, Held
<1>4. CASE o.at = "active"
  <2>1. PICK d : d = [o EXCEPT !.at = "settling"]
    OBVIOUS
  <2>2. d \in [at : {"settling"}, path : {o.path}, from : {o.from}, base : {o.base}, insert : {o.insert},
               again : {o.again}]
    BY <1>2, <2>1 DEF DragOK
  <2>3. DragOK(d, tags, suppressed)
    BY <1>2, <1>4, <2>2 DEF DragOK
  <2>4. Dragging(d)
    BY <1>1, <1>4, <2>1 DEF OnMouseUp
  <2>5. UNCHANGED pushed
    BY <2>4 DEF Dragging
  <2> QED
    BY <1>2, <2>2, <2>3, <2>4, <2>5, DragKeeps
<1> QED
  BY <1>1, <1>3, <1>4 DEF OnMouseUp

\* The drop brings back the list of the drag's beginning; what was closed since
\* is no longer.
LEMMA DropKeeps == TabsInv /\ ~stale /\ CompleteDrop => TabsInv'
<1> SUFFICES ASSUME TabsInv, ~stale, CompleteDrop PROVE TabsInv'
  OBVIOUS
<1>1. PICK o : o = drag
  OBVIOUS
<1>2. DragOK(o, tags, suppressed) /\ hydrated /\ o.at = "settling"
  BY <1>1 DEF TabsInv, CompleteDrop
<1>3. /\ o.base \in Seq(TabPages) /\ Home \in On(o.base) /\ o.insert \in 1..(Len(o.base) + 1)
      /\ suppressed \cap On(tags) \subseteq On(o.base)
  BY <1>2 DEF DragOK
<1>4. PICK from \in {o.from, o.again} \cap DOMAIN o.base :
          LET next == MoveToIndex(o.base, from, o.insert)
          IN  /\ IF next = tags THEN UNCHANGED <<stored, hydrated, tags, stale>> ELSE PersistTags(next)
              /\ closed' = closed \ Range(next)
  BY <1>1 DEF CompleteDrop
<1>5. PICK next : next = MoveToIndex(o.base, from, o.insert)
  OBVIOUS
<1>6. from \in 1..Len(o.base)
  BY <1>3, <1>4
<1>7. next \in Seq(TabPages) /\ On(next) = On(o.base)
  BY <1>3, <1>5, <1>6, MoveOn
<1>8. drag' = NoDrag /\ UNCHANGED <<pathname, pushed, suppressed, menu>>
  BY DEF CompleteDrop
<1>9. DragOK(NoDrag, tags', suppressed) /\ NoDrag.at = "none"
  BY DEF DragOK, NoDrag, TabPages
<1>10. closed' = closed \ On(next)
  BY <1>4, <1>5, <1>7, RangeOn
<1>11. suppressed \subseteq closed' \cup On(next)
  BY <1>3, <1>7, <1>10 DEF TabsInv
<1>12. CASE next = tags
  <2>1. UNCHANGED <<stored, hydrated, tags, stale>>
    BY <1>4, <1>5, <1>12
  <2>2. pathname \in On(tags) \cup closed'
    BY <1>10, <1>12 DEF TabsInv
  <2> QED
    BY <1>2, <1>8, <1>9, <1>10, <1>11, <1>12, <2>1, <2>2 DEF TabsInv, Held
<1>13. CASE next # tags
  <2>1. PICK z : z = NormalizeTagOrder(next)
    OBVIOUS
  <2>2. GoodTags(z) /\ On(z) = On(next)
    BY <1>3, <1>7, <2>1, NormalOn
  <2>3. stored' = {z} /\ hydrated' = TRUE /\ tags' = z /\ stale' = TRUE
    BY <1>4, <1>5, <1>13, <2>1 DEF PersistTags
  <2>4. z \in Seq(TabPages) /\ Home \in On(z)
    BY <2>2, HomeOn DEF GoodTags
  <2>5. closed' \cap On(z) = {} /\ suppressed \subseteq closed' \cup On(z)
    BY <1>10, <1>11, <2>2
  <2>6. pathname \in closed' => pathname \in suppressed
    BY <1>10 DEF TabsInv
  <2>7. menu \cap closed' = {}
    BY <1>10 DEF TabsInv
  <2> QED
    BY <1>8, <1>9, <2>2, <2>3, <2>4, <2>5, <2>6, <2>7 DEF TabsInv, Held
<1> QED
  BY <1>12, <1>13

LEMMA TabsKept == TabsInv /\ [TagsNext]_tagVars => TabsInv'
<1> SUFFICES ASSUME TabsInv, [TagsNext]_tagVars PROVE TabsInv'
  OBVIOUS
<1>1. CASE HydrateTags \/ EnsureEffect
  BY <1>1, HydrateKeeps, EffectKeeps
<1>2. CASE ~stale /\ (RouterArrives \/ CloseAll \/ CloseOthers \/ CloseRight \/ CloseLeft)
  BY <1>2, ArrivesKeeps, AllKeeps, OthersKeeps, RightKeeps, LeftKeeps
<1>3. CASE ~stale /\ (OnMouseMove \/ OnMouseUp \/ CompleteDrop)
  BY <1>3, MouseMoveKeeps, UpKeeps, DropKeeps
<1>4. ASSUME ~stale, NEW p \in TabPages, Visit(p) \/ CloseTag(p) \/ OpenContextMenu(p) \/ OnMouseDown(p)
      PROVE  TabsInv'
  BY <1>4, VisitKeeps, CloseTagKeeps, MenuKeeps, DownKeeps
<1>5. CASE UNCHANGED tagVars
  BY <1>5 DEF tagVars, TabsInv, Held
<1> QED
  BY <1>1, <1>2, <1>3, <1>4, <1>5 DEF TagsNext, TabPages

\* The tabs: they follow the visits, for any pages and any number of moves
\* (tags-view.tsx).
THEOREM TabsTheorem == TagsSpec => []TabsFollowVisits
<1>1. TabsInv => TabsFollowVisits
  BY RangeOn DEF TabsInv, TabsFollowVisits, GoodTags
<1> QED
  BY <1>1, TabsBegin, TabsKept, PTL DEF TagsSpec

-----------------------------------------------------------------------------
(* The administration pages.  A handler that holds the busy flag is one that *)
(* saves and is not over: none while the flag is down, a single one while it *)
(* is up.  No dialog, search, selection or load touches the flag; a handler  *)
(* that has given up and left requests behind no longer holds it.            *)

\* The fields of a page's view, and what a step leaves of its busy flag.
ViewFields == {"dialogs", "search", "selected", "people", "busy", "syncBusy", "preview", "role", "draft"}
Whole(v) == DOMAIN v = ViewFields
Keeps(v, w) == Whole(w) /\ w.busy = v.busy

\* The handlers that hold the flag.
Holders(ps) == {n \in DOMAIN ps : ps[n].do \in Saving /\ ps[n].phase # "over"}
CallFields == {"no", "do", "of", "got", "wire", "todo", "failed", "phase"}
HandlerOK(n, c) == DOMAIN c = CallFields /\ c.no = n
BusyInv ==
    /\ count.calls \in Nat
    /\ count = [calls |-> count.calls, faults |-> count.faults]
    /\ Whole(view) /\ view.busy \in BOOLEAN
    /\ \A n \in DOMAIN pending : n \in 1..count.calls /\ HandlerOK(n, pending[n])
    /\ view.busy => \E n : Holders(pending) = {n}
    /\ ~view.busy => Holders(pending) = {}

LEMMA BusyHolds == BusyInv => BusyIsExact
<1> SUFFICES ASSUME BusyInv PROVE BusyIsExact
  OBVIOUS
<1> PICK S : S = Holders(pending)
  OBVIOUS
<1>1. view.busy => Cardinality(S) = 1
  BY FS_Singleton DEF BusyInv
<1>2. ~view.busy => S = {}
  BY DEF BusyInv
<1> QED
  BY <1>1, <1>2 DEF BusyIsExact, Holders

LEMMA ViewKeeps ==
  ASSUME NEW v, Whole(v), NEW x, NEW y
  PROVE  /\ Keeps(v, v)
         /\ Keeps(v, [v EXCEPT !.dialogs = x]) /\ Keeps(v, [v EXCEPT !.search = x])
         /\ Keeps(v, [v EXCEPT !.selected = x]) /\ Keeps(v, [v EXCEPT !.people = x])
         /\ Keeps(v, [v EXCEPT !.syncBusy = x]) /\ Keeps(v, [v EXCEPT !.preview = x])
         /\ Keeps(v, [v EXCEPT !.role = x]) /\ Keeps(v, [v EXCEPT !.draft = x])
         /\ Keeps(v, [v EXCEPT !.people = x, !.selected = y])
         /\ Whole([v EXCEPT !.busy = x]) /\ [v EXCEPT !.busy = x].busy = x
         /\ Whole([v EXCEPT !.busy = x, !.syncBusy = y]) /\ [v EXCEPT !.busy = x, !.syncBusy = y].busy = x
BY DEF Keeps, Whole, ViewFields

LEMMA DialogKeeps ==
  ASSUME NEW v, Whole(v), NEW d, NEW x, NEW y
  PROVE  Keeps(v, WithDialog(v, d, x, y)) /\ Keeps(v, WithoutDialog(v, d))
BY DEF WithDialog, WithoutDialog, Keeps, Whole, ViewFields

\* Handlers that stay as they are.
LEMMA LookOK ==
  ASSUME BusyInv, UNCHANGED <<pending, count>>, Keeps(view, view')
  PROVE  BusyInv'
BY DEF BusyInv, Keeps, Whole, Holders, HandlerOK

LEMMA SendOK ==
  ASSUME BusyInv, NEW v, NEW do, NEW of, NEW reqs, NEW atOnce, SendWith(v, do, of, reqs, atOnce),
         \/ do \notin Saving /\ Keeps(view, v)
         \/ do \in Saving /\ ~view.busy /\ Whole(v) /\ v.busy = TRUE
  PROVE  BusyInv'
<1> PICK n : n = count.calls + 1
  OBVIOUS
<1> PICK c : c = Call(do, of, reqs, atOnce)
  OBVIOUS
<1>1. /\ count' = [count EXCEPT !.calls = n] /\ view' = v
      /\ pending' = [m \in DOMAIN pending \cup {n} |-> IF m = n THEN c ELSE pending[m]]
  BY DEF SendWith, Extended
<1>2. /\ count'.calls = n /\ count' = [calls |-> count'.calls, faults |-> count'.faults]
      /\ n \in Nat /\ n \notin 1..count.calls /\ n \in 1..n /\ 1..count.calls \subseteq 1..n
  BY <1>1 DEF BusyInv
<1>3. HandlerOK(n, c) /\ c.do = do /\ c.phase = "waiting"
  BY DEF Call, HandlerOK, CallFields
<1>4. n \notin DOMAIN pending
  BY <1>2 DEF BusyInv
<1>5. /\ DOMAIN pending' = DOMAIN pending \cup {n}
      /\ pending'[n] = c /\ \A m \in DOMAIN pending : pending'[m] = pending[m]
  BY <1>1, <1>4
<1>6. \A m \in DOMAIN pending' : m \in 1..n /\ HandlerOK(m, pending'[m])
  BY <1>2, <1>3, <1>4, <1>5 DEF BusyInv
<1>7. Holders(pending') = IF do \in Saving THEN Holders(pending) \cup {n} ELSE Holders(pending)
  BY <1>3, <1>4, <1>5 DEF Holders
<1>8. CASE do \notin Saving /\ Keeps(view, v)
  <2>1. Whole(view)' /\ view'.busy = view.busy
    BY <1>1, <1>8 DEF Keeps, Whole
  <2> QED
    BY <1>2, <1>5, <1>6, <1>7, <1>8, <2>1 DEF BusyInv, Holders, HandlerOK
<1>9. CASE do \in Saving /\ ~view.busy /\ Whole(v) /\ v.busy = TRUE
  <2>1. ~view.busy /\ Whole(view)' /\ view'.busy = TRUE
    BY <1>1, <1>9 DEF Whole
  <2>2. Holders(pending') = {n}
    BY <1>7, <1>9, <2>1 DEF BusyInv
  <2> QED
    BY <1>2, <1>5, <1>6, <2>1, <2>2 DEF BusyInv, Holders, HandlerOK
<1> QED
  BY <1>8, <1>9

\* A handler goes on, without having held or given up the flag.
LEMMA PutOK ==
  ASSUME BusyInv, NEW n \in DOMAIN pending, NEW d, pending' = [pending EXCEPT ![n] = d], HandlerOK(n, d),
         d.do = pending[n].do, d.phase # "over" <=> pending[n].phase # "over", Keeps(view, view'),
         count'.calls = count.calls, count' = [calls |-> count'.calls, faults |-> count'.faults]
  PROVE  BusyInv'
<1>1. /\ DOMAIN pending' = DOMAIN pending
      /\ pending'[n] = d /\ \A m \in DOMAIN pending : m # n => pending'[m] = pending[m]
  BY DEF BusyInv
<1>2. \A m \in DOMAIN pending' : m \in 1..count.calls /\ HandlerOK(m, pending'[m])
  BY <1>1 DEF BusyInv
<1>3. Holders(pending') = Holders(pending)
  BY <1>1 DEF Holders
<1>4. Whole(view)' /\ view'.busy = view.busy
  BY DEF Keeps, Whole
<1> QED
  BY <1>1, <1>2, <1>3, <1>4 DEF BusyInv, Holders, HandlerOK

LEMMA EndsOK ==
  ASSUME BusyInv, NEW n \in DOMAIN pending, CallEnds(pending[n]), pending[n].phase # "over", UNCHANGED count,
         Whole(view'), view'.busy = (view.busy /\ pending[n].do \notin Saving)
  PROVE  BusyInv'
<1> PICK c : c = pending[n]
  OBVIOUS
<1>1. c.no = n /\ HandlerOK(n, c)
  BY DEF BusyInv, HandlerOK
<1>2.
      /\ DOMAIN pending' \subseteq DOMAIN pending
      /\ \A m \in DOMAIN pending : m # n => m \in DOMAIN pending' /\ pending'[m] = pending[m]
      /\ n \in DOMAIN pending' => pending'[n].phase = "over" /\ HandlerOK(n, pending'[n])
  <2>1. CASE c.wire = {}
    <3>1. pending' = [m \in DOMAIN pending \ {n} |-> pending[m]]
      BY <1>1, <2>1 DEF CallEnds, Restrict
    <3> QED
      BY <3>1
  <2>2. CASE c.wire # {}
    <3> PICK d : d = [c EXCEPT !.phase = "over"]
      OBVIOUS
    <3>1. pending' = [pending EXCEPT ![n] = d]
      BY <1>1, <2>2 DEF CallEnds
    <3>2. d.phase = "over" /\ HandlerOK(n, d)
      BY <1>1 DEF HandlerOK, CallFields
    <3> QED
      BY <3>1, <3>2 DEF BusyInv
  <2> QED
    BY <2>1, <2>2
<1>3. Holders(pending') = Holders(pending) \ {n}
  BY <1>2 DEF Holders
<1>4. c.do \in Saving => view.busy /\ Holders(pending) = {n}
  <2>1. c.do \in Saving => n \in Holders(pending)
    BY DEF Holders
  <2> QED
    BY <2>1 DEF BusyInv
<1>5. c.do \notin Saving => n \notin Holders(pending)
  BY DEF Holders
<1>6. \A m \in DOMAIN pending' : m \in 1..count.calls /\ HandlerOK(m, pending'[m])
  BY <1>2 DEF BusyInv
<1>7. CASE c.do \in Saving
  <2>1. Holders(pending') = {} /\ view'.busy = FALSE
    BY <1>3, <1>4, <1>7
  <2> QED
    BY <1>2, <1>6, <2>1 DEF BusyInv, Holders, HandlerOK, Whole
<1>8. CASE c.do \notin Saving
  <2>1. Holders(pending') = Holders(pending) /\ view'.busy = view.busy
    BY <1>3, <1>5, <1>8 DEF BusyInv
  <2> QED
    BY <1>2, <1>6, <2>1 DEF BusyInv, Holders, HandlerOK, Whole
<1> QED
  BY <1>7, <1>8

LEMMA ShowOK ==
  ASSUME BusyInv, NEW d, NEW of, NEW value, Show(d, of, value)
  PROVE  BusyInv'
<1> PICK w : w = view
  OBVIOUS
<1>1. Keeps(w, WithDialog(w, d, of, value))
  BY DialogKeeps DEF BusyInv
<1> QED
  BY <1>1, LookOK DEF Show, Look

LEMMA ReloadOK ==
  ASSUME BusyInv, NEW v, Reload(v), Keeps(view, v)
  PROVE  BusyInv'
<1>1. UNCHANGED pending /\ Whole(view') /\ view'.busy = view.busy
  BY DEF Reload, Keeps
<1>2. /\ count'.calls = count.calls + 1 /\ count' = [calls |-> count'.calls, faults |-> count'.faults]
      /\ count'.calls \in Nat /\ 1..count.calls \subseteq 1..count'.calls
  BY DEF Reload, BusyInv
<1> QED
  BY <1>1, <1>2 DEF BusyInv, Whole, Holders, HandlerOK

\* A form is sent: the flag was down and goes up.
LEMMA SaveOK ==
  ASSUME BusyInv, NEW d, NEW do \in Saving, NEW reqs, Save(d, do, reqs)
  PROVE  BusyInv'
<1> PICK v : v = [view EXCEPT !.busy = TRUE]
  OBVIOUS
<1> PICK of : of = Dialog(d).of
  OBVIOUS
<1>1. Whole(v) /\ v.busy = TRUE
  BY ViewKeeps DEF BusyInv
<1>2. SendWith(v, do, of, reqs, FALSE) /\ ~view.busy
  BY DEF Save, CanConfirm
<1> QED
  BY <1>1, <1>2, SendOK

LEMMA PlainSendOK ==
  ASSUME BusyInv, NEW do, do \notin Saving, NEW of, NEW reqs, Send(do, of, reqs)
  PROVE  BusyInv'
<1> PICK v : v = view
  OBVIOUS
<1>1. SendWith(v, do, of, reqs, FALSE) /\ Keeps(view, v)
  BY ViewKeeps DEF Send, BusyInv
<1> QED
  BY <1>1, SendOK

LEMMA SyncOK ==
  ASSUME BusyInv, NEW do, do \notin Saving, NEW of, NEW reqs, Sync(do, of, reqs)
  PROVE  BusyInv'
<1> PICK v : v = [view EXCEPT !.syncBusy = TRUE]
  OBVIOUS
<1>1. SendWith(v, do, of, reqs, FALSE) /\ Keeps(view, v)
  BY ViewKeeps DEF Sync, BusyInv
<1> QED
  BY <1>1, SendOK

LEMMA UsersPageOK ==
  ASSUME BusyInv, UsersPage
  PROVE  BusyInv'
<1>1. ASSUME SearchUsers PROVE BusyInv'
  <2> PICK s : Reload([view EXCEPT !.search = s])
    BY <1>1 DEF SearchUsers
  <2> PICK v : v = [view EXCEPT !.search = s]
    OBVIOUS
  <2>1. Reload(v) /\ Keeps(view, v)
    BY ViewKeeps DEF BusyInv
  <2> QED
    BY <2>1, ReloadOK
<1>2. ASSUME OpenUserForm PROVE BusyInv'
  BY <1>2, ShowOK DEF OpenUserForm
<1>3. ASSUME SaveUser PROVE BusyInv'
  BY <1>3, SaveOK DEF SaveUser, Saving
<1>4. ASSUME UserRowActions PROVE BusyInv'
  BY <1>4, ShowOK, PlainSendOK DEF UserRowActions, ToggleEnable, Saving
<1>5. ASSUME ConfirmDeleteUser PROVE BusyInv'
  BY <1>5, PlainSendOK DEF ConfirmDeleteUser, Saving
<1>6. ASSUME ConfirmResetPassword PROVE BusyInv'
  BY <1>6, SaveOK DEF ConfirmResetPassword, Saving
<1> QED
  BY <1>1, <1>2, <1>3, <1>4, <1>5, <1>6 DEF UsersPage

LEMMA RolesPageOK ==
  ASSUME BusyInv, RolesPage
  PROVE  BusyInv'
<1>1. ASSUME OpenRoleForm PROVE BusyInv'
  BY <1>1, ShowOK DEF OpenRoleForm
<1>2. ASSUME SubmitRoleForm PROVE BusyInv'
  BY <1>2, SaveOK DEF SubmitRoleForm, Saving
<1>3. ASSUME OpenPermission \/ \E r \in Rows("roles") : ~r.locked /\ Show("delete", r.id, {})
      PROVE  BusyInv'
  BY <1>3, ShowOK DEF OpenPermission
<1>4. ASSUME OpenAssignUsers PROVE BusyInv'
  <2> PICK r \in Rows("roles") :
        SendWith(WithDialog(view, "assign", r.id, {}), "openAssign", r.id, <<[op |-> "listUsers"]>>, FALSE)
    BY <1>4 DEF OpenAssignUsers
  <2> PICK v : v = WithDialog(view, "assign", r.id, {})
    OBVIOUS
  <2>1. SendWith(v, "openAssign", r.id, <<[op |-> "listUsers"]>>, FALSE) /\ Keeps(view, v)
    BY DialogKeeps DEF BusyInv
  <2> QED
    BY <2>1, SendOK DEF Saving
<1>5. ASSUME ChangeDataScope \/ ConfirmDeleteRole PROVE BusyInv'
  BY <1>5, PlainSendOK DEF ChangeDataScope, ConfirmDeleteRole, Saving
<1>6. ASSUME SavePermission PROVE BusyInv'
  BY <1>6, SaveOK DEF SavePermission, Saving
<1>7. ASSUME AssignedUsersTable PROVE BusyInv'
  <2> PICK u : Look([view EXCEPT !.selected = Toggled(@, u)])
    BY <1>7 DEF AssignedUsersTable
  <2>1. UNCHANGED <<pending, count>> /\ Keeps(view, view')
    BY ViewKeeps DEF BusyInv, Look
  <2> QED
    BY <2>1, LookOK
<1>8. ASSUME ConfirmAssignUsers PROVE BusyInv'
  BY <1>8, SaveOK DEF ConfirmAssignUsers, Saving
<1> QED
  BY <1>1, <1>2, <1>3, <1>4, <1>5, <1>6, <1>7, <1>8 DEF RolesPage, RoleRowActions

LEMMA MenusPageOK ==
  ASSUME BusyInv, MenusPage
  PROVE  BusyInv'
<1>1. ASSUME OpenMenuForm \/ MenuRowActions PROVE BusyInv'
  BY <1>1, ShowOK DEF OpenMenuForm, MenuRowActions, OpenAssignRoles
<1>2. ASSUME SaveMenu PROVE BusyInv'
  BY <1>2, SaveOK DEF SaveMenu, Saving
<1>3. ASSUME ConfirmAssignRoles PROVE BusyInv'
  <2> PICK v, of, reqs : v = [view EXCEPT !.busy = TRUE] /\ SendWith(v, "assignMenu", of, reqs, TRUE)
    BY <1>3 DEF ConfirmAssignRoles
  <2>1. Whole(v) /\ v.busy = TRUE /\ ~view.busy
    BY <1>3, ViewKeeps DEF BusyInv, ConfirmAssignRoles, CanConfirm
  <2> QED
    BY <2>1, SendOK DEF Saving
<1>4. ASSUME ConfirmDeleteMenu PROVE BusyInv'
  BY <1>4, PlainSendOK DEF ConfirmDeleteMenu, Saving
<1> QED
  BY <1>1, <1>2, <1>3, <1>4 DEF MenusPage

LEMMA ApisPageOK ==
  ASSUME BusyInv, ApisPage
  PROVE  BusyInv'
<1>1. ASSUME SearchApis \/ SelectApis PROVE BusyInv'
  <2> PICK x : Look([view EXCEPT !.search = x]) \/ Look([view EXCEPT !.selected = x])
    BY <1>1 DEF SearchApis, SelectApis
  <2>1. \/ view' = [view EXCEPT !.search = x]
        \/ view' = [view EXCEPT !.selected = x]
    BY DEF Look
  <2>2. UNCHANGED <<pending, count>>
    BY DEF Look
  <2>3. Keeps(view, [view EXCEPT !.search = x]) /\ Keeps(view, [view EXCEPT !.selected = x])
    BY ViewKeeps DEF BusyInv
  <2>4. Keeps(view, view')
    BY <2>1, <2>3
  <2> QED
    BY <2>2, <2>4, LookOK
<1>2. ASSUME OpenApiForm \/ ApiRowActions PROVE BusyInv'
  BY <1>2, ShowOK DEF OpenApiForm, ApiRowActions, OpenAssignApi
<1>3. ASSUME SaveApi PROVE BusyInv'
  BY <1>3, SaveOK DEF SaveApi, Saving
<1>4. ASSUME ConfirmDeleteApi \/ ConfirmBatchDelete PROVE BusyInv'
  BY <1>4, PlainSendOK DEF ConfirmDeleteApi, ConfirmBatchDelete, Saving
<1>5. ASSUME ApisToolbar PROVE BusyInv'
  <2>1. ASSUME Show("batch", New, {}) \/ Show("refresh", New, {}) PROVE BusyInv'
    BY <2>1, ShowOK
  <2>2. ASSUME OpenSyncDrawer PROVE BusyInv'
    BY <2>2, SyncOK DEF OpenSyncDrawer, Saving
  <2>3. ASSUME ImportApis PROVE BusyInv'
    BY <2>3, PlainSendOK DEF ImportApis, Saving
  <2> QED
    BY <1>5, <2>1, <2>2, <2>3 DEF ApisToolbar
<1>6. ASSUME SyncDrawer PROVE BusyInv'
  BY <1>6, SyncOK DEF SyncDrawer, ApplySync, AddOneSyncApi, ToggleIgnoreSyncApi, Saving
<1>7. ASSUME ConfirmRefresh PROVE BusyInv'
  <2> PICK v : v = WithoutDialog(view, "refresh")
    OBVIOUS
  <2>1. Reload(v) /\ Keeps(view, v)
    BY <1>7, DialogKeeps DEF BusyInv, ConfirmRefresh
  <2> QED
    BY <2>1, ReloadOK
<1>8. ASSUME ConfirmAssignApi PROVE BusyInv'
  <2> PICK v, of, reqs : v = [view EXCEPT !.busy = TRUE] /\ SendWith(v, "assignApi", of, reqs, FALSE)
    BY <1>8 DEF ConfirmAssignApi
  <2>1. Whole(v) /\ v.busy = TRUE /\ ~view.busy
    BY <1>8, ViewKeeps DEF BusyInv, ConfirmAssignApi, CanConfirm
  <2> QED
    BY <2>1, SendOK DEF Saving
<1> QED
  BY <1>1, <1>2, <1>3, <1>4, <1>5, <1>6, <1>7, <1>8 DEF ApisPage

LEMMA CasbinPageOK ==
  ASSUME BusyInv, CasbinPage
  PROVE  BusyInv'
<1>1. ASSUME SelectRole PROVE BusyInv'
  <2> PICK r : Look([view EXCEPT !.role = r])
    BY <1>1 DEF SelectRole
  <2>1. UNCHANGED <<pending, count>> /\ Keeps(view, view')
    BY ViewKeeps DEF BusyInv, Look
  <2> QED
    BY <2>1, LookOK
<1>2. ASSUME ToggleKey PROVE BusyInv'
  <2> PICK x : Look([view EXCEPT !.draft = x])
    BY <1>2 DEF ToggleKey
  <2>1. UNCHANGED <<pending, count>> /\ Keeps(view, view')
    BY ViewKeeps DEF BusyInv, Look
  <2> QED
    BY <2>1, LookOK
<1>3. ASSUME SaveCasbin PROVE BusyInv'
  <2> PICK v, of, reqs : v = [view EXCEPT !.busy = TRUE] /\ SendWith(v, "saveCasbin", of, reqs, FALSE)
    BY <1>3 DEF SaveCasbin
  <2>1. Whole(v) /\ v.busy = TRUE /\ ~view.busy
    BY <1>3, ViewKeeps DEF BusyInv, SaveCasbin
  <2> QED
    BY <2>1, SendOK DEF Saving
<1> QED
  BY <1>1, <1>2, <1>3 DEF CasbinPage

LEMMA UserActsOK ==
  ASSUME BusyInv, UserActs
  PROVE  BusyInv'
<1>1. ASSUME CloseDialog PROVE BusyInv'
  <2> PICK d : Look(WithoutDialog(view, d))
    BY <1>1 DEF CloseDialog
  <2>1. UNCHANGED <<pending, count>> /\ Keeps(view, view')
    BY DialogKeeps DEF BusyInv, Look
  <2> QED
    BY <2>1, LookOK
<1> QED
  BY <1>1, UsersPageOK, RolesPageOK, MenusPageOK, ApisPageOK, CasbinPageOK DEF UserActs

LEMMA LoadsOK ==
  ASSUME BusyInv, NEW l \in list.loads, LoadInstalls(l) \/ LoadFails(l) \/ \E f \in Fetched : LoadReads(l, f)
  PROVE  BusyInv'
<1>1. ASSUME LoadInstalls(l) \/ \E f \in Fetched : LoadReads(l, f) PROVE BusyInv'
  <2>1. UNCHANGED <<pending, count>> /\ view' \in {view, [view EXCEPT !.draft = <<>>]}
    BY <1>1 DEF LoadInstalls, LoadReads
  <2>2. Keeps(view, view) /\ \A x : Keeps(view, [view EXCEPT !.draft = x])
    BY ViewKeeps DEF BusyInv
  <2>3. Keeps(view, view')
    BY <2>1, <2>2
  <2> QED
    BY <2>1, <2>3, LookOK
<1>2. ASSUME LoadFails(l) PROVE BusyInv'
  BY <1>2 DEF BusyInv, Keeps, Whole, Holders, HandlerOK, LoadFails
<1> QED
  BY <1>1, <1>2

\* The handler goes on under its name and in its phase.
Goes(n, c, d) == HandlerOK(n, d) /\ d.do = c.do /\ d.phase = c.phase

LEMMA GoesOn ==
  ASSUME NEW n, NEW c, HandlerOK(n, c), NEW x, NEW y, NEW z
  PROVE  /\ Goes(n, c, [c EXCEPT !.wire = x, !.todo = y, !.got = z])
         /\ Goes(n, c, [c EXCEPT !.wire = x, !.todo = y, !.failed = z])
         /\ Goes(n, c, [c EXCEPT !.wire = x, !.got = y])
         /\ Goes(n, c, [c EXCEPT !.wire = x])
<1> DEFINE a == [c EXCEPT !.wire = x, !.todo = y, !.got = z]
<1> DEFINE b == [c EXCEPT !.wire = x, !.todo = y, !.failed = z]
<1> DEFINE d == [c EXCEPT !.wire = x, !.got = y]
<1> DEFINE e == [c EXCEPT !.wire = x]
<1>1. Goes(n, c, a)
  BY DEF Goes, HandlerOK, CallFields
<1>2. Goes(n, c, b)
  BY DEF Goes, HandlerOK, CallFields
<1>3. Goes(n, c, d)
  BY DEF Goes, HandlerOK, CallFields
<1>4. Goes(n, c, e)
  BY DEF Goes, HandlerOK, CallFields
<1> QED
  BY <1>1, <1>2, <1>3, <1>4

\* A request goes on: its handler keeps its name and its phase.
LEMMA WireOK ==
  ASSUME BusyInv, NEW n \in DOMAIN pending, NEW q \in pending[n].wire,
         ServerReads(pending[n], q) \/ ServerSaves(pending[n], q) \/ RequestFails(pending[n], q)
  PROVE  BusyInv'
<1> PICK c : c = pending[n]
  OBVIOUS
<1>1. HandlerOK(n, c) /\ c.no = n
  BY DEF BusyInv, HandlerOK
<1>2. UNCHANGED view /\ Keeps(view, view') /\ count'.calls = count.calls
      /\ count' = [calls |-> count'.calls, faults |-> count'.faults]
  BY ViewKeeps DEF BusyInv, ServerReads, ServerSaves, RequestFails
<1>3. ASSUME ServerReads(c, q) PROVE \E d : Put(c, d) /\ Goes(n, c, d)
  <2>1. CASE q.in.op \in Reads
    <3> PICK x, y : Put(c, [c EXCEPT !.wire = x, !.got = y])
      BY <1>3, <2>1 DEF ServerReads
    <3>1. Goes(n, c, [c EXCEPT !.wire = x, !.got = y])
      BY <1>1, GoesOn
    <3> QED
      BY <3>1
  <2>2. CASE q.in.op \notin Reads
    <3>1. \/ Put(c, Failed(c, q))
          \/ \E x : Put(c, [c EXCEPT !.wire = x])
      BY <1>3, <2>2 DEF ServerReads
    <3>2. Goes(n, c, Failed(c, q))
      BY <1>1, GoesOn DEF Failed
    <3> QED
      BY <1>1, <3>1, <3>2, GoesOn
  <2> QED
    BY <2>1, <2>2
<1>4. ASSUME ServerSaves(c, q) PROVE \E d : Put(c, d) /\ Goes(n, c, d)
  <2> PICK x, y, z : Put(c, [c EXCEPT !.wire = x, !.todo = y, !.got = z])
    BY <1>4 DEF ServerSaves
  <2>1. Goes(n, c, [c EXCEPT !.wire = x, !.todo = y, !.got = z])
    BY <1>1, GoesOn
  <2> QED
    BY <2>1
<1>5. ASSUME RequestFails(c, q) PROVE \E d : Put(c, d) /\ Goes(n, c, d)
  <2>1. Put(c, Failed(c, q))
    BY <1>5 DEF RequestFails
  <2>2. Goes(n, c, Failed(c, q))
    BY <1>1, GoesOn DEF Failed
  <2> QED
    BY <2>1, <2>2
<1> PICK d : Put(c, d) /\ Goes(n, c, d)
  BY <1>3, <1>4, <1>5
<1>6. pending' = [pending EXCEPT ![n] = d]
  BY <1>1 DEF Put
<1> QED
  BY <1>2, <1>6, PutOK DEF Goes

\* The rest of a handler after its requests leaves the flag alone.
LEMMA AfterKeeps ==
  ASSUME NEW v, Whole(v), NEW c
  PROVE  Keeps(v, After(c, v))
<1>1. CASE c.do = "previewSync"
  <2>1. PICK x : x = CHOOSE p \in c.got : TRUE
    OBVIOUS
  <2>2. PICK w : w = [v EXCEPT !.preview = x]
    OBVIOUS
  <2>3. After(c, v) = WithDialog(w, "sync", New, {})
    BY <1>1, <2>1, <2>2 DEF After
  <2>4. Whole(w) /\ w.busy = v.busy
    BY <2>2, ViewKeeps DEF Keeps
  <2>5. Keeps(w, WithDialog(w, "sync", New, {}))
    BY <2>4, DialogKeeps
  <2> QED
    BY <2>3, <2>4, <2>5 DEF Keeps
<1>2. CASE c.do # "previewSync"
  BY <1>2 DEF After, Keeps, Whole, ViewFields
<1> QED
  BY <1>1, <1>2

LEMMA OverReleases ==
  ASSUME NEW c, NEW v, Whole(v), v.busy \in BOOLEAN
  PROVE  Whole(Over(c, v)) /\ Over(c, v).busy = (v.busy /\ c.do \notin Saving)
BY DEF Over, Whole, ViewFields

LEMMA SettleOK ==
  ASSUME BusyInv, NEW n \in DOMAIN pending, Settle(pending[n])
  PROVE  BusyInv'
<1> PICK c : c = pending[n]
  OBVIOUS
<1> PICK v : v = view
  OBVIOUS
<1> PICK w : w = After(c, WithoutDialog(v, Closes(c.do)))
  OBVIOUS
<1>1. c.no = n /\ HandlerOK(n, c) /\ c.phase = "waiting" /\ UNCHANGED count
  BY DEF BusyInv, HandlerOK, Settle
<1>2. Whole(v) /\ v.busy \in BOOLEAN
  BY DEF BusyInv
<1>3. Keeps(v, w)
  <2> PICK u : u = WithoutDialog(v, Closes(c.do))
    OBVIOUS
  <2>1. Keeps(v, u)
    BY <1>2, DialogKeeps
  <2>2. Keeps(u, After(c, u))
    BY <2>1, AfterKeeps DEF Keeps
  <2> QED
    BY <2>1, <2>2 DEF Keeps
<1>4. CASE CallEnds(c) /\ (view' = Over(c, v) \/ view' = Over(c, w))
  <2>1. w.busy \in BOOLEAN /\ Whole(w) /\ w.busy = v.busy
    BY <1>2, <1>3 DEF Keeps
  <2>2. Whole(view') /\ view'.busy = (v.busy /\ c.do \notin Saving)
    BY <1>2, <1>4, <2>1, OverReleases
  <2> QED
    BY <1>1, <1>4, <2>2, EndsOK
<1>5. CASE Put(c, [c EXCEPT !.phase = "refreshing"]) /\ view' = w
  <2> PICK d : d = [c EXCEPT !.phase = "refreshing"]
    OBVIOUS
  <2>1. HandlerOK(n, d) /\ d.do = c.do /\ d.phase = "refreshing"
    BY <1>1 DEF HandlerOK, CallFields
  <2>2. pending' = [pending EXCEPT ![n] = d]
    BY <1>1, <1>5 DEF Put
  <2>3. Keeps(view, view')
    BY <1>3, <1>5
  <2>4. count'.calls = count.calls /\ count' = [calls |-> count'.calls, faults |-> count'.faults]
    BY <1>1 DEF BusyInv
  <2> QED
    BY <1>1, <2>1, <2>2, <2>3, <2>4, PutOK
<1> QED
  BY <1>4, <1>5 DEF Settle

LEMMA SessionRefreshedOK ==
  ASSUME BusyInv, NEW n \in DOMAIN pending, SessionRefreshed(pending[n])
  PROVE  BusyInv'
<1> PICK c : c = pending[n]
  OBVIOUS
<1> PICK v : v = view
  OBVIOUS
<1>1. Whole(v) /\ v.busy \in BOOLEAN
  BY DEF BusyInv
<1>2. CallEnds(c) /\ c.phase # "over" /\ UNCHANGED count /\ view' = Over(c, v)
  BY DEF SessionRefreshed
<1>3. Whole(view') /\ view'.busy = (view.busy /\ c.do \notin Saving)
  BY <1>1, <1>2, OverReleases
<1> QED
  BY <1>2, <1>3, EndsOK

LEMMA BusyBegins == PagesInit => BusyInv
<1> SUFFICES ASSUME PagesInit PROVE BusyInv
  OBVIOUS
<1>1. Whole(view) /\ view.busy = FALSE
  BY DEF PagesInit, Whole, ViewFields
<1>2. count.calls \in Nat /\ count = [calls |-> count.calls, faults |-> count.faults]
  BY DEF PagesInit
<1>3. pending = <<>>
  BY DEF PagesInit
<1>4. DOMAIN pending = {}
  BY <1>3
<1> QED
  BY <1>1, <1>2, <1>4 DEF BusyInv, Holders

LEMMA BusyKept == BusyInv /\ [PagesNext]_<<vars, pageVars>> => BusyInv'
<1> SUFFICES ASSUME BusyInv, [PagesNext]_<<vars, pageVars>> PROVE BusyInv'
  OBVIOUS
<1>1. CASE PagesNext
  BY <1>1, UserActsOK, LoadsOK, WireOK, SettleOK, SessionRefreshedOK DEF PagesNext
<1>2. CASE UNCHANGED <<vars, pageVars>>
  BY <1>2 DEF pageVars, BusyInv, Whole, Holders, HandlerOK
<1> QED
  BY <1>1, <1>2

\* The administration pages: the busy flag is set exactly while one save is
\* under way, on every page, for any contents of the store and any number of
\* handlers and faults (setBusy and its finally in the pages' handlers).
THEOREM BusyTheorem == PagesSpec => []BusyIsExact
BY BusyBegins, BusyKept, BusyHolds, PTL DEF PagesSpec

-----------------------------------------------------------------------------
(* A page with nothing under way.  While no load or change has gone wrong    *)
(* since the last list was asked for, every list is what the server would    *)
(* answer, unless a handler that is still waiting will load it again.  The   *)
(* page of the APIs writes one list by itself, after assigning an API to     *)
(* roles: it holds because the requests of that handler rewrite the policies *)
(* of every role there is, and nobody else on the page changes them.         *)

\* A finite set is written down as a sequence, each element once.
LEMMA Ranged ==
  ASSUME NEW f, IsFiniteSet(DOMAIN f)
  PROVE  IsFiniteSet({f[x] : x \in DOMAIN f})
<1> DEFINE T == {f[x] : x \in DOMAIN f}
<1> DEFINE g == [x \in DOMAIN f |-> f[x]]
<1>1. g \in Surjection(DOMAIN f, T)
  BY DEF Surjection
<1> QED
  BY <1>1, FS_Surjection

LEMMA InTurn ==
  ASSUME NEW S, IsFiniteSet(S)
  PROVE  /\ SetToSeq(S) \in Seq(S)
         /\ \A i \in DOMAIN SetToSeq(S) : SetToSeq(S)[i] \in S
         /\ \A x \in S : \E i \in DOMAIN SetToSeq(S) : SetToSeq(S)[i] = x
<1> PICK n : n = Cardinality(S)
  OBVIOUS
<1>1. n \in Nat /\ ExistsBijection(1..n, S)
  BY FS_CardinalityType
<1>2. \E f \in [1..n -> S] : IsInjective(f)
  BY <1>1 DEF ExistsBijection, Bijection, Injection, IsInjective
<1> PICK g : g = SetToSeq(S)
  OBVIOUS
<1>3. g \in [1..n -> S] /\ IsInjective(g)
  BY <1>2 DEF SetToSeq
<1>4. g \in Injection(1..n, S)
  BY <1>3 DEF Injection, IsInjective
<1>5. Cardinality(1..n) = n
  BY <1>1, FS_Interval
<1>6. g \in Surjection(1..n, S)
  BY <1>4, <1>5, FS_Injection
<1>7. g \in Seq(S) /\ DOMAIN g = 1..n
  BY <1>1, <1>3
<1> QED
  BY <1>3, <1>6, <1>7 DEF Surjection

\* The fields of the records, and the rows that a page can meet.
Files == {"users", "roles", "policies", "menus", "apis", "ignores"}
ListFields == {"shown", "from", "latest", "trouble", "loads"}
PlanFields == {"new", "delete", "ignore"}
SeedRoles == {[id |-> Super, parent |-> NoRole, locked |-> TRUE, menus |-> {1, 2}, granted |-> 0],
              [id |-> "editor", parent |-> NoRole, locked |-> FALSE, menus |-> {2}, granted |-> 0]}
Named == {Super, "editor"}
PoliciesOK(ps) == \A p \in ps : p = [role |-> p.role, route |-> p.route] /\ p.role \in Named
OfRole(ps, r) == {p \in ps : p.role = r}
RowsOK(f, rows) ==
    /\ f = "roles" => rows = SeedRoles
    /\ f = "policies" => PoliciesOK(rows)
    /\ f = "apis" => IsFiniteSet(rows)

\* Which handlers a page has, and what they ask for.  The other handlers load
\* the lists again: on other pages than that of the APIs, whatever they send.
Replacement(ps, r) == [op |-> "replaceCasbin", role |-> r, routes |-> RoutesOf(ps, r)]
ApiOps == {"createApi", "updateApi", "deleteApi", "saveIgnores", "ignoreApi", "previewSync"}
DoOK(p, do) ==
    /\ do \in Reloading \cup {"openAssign", "previewSync", "resetPassword", "assignUsers", "ignoreSync", "assignApi"}
    /\ do \in {"openAssign", "assignUsers"} => p = "roles"
    /\ do = "assignApi" => p = "apis"
    /\ p = "apis" => do # "resetPassword"
Strict(p, do) == p = "apis" \/ do \notin Reloading
InOK(p, do, in) ==
    /\ do \in {"openAssign", "previewSync"} => in.op \in Reads
    /\ do = "resetPassword" => in.op = "updateUser"
    /\ do = "assignUsers" => in.op = "setRoleUsers"
    /\ do = "ignoreSync" => in.op = "ignoreApi"
    /\ do = "assignApi" => \E ps : \E r \in Named : in = Replacement(ps, r)
    /\ p = "apis" /\ do # "assignApi" => in.op \in ApiOps /\ "keep" \notin DOMAIN in
QOK(p, do, q) ==
    /\ DOMAIN q = {"in", "read", "next"}
    /\ Strict(p, do) => InOK(p, do, q.in)
    /\ q.read => q.in.op \notin Reads
    /\ p = "apis" /\ q.read /\ FileOf(q.in.op) = "apis" => IsFiniteSet(q.next)
TodoIsOK(p, do, todo) == todo \in Seq(Range(todo)) /\ \A i \in DOMAIN todo : InOK(p, do, todo[i])
PlanOK(x) == DOMAIN x = PlanFields /\ IsFiniteSet(x.new) /\ IsFiniteSet(x.delete)
Shape(p, c) ==
    /\ DoOK(p, c.do)
    /\ \A q \in c.wire : QOK(p, c.do, q)
    /\ Strict(p, c.do) => TodoIsOK(p, c.do, c.todo)
    /\ p = "apis" /\ c.do = "previewSync" /\ ~c.failed /\ c.wire = {} => \E x : c.got = {x} /\ PlanOK(x)

\* An API is being assigned: the policies of a role are as they shall be, or
\* a request for them is on its way or still to be sent.
Still(ps, c) ==
    \A r \in Named : \/ OfRole(ps, r) = OfRole(c.of, r)
                     \/ \E q \in c.wire : q.in.role = r
                     \/ \E i \in DOMAIN c.todo : c.todo[i].role = r
AssignOK(ps, c) ==
    /\ PoliciesOK(c.of)
    /\ \A q \in c.wire : /\ c.wire = {q}
                         /\ q.in.role \in Named /\ q.in = Replacement(c.of, q.in.role)
                         /\ q.read => q.next = {p \in ps : p.role # q.in.role} \cup OfRole(c.of, q.in.role)
    /\ \A i \in DOMAIN c.todo : c.todo[i].role \in Named /\ c.todo[i] = Replacement(c.of, c.todo[i].role)
    /\ c.phase # "waiting" \/ c.failed => c.wire = {} /\ c.todo = <<>>
    /\ c.phase = "waiting" /\ ~c.failed => Still(ps, c)

\* The lists of a page and what is under way.
LoadOK(l) ==
    /\ DOMAIN l = {"no", "search", "got"}
    /\ l.no = list.latest
    /\ DOMAIN l.got \subseteq Fetched
    /\ page = "users" => l.search = view.search
ListOK ==
    /\ DOMAIN list = ListFields
    /\ list.latest \in Nat \ {0} /\ list.trouble \in Nat /\ list.from \in Nat
    /\ list.trouble <= list.latest /\ list.from <= list.latest
    /\ DOMAIN list.shown = DOMAIN NoRows
    /\ \A l \in list.loads : list.loads = {l} /\ LoadOK(l)
ViewOK(v, from) ==
    /\ IsFiniteSet(v.selected)
    /\ PlanOK(v.preview)
    /\ "assign" \in DOMAIN v.dialogs => from > 0
ShownOK ==
    /\ list.from = 0 => Rows("apis") = {}
    /\ list.from > 0 => \A f \in Fetched : RowsOK(f, Rows(f))
    /\ \A l \in list.loads : \A f \in DOMAIN l.got : RowsOK(f, l.got[f])
ApisOK ==
    /\ \A f \in Files : RowsOK(f, disk[f])
    /\ ShownOK
    /\ ViewOK(view, list.from)
    /\ \A n \in DOMAIN pending : pending[n].do = "assignApi" => AssignOK(disk.policies, pending[n])

\* What the server would answer.
Reply(d, f, search) == IF f = "users" THEN Found(d.users, search) ELSE d[f]

\* A list may differ while a handler waits that will load it again.
Excuses(c, f) == c.phase = "waiting" /\ (c.do \in Reloading \/ c.failed \/ (c.do = "assignApi" /\ f = "policies"))
Excused(ps, f) == \E n \in DOMAIN ps : Excuses(ps[n], f)
Truth ==
    list.trouble < list.latest => \A f \in Fetched :
        /\ list.loads = {} => Rows(f) = Reply(disk, f, view.search) \/ Excused(pending, f)
        /\ \A l \in list.loads : f \in DOMAIN l.got => l.got[f] = Reply(disk, f, l.search) \/ Excused(pending, f)
QuietInv ==
    /\ page \in Pages
    /\ DOMAIN disk = Files
    /\ ListOK
    /\ \A n \in DOMAIN pending : Shape(page, pending[n])
    /\ page = "apis" => ApisOK
    /\ Truth

LEMMA QuietHolds == QuietInv => QuietPageIsTrue
<1> SUFFICES ASSUME QuietInv, Quiet, list.from > list.trouble, NEW f \in Fetched
             PROVE  Rows(f) = Answered(f, view.search)
  BY DEF QuietPageIsTrue
<1>1. list.trouble < list.latest
  BY DEF QuietInv, ListOK
<1>2. ~Excused(pending, f)
  BY DEF Quiet, Excused, Excuses
<1> QED
  BY <1>1, <1>2 DEF QuietInv, Truth, Quiet, Answered, Reply

LEMMA NothingIn == \A e : e = <<>> => DOMAIN e = {}
OBVIOUS

LEMMA QuietBegins == Init /\ PagesInit => QuietInv
<1> SUFFICES ASSUME Init, PagesInit PROVE QuietInv
  OBVIOUS
<1>1. page \in Pages /\ DOMAIN disk = Files
  BY DEF Init, PagesInit, Files
<1>0. \A l \in list.loads : /\ list.loads = {l} /\ l.no = 1 /\ l.search = ""
                             /\ DOMAIN l = {"no", "search", "got"} /\ DOMAIN l.got = {}
  <2> DEFINE l == [no |-> 1, search |-> "", got |-> <<>>]
  <2>1. l.no = 1 /\ l.search = "" /\ DOMAIN l = {"no", "search", "got"} /\ l.got = <<>>
    OBVIOUS
  <2>3. list.loads = {l}
    BY DEF PagesInit
  <2> HIDE DEF l
  <2>4. DOMAIN l.got = {}
    BY <2>1, NothingIn, Zenon
  <2> QED
    BY <2>1, <2>3, <2>4, Zenon
<1>2. /\ view.search = "" /\ list.latest = 1
      /\ list.shown = NoRows /\ list.from = 0 /\ list.trouble = 0 /\ DOMAIN list = ListFields
  BY DEF PagesInit, ListFields
<1>3. \A l \in list.loads : DOMAIN l.got = {}
  BY <1>0, <1>2
<1>4. \A l \in list.loads : list.loads = {l} /\ LoadOK(l)
  BY <1>0, <1>2, <1>3 DEF LoadOK
<1>5. ListOK
  <2>1. 1 \in Nat \ {0} /\ 0 \in Nat /\ 0 <= 1
    OBVIOUS
  <2> QED
    BY <1>2, <1>4, <2>1, Zenon DEF ListOK
<1>6. pending = <<>>
  BY DEF PagesInit
<1>7. DOMAIN pending = {}
  BY <1>6, NothingIn, Zenon
<1>8. Truth
  <2>1. list.loads # {}
    BY DEF PagesInit
  <2> QED
    BY <1>3, <2>1 DEF Truth
<1>9. ApisOK
  <2>1. RowsOK("roles", disk.roles)
    BY DEF RowsOK, Init, SeedRoles
  <2>2. RowsOK("policies", disk.policies)
    <3>1. disk.policies = {[role |-> "editor", route |-> "menus"]}
      BY DEF Init
    <3>2. PoliciesOK(disk.policies)
      BY <3>1 DEF PoliciesOK, Named
    <3> QED
      BY <3>2 DEF RowsOK
  <2>3. RowsOK("apis", disk.apis)
    BY FS_Singleton DEF RowsOK, Init
  <2>4. \A f \in Files : RowsOK(f, disk[f])
    BY <2>1, <2>2, <2>3 DEF RowsOK, Files
  <2>5. ShownOK
    <3>1. NoRows["apis"] = {}
      BY DEF NoRows
    <3>2. ~(0 > 0)
      OBVIOUS
    <3> QED
      BY <1>2, <1>3, <3>1, <3>2, Zenon DEF ShownOK, Rows
  <2>6. view.dialogs = <<>> /\ view.selected = {} /\ view.preview = [new |-> {}, delete |-> {}, ignore |-> {}]
    BY DEF PagesInit
  <2>7. ViewOK(view, list.from)
    <3>1. DOMAIN view.dialogs = {}
      BY <2>6, NothingIn, Zenon
    <3>2. PlanOK(view.preview)
      <4>1. /\ view.preview.new = {} /\ view.preview.delete = {}
            /\ DOMAIN view.preview = PlanFields
        BY <2>6 DEF PlanFields
      <4> QED
        BY <4>1, FS_EmptySet DEF PlanOK
    <3> QED
      BY <2>6, <3>1, <3>2, FS_EmptySet DEF ViewOK
  <2> QED
    BY <1>7, <2>4, <2>5, <2>7 DEF ApisOK
<1> QED
  BY <1>1, <1>5, <1>7, <1>8, <1>9 DEF QuietInv

\* What a page loads.
LEMMA FetchedFiles ==
  ASSUME page \in Pages
  PROVE  /\ Fetched \subseteq DOMAIN NoRows /\ Fetched \subseteq Files
         /\ "users" \in Fetched => page = "users"
         /\ page = "apis" => Fetched = {"apis", "roles", "policies"}
<1>1. CASE page = "users"
  BY <1>1 DEF Fetched, UsersLoad, NoRows, Files
<1>2. CASE page = "roles"
  BY <1>2 DEF Fetched, RolesLoad, NoRows, Files
<1>3. CASE page = "menus"
  BY <1>3 DEF Fetched, MenusLoad, NoRows, Files
<1>4. CASE page = "apis"
  BY <1>4 DEF Fetched, ApisLoad, NoRows, Files
<1>5. CASE page = "casbin"
  BY <1>5 DEF Fetched, CasbinLoad, NoRows, Files
<1> QED
  BY <1>1, <1>2, <1>3, <1>4, <1>5 DEF Pages

LEMMA SameReply ==
  ASSUME page \in Pages, NEW d, NEW f \in Fetched, NEW s, NEW t, page = "users" => s = t
  PROVE  Reply(d, f, s) = Reply(d, f, t)
BY FetchedFiles DEF Reply

\* The lists stay as they are: they are as true as before, or the step is one
\* after which nothing is claimed until the next load.
LEMMA TruthKeeps ==
  ASSUME QuietInv, UNCHANGED page, page = "users" => view'.search = view.search,
         \/ list' = [list EXCEPT !.trouble = list.latest]
         \/ /\ list' \in {list, [list EXCEPT !.trouble = list.trouble]}
            /\ \A f \in Fetched : Excused(pending, f) => Excused(pending', f)
            /\ \A f \in Fetched : Excused(pending', f) \/ \A s : Reply(disk', f, s) = Reply(disk, f, s)
  PROVE  ListOK' /\ Truth' /\ (ShownOK => ShownOK')
<1>1. Fetched' = Fetched
  BY DEF Fetched
<1>2. \E t \in {list.trouble, list.latest} : list' \in {list, [list EXCEPT !.trouble = t]}
  OBVIOUS
<1>3. /\ DOMAIN list' = ListFields /\ list'.latest = list.latest /\ list'.from = list.from
      /\ list'.shown = list.shown /\ list'.loads = list.loads
      /\ list'.trouble \in {list.trouble, list.latest}
  BY <1>2 DEF QuietInv, ListOK, ListFields
<1>4. ASSUME NEW l \in list.loads PROVE list.loads = {l} /\ LoadOK(l)'
  BY <1>1, <1>3 DEF QuietInv, ListOK, LoadOK
<1>5. ListOK'
  BY <1>1, <1>3, <1>4 DEF QuietInv, ListOK
<1>6. Truth'
  <2>1. CASE list' = [list EXCEPT !.trouble = list.latest]
    <3>1. list'.trouble = list'.latest /\ list'.latest \in Nat
      BY <2>1 DEF QuietInv, ListOK, ListFields
    <3> QED
      BY <3>1 DEF Truth
  <2>2. CASE /\ list' \in {list, [list EXCEPT !.trouble = list.trouble]}
             /\ \A f \in Fetched : Excused(pending, f) => Excused(pending', f)
             /\ \A f \in Fetched : Excused(pending', f) \/ \A s : Reply(disk', f, s) = Reply(disk, f, s)
    <3> SUFFICES ASSUME list.trouble < list.latest, NEW f \in Fetched, ~Excused(pending', f)
                 PROVE  /\ list.loads = {} => Rows(f) = Reply(disk', f, view'.search)
                        /\ \A l \in list.loads : f \in DOMAIN l.got => l.got[f] = Reply(disk', f, l.search)
      <4>1. list'.trouble = list.trouble
        BY <2>2 DEF QuietInv, ListOK, ListFields
      <4> QED
        BY <1>1, <1>3, <4>1 DEF Truth, Rows
    <3>1. ~Excused(pending, f) /\ \A s : Reply(disk', f, s) = Reply(disk, f, s)
      BY <2>2
    <3>2. Reply(disk, f, view'.search) = Reply(disk, f, view.search)
      BY SameReply DEF QuietInv
    <3> QED
      BY <3>1, <3>2 DEF QuietInv, Truth
  <2> QED
    BY <2>1, <2>2
<1>7. ASSUME ShownOK PROVE ShownOK'
  BY <1>1, <1>3, <1>7 DEF ShownOK, Rows
<1> QED
  BY <1>5, <1>6, <1>7

\* The lists are asked for again: nothing of the new load has arrived.
LEMMA TruthRestarts ==
  ASSUME QuietInv, UNCHANGED page, NEW s, page = "users" => view'.search = s,
         list' = Restarted(list, s)
  PROVE  ListOK' /\ Truth' /\ (ShownOK => ShownOK')
<1>1. Fetched' = Fetched
  BY DEF Fetched
<1>0. \E l : /\ l.no = list.latest + 1 /\ l.search = s /\ DOMAIN l = {"no", "search", "got"} /\ DOMAIN l.got = {}
            /\ list' = [list EXCEPT !.latest = list.latest + 1, !.loads = {l}]
  <2> DEFINE l == [no |-> list.latest + 1, search |-> s, got |-> <<>>]
  <2>1. l.no = list.latest + 1 /\ l.search = s /\ DOMAIN l = {"no", "search", "got"} /\ l.got = <<>>
    OBVIOUS
  <2>2. list' = [list EXCEPT !.latest = list.latest + 1, !.loads = {l}]
    BY DEF Restarted, RunOn
  <2> HIDE DEF l
  <2>3. DOMAIN l.got = {}
    BY <2>1, NothingIn, Zenon
  <2> QED
    BY <2>1, <2>2, <2>3, Zenon
<1> PICK l : /\ l.no = list.latest + 1 /\ l.search = s /\ DOMAIN l = {"no", "search", "got"} /\ DOMAIN l.got = {}
             /\ list' = [list EXCEPT !.latest = list.latest + 1, !.loads = {l}]
  BY <1>0
<1>5. /\ DOMAIN list' = ListFields /\ list'.latest = list.latest + 1 /\ list'.from = list.from
      /\ list'.shown = list.shown /\ list'.loads = {l} /\ list'.trouble = list.trouble
  BY DEF QuietInv, ListOK, ListFields
<1>6. list'.latest \in Nat \ {0} /\ list'.trouble <= list'.latest /\ list'.from <= list'.latest
  BY <1>5 DEF QuietInv, ListOK
<1>7. LoadOK(l)'
  BY <1>5 DEF LoadOK
<1>8. ListOK'
  BY <1>5, <1>6, <1>7 DEF QuietInv, ListOK
<1>9. Truth'
  BY <1>5 DEF Truth
<1>10. ASSUME ShownOK PROVE ShownOK'
  BY <1>1, <1>5, <1>10 DEF ShownOK, Rows
<1> QED
  BY <1>8, <1>9, <1>10

\* The user looks at something else.
LEMMA LookQuiet ==
  ASSUME QuietInv, NEW v, Look(v), page = "users" => v.search = view.search,
         page = "apis" => ViewOK(v, list.from)
  PROVE  QuietInv'
<1>1. view' = v /\ UNCHANGED <<page, list, pending, disk>>
  BY DEF Look, vars
<1>2. ListOK' /\ Truth' /\ (ShownOK => ShownOK')
  BY <1>1, TruthKeeps
<1>3. page = "apis" => ApisOK'
  BY <1>1, <1>2 DEF QuietInv, ApisOK
<1> QED
  BY <1>1, <1>2, <1>3 DEF QuietInv

LEMMA ReloadQuiet ==
  ASSUME QuietInv, NEW v, Reload(v), page = "apis" => ViewOK(v, list.from)
  PROVE  QuietInv'
<1>1. view' = v /\ list' = Restarted(list, v.search) /\ UNCHANGED <<page, pending, disk>>
  BY DEF Reload, vars
<1>2. ListOK' /\ Truth' /\ (ShownOK => ShownOK')
  BY <1>1, TruthRestarts
<1>3. list'.from = list.from
  BY <1>1 DEF Restarted, QuietInv, ListOK, ListFields
<1>4. page = "apis" => ApisOK'
  BY <1>1, <1>2, <1>3 DEF QuietInv, ApisOK
<1> QED
  BY <1>1, <1>2, <1>4 DEF QuietInv

\* What a handler may send: the requests that its name and its page allow.
Sends(p, do, of, reqs, atOnce) ==
    /\ DoOK(p, do)
    /\ Strict(p, do) => ~atOnce /\ TodoIsOK(p, do, reqs)
    /\ do = "previewSync" => reqs # <<>>
    /\ do = "assignApi" =>
          /\ PoliciesOK(of)
          /\ \A i \in DOMAIN reqs : reqs[i].role \in Named /\ reqs[i] = Replacement(of, reqs[i].role)
          /\ \A r \in Named : \E i \in DOMAIN reqs : reqs[i].role = r

LEMMA TailOK ==
  ASSUME NEW p, NEW do, NEW todo, TodoIsOK(p, do, todo), todo # <<>>
  PROVE  /\ TodoIsOK(p, do, Tail(todo)) /\ 1 \in DOMAIN todo
         /\ DOMAIN Tail(todo) = 1..(Len(todo) - 1) /\ DOMAIN todo = 1..Len(todo) /\ Len(todo) \in Nat
         /\ \A i \in DOMAIN Tail(todo) : i + 1 \in DOMAIN todo /\ Tail(todo)[i] = todo[i + 1]
<1> PICK S : S = Range(todo)
  OBVIOUS
<1>1. todo \in Seq(S)
  BY DEF TodoIsOK
<1>2. /\ 1 \in DOMAIN todo /\ Tail(todo) \in Seq(S)
      /\ DOMAIN Tail(todo) = 1..(Len(todo) - 1) /\ DOMAIN todo = 1..Len(todo) /\ Len(todo) \in Nat
      /\ \A i \in DOMAIN Tail(todo) : i + 1 \in DOMAIN todo /\ Tail(todo)[i] = todo[i + 1]
  BY <1>1
<1> PICK t : t = Tail(todo)
  OBVIOUS
<1>3. t \in Seq(Range(t))
  <2>1. t \in Seq(S) /\ DOMAIN t = 1..Len(t) /\ Len(t) \in Nat
    BY <1>2
  <2>2. \A i \in 1..Len(t) : t[i] \in Range(t)
    BY <2>1 DEF Range
  <2>3. \A D : \A x \in Seq(S) : (\A i \in 1..Len(x) : x[i] \in D) => x \in Seq(D)
    OBVIOUS
  <2> QED
    BY <2>1, <2>2, <2>3
<1> QED
  BY <1>2, <1>3 DEF TodoIsOK

\* The requests of a new handler.
LEMMA CallShape ==
  ASSUME NEW p, NEW do, NEW of, NEW reqs, NEW atOnce, Sends(p, do, of, reqs, atOnce)
  PROVE  Shape(p, Call(do, of, reqs, atOnce))
<1> PICK c : c = Call(do, of, reqs, atOnce)
  OBVIOUS
<1>1. /\ c.do = do /\ c.of = of /\ c.got = {} /\ c.failed = FALSE /\ c.phase = "waiting"
      /\ c.wire = IF atOnce THEN {Request(reqs[i]) : i \in DOMAIN reqs}
                  ELSE {Request(reqs[i]) : i \in DOMAIN reqs \cap {1}}
      /\ c.todo = IF atOnce \/ reqs = <<>> THEN <<>> ELSE Tail(reqs)
  BY DEF Call
<1>2. \A in : LET q == Request(in) IN DOMAIN q = {"in", "read", "next"} /\ q.in = in /\ q.read = FALSE
  BY DEF Request
<1>3. ASSUME NEW q \in c.wire PROVE QOK(p, do, q)
  <2> PICK i \in DOMAIN reqs : q = Request(reqs[i])
    BY <1>1
  <2>1. DOMAIN q = {"in", "read", "next"} /\ q.in = reqs[i] /\ q.read = FALSE
    BY <1>2
  <2> QED
    BY <2>1 DEF QOK, Sends, TodoIsOK
<1>4. ASSUME Strict(p, do) PROVE TodoIsOK(p, do, c.todo)
  <2>1. CASE reqs = <<>>
    <3>1. c.todo = reqs
      BY <1>1, <2>1
    <3> QED
      BY <1>4, <3>1 DEF Sends
  <2>2. CASE reqs # <<>>
    BY <1>1, <1>4, <2>2, TailOK DEF Sends
  <2> QED
    BY <2>1, <2>2
<1>5. ASSUME p = "apis", do = "previewSync" PROVE c.wire # {}
  <2>1. Strict(p, do) /\ ~atOnce /\ TodoIsOK(p, do, reqs) /\ reqs # <<>>
    BY <1>5 DEF Strict, Sends
  <2>2. 1 \in DOMAIN reqs
    BY <2>1, TailOK
  <2> QED
    BY <1>1, <2>1, <2>2
<1> QED
  BY <1>1, <1>3, <1>4, <1>5 DEF Shape, Sends

LEMMA CallAssigns ==
  ASSUME NEW ps, NEW of, NEW reqs, NEW atOnce, Sends("apis", "assignApi", of, reqs, atOnce)
  PROVE  AssignOK(ps, Call("assignApi", of, reqs, atOnce))
<1> PICK do : do = "assignApi"
  OBVIOUS
<1> PICK c : c = Call("assignApi", of, reqs, atOnce)
  OBVIOUS
<1>0. ~atOnce /\ TodoIsOK("apis", "assignApi", reqs)
  BY DEF Sends, Strict
<1>1. /\ c.of = of /\ c.failed = FALSE /\ c.phase = "waiting"
      /\ c.wire = {Request(reqs[i]) : i \in DOMAIN reqs \cap {1}}
      /\ c.todo = IF reqs = <<>> THEN <<>> ELSE Tail(reqs)
  BY <1>0 DEF Call
<1>2. \A in : Request(in).in = in /\ Request(in).read = FALSE
  BY DEF Request
<1>3. /\ PoliciesOK(of)
      /\ \A i \in DOMAIN reqs : reqs[i].role \in Named /\ reqs[i] = Replacement(of, reqs[i].role)
      /\ \A r \in Named : \E i \in DOMAIN reqs : reqs[i].role = r
  BY DEF Sends
<1>4. reqs # <<>>
  <2>1. Super \in Named
    BY DEF Named
  <2>2. DOMAIN reqs # {}
    BY <1>3, <2>1
  <2> QED
    BY <2>2, NothingIn, Zenon
<1>5. /\ 1 \in DOMAIN reqs /\ DOMAIN Tail(reqs) = 1..(Len(reqs) - 1) /\ DOMAIN reqs = 1..Len(reqs) /\ Len(reqs) \in Nat
      /\ \A i \in DOMAIN Tail(reqs) : i + 1 \in DOMAIN reqs /\ Tail(reqs)[i] = reqs[i + 1]
  BY <1>0, <1>4, TailOK
<1>6. c.wire = {Request(reqs[1])} /\ c.todo = Tail(reqs)
  BY <1>1, <1>4, <1>5
<1>7. ASSUME NEW r \in Named
      PROVE  (\E q \in c.wire : q.in.role = r) \/ \E i \in DOMAIN c.todo : c.todo[i].role = r
  <2> PICK i \in DOMAIN reqs : reqs[i].role = r
    BY <1>3
  <2>1. CASE i = 1
    BY <1>2, <1>6, <2>1
  <2>2. CASE i # 1
    <3>1. i - 1 \in DOMAIN Tail(reqs) /\ (i - 1) + 1 = i
      BY <1>5, <2>2
    <3>2. Tail(reqs)[i - 1] = reqs[i]
      BY <1>5, <3>1
    <3> QED
      BY <1>6, <3>1, <3>2
  <2> QED
    BY <2>1, <2>2
<1>8. \A q \in c.wire : /\ c.wire = {q} /\ q.read = FALSE
                        /\ q.in.role \in Named /\ q.in = Replacement(c.of, q.in.role)
  BY <1>1, <1>2, <1>3, <1>5, <1>6
<1>9. \A i \in DOMAIN c.todo : c.todo[i].role \in Named /\ c.todo[i] = Replacement(c.of, c.todo[i].role)
  BY <1>1, <1>3, <1>5, <1>6
<1> QED
  BY <1>1, <1>3, <1>7, <1>8, <1>9 DEF AssignOK, Still

LEMMA SendQuiet ==
  ASSUME BusyInv, QuietInv, NEW v, NEW do, NEW of, NEW reqs, NEW atOnce, SendWith(v, do, of, reqs, atOnce),
         Sends(page, do, of, reqs, atOnce), page = "users" => v.search = view.search,
         page = "apis" => ViewOK(v, list.from)
  PROVE  QuietInv'
<1> PICK n : n = count.calls + 1
  OBVIOUS
<1> PICK c : c = Call(do, of, reqs, atOnce)
  OBVIOUS
<1>1. view' = v /\ UNCHANGED <<page, list, disk>> /\ pending' = Extended(pending, n, c)
  BY DEF SendWith, vars
<1>2. n \notin DOMAIN pending
  BY DEF BusyInv
<1>3. /\ DOMAIN pending' = DOMAIN pending \cup {n} /\ pending'[n] = c
      /\ \A m \in DOMAIN pending : pending'[m] = pending[m]
  BY <1>1, <1>2 DEF Extended
<1>4. \A f : Excused(pending, f) => Excused(pending', f)
  BY <1>3 DEF Excused
<1>5. ListOK' /\ Truth' /\ (ShownOK => ShownOK')
  BY <1>1, <1>4, TruthKeeps
<1>6. \A m \in DOMAIN pending' : Shape(page, pending'[m])
  BY <1>3, CallShape DEF QuietInv
<1>7. ASSUME page = "apis" PROVE ApisOK'
  <2>1. ASSUME NEW m \in DOMAIN pending', pending'[m].do = "assignApi" PROVE AssignOK(disk.policies, pending'[m])
    <3>1. CASE m # n
      BY <1>3, <1>7, <2>1, <3>1 DEF QuietInv, ApisOK
    <3>2. CASE m = n
      <4>1. c.do = do
        BY DEF Call
      <4>2. do = "assignApi"
        BY <1>3, <2>1, <3>2, <4>1
      <4> QED
        BY <1>3, <1>7, <3>2, <4>2, CallAssigns
    <3> QED
      BY <3>1, <3>2
  <2> QED
    BY <1>1, <1>5, <1>7, <2>1 DEF QuietInv, ApisOK
<1> QED
  BY <1>1, <1>5, <1>6, <1>7 DEF QuietInv

\* What a dialog that opens or closes leaves of the view.
LEMMA DialogView ==
  ASSUME NEW v, Whole(v), NEW d, NEW x, NEW y, NEW w, w = WithDialog(v, d, x, y)
  PROVE  /\ w.search = v.search /\ w.selected = v.selected /\ w.preview = v.preview
         /\ DOMAIN w.dialogs = DOMAIN v.dialogs \cup {d}
<1>1. w = [v EXCEPT !.dialogs = Extended(v.dialogs, d, [of |-> x, value |-> y])]
  BY DEF WithDialog
<1>2. /\ w.search = v.search /\ w.selected = v.selected /\ w.preview = v.preview
      /\ w.dialogs = Extended(v.dialogs, d, [of |-> x, value |-> y])
  BY <1>1 DEF Whole, ViewFields
<1> QED
  BY <1>2 DEF Extended

LEMMA ClosedView ==
  ASSUME NEW v, Whole(v), NEW d, NEW w, w = WithoutDialog(v, d)
  PROVE  /\ w.search = v.search /\ w.selected = v.selected /\ w.preview = v.preview
         /\ DOMAIN w.dialogs = DOMAIN v.dialogs \ {d}
<1>1. w = [v EXCEPT !.dialogs = Restrict(v.dialogs, DOMAIN v.dialogs \ {d})]
  BY DEF WithoutDialog
<1>2. /\ w.search = v.search /\ w.selected = v.selected /\ w.preview = v.preview
      /\ w.dialogs = Restrict(v.dialogs, DOMAIN v.dialogs \ {d})
  BY <1>1 DEF Whole, ViewFields
<1> QED
  BY <1>2 DEF Restrict

LEMMA ShowQuiet ==
  ASSUME BusyInv, QuietInv, NEW d, NEW of, NEW value, Show(d, of, value),
         page = "apis" => d # "assign" \/ list.from > 0
  PROVE  QuietInv'
<1> PICK v : v = WithDialog(view, d, of, value)
  OBVIOUS
<1>1. /\ v.search = view.search /\ v.selected = view.selected /\ v.preview = view.preview
      /\ DOMAIN v.dialogs = DOMAIN view.dialogs \cup {d}
  BY DialogView DEF BusyInv
<1>2. Look(v)
  BY DEF Show
<1>3. page = "apis" => ViewOK(v, list.from)
  BY <1>1 DEF QuietInv, ApisOK, ViewOK
<1> QED
  BY <1>1, <1>2, <1>3, LookQuiet

LEMMA CloseQuiet ==
  ASSUME BusyInv, QuietInv, CloseDialog
  PROVE  QuietInv'
<1> PICK d : Look(WithoutDialog(view, d))
  BY DEF CloseDialog
<1> PICK v : v = WithoutDialog(view, d)
  OBVIOUS
<1>1. /\ v.search = view.search /\ v.selected = view.selected /\ v.preview = view.preview
      /\ DOMAIN v.dialogs \subseteq DOMAIN view.dialogs
  BY ClosedView DEF BusyInv
<1>2. page = "apis" => ViewOK(v, list.from)
  BY <1>1 DEF QuietInv, ApisOK, ViewOK
<1> QED
  BY <1>1, <1>2, LookQuiet

\* A handler starts, and the view keeps what matters here.
LEMMA FlagQuiet ==
  ASSUME BusyInv, QuietInv, NEW x, NEW do, NEW of, NEW reqs, NEW atOnce,
         \/ SendWith([view EXCEPT !.busy = x], do, of, reqs, atOnce)
         \/ SendWith([view EXCEPT !.syncBusy = x], do, of, reqs, atOnce)
         \/ SendWith(view, do, of, reqs, atOnce),
         Sends(page, do, of, reqs, atOnce)
  PROVE  QuietInv'
<1> DEFINE Same(v) == /\ v.search = view.search /\ v.selected = view.selected
                      /\ v.preview = view.preview /\ v.dialogs = view.dialogs
<1>1. \E v : Same(v) /\ SendWith(v, do, of, reqs, atOnce)
  <2>1. CASE SendWith([view EXCEPT !.busy = x], do, of, reqs, atOnce)
    <3>1. Same([view EXCEPT !.busy = x])
      BY DEF BusyInv, Whole, ViewFields
    <3> QED
      BY <2>1, <3>1
  <2>2. CASE SendWith([view EXCEPT !.syncBusy = x], do, of, reqs, atOnce)
    <3>1. Same([view EXCEPT !.syncBusy = x])
      BY DEF BusyInv, Whole, ViewFields
    <3> QED
      BY <2>2, <3>1
  <2>3. CASE SendWith(view, do, of, reqs, atOnce)
    BY <2>3
  <2> QED
    BY <2>1, <2>2, <2>3
<1> PICK v : Same(v) /\ SendWith(v, do, of, reqs, atOnce)
  BY <1>1
<1>2. page = "apis" => ViewOK(v, list.from)
  BY DEF QuietInv, ApisOK, ViewOK
<1> QED
  BY <1>2, SendQuiet

LEMMA SaveQuiet ==
  ASSUME BusyInv, QuietInv, NEW d, NEW do, NEW reqs, Save(d, do, reqs), Sends(page, do, Dialog(d).of, reqs, FALSE)
  PROVE  QuietInv'
BY FlagQuiet DEF Save

LEMMA PlainQuiet ==
  ASSUME BusyInv, QuietInv, NEW do, NEW of, NEW reqs, Send(do, of, reqs), Sends(page, do, of, reqs, FALSE)
  PROVE  QuietInv'
BY FlagQuiet DEF Send

LEMMA SyncQuiet ==
  ASSUME BusyInv, QuietInv, NEW do, NEW of, NEW reqs, Sync(do, of, reqs), Sends(page, do, of, reqs, FALSE)
  PROVE  QuietInv'
BY FlagQuiet DEF Sync

\* A handler that loads the lists again may send what it likes, except on the
\* page of the APIs.
LEMMA SendsAgain ==
  ASSUME NEW p, p # "apis", NEW do \in Reloading, NEW of, NEW reqs, NEW atOnce
  PROVE  Sends(p, do, of, reqs, atOnce)
BY DEF Sends, Strict, DoOK, Reloading

LEMMA AgainQuiet ==
  ASSUME BusyInv, QuietInv, page # "apis", NEW do \in Reloading, NEW of, NEW d, NEW reqs,
         Send(do, of, reqs) \/ Save(d, do, reqs)
  PROVE  QuietInv'
BY SendsAgain, PlainQuiet, SaveQuiet

LEMMA OneRequest ==
  ASSUME NEW p, NEW do, NEW in, InOK(p, do, in)
  PROVE  TodoIsOK(p, do, <<in>>) /\ <<in>> # <<>>
<1> PICK s : s = <<in>>
  OBVIOUS
<1>1. DOMAIN s = {1} /\ s[1] = in /\ s # <<>>
  OBVIOUS
<1>2. s \in Seq(Range(s))
  <2>1. in \in Range(s)
    BY <1>1 DEF Range
  <2> QED
    BY <2>1
<1> QED
  BY <1>1, <1>2 DEF TodoIsOK

LEMMA SendsOne ==
  ASSUME NEW p, NEW do, do # "assignApi", DoOK(p, do), NEW of, NEW in, InOK(p, do, in)
  PROVE  Sends(p, do, of, <<in>>, FALSE)
BY OneRequest DEF Sends

LEMMA UsersQuiet ==
  ASSUME BusyInv, QuietInv, page = "users", UsersPage
  PROVE  QuietInv'
<1>1. ASSUME SearchUsers PROVE QuietInv'
  BY <1>1, ReloadQuiet DEF SearchUsers
<1>2. ASSUME OpenUserForm PROVE QuietInv'
  BY <1>2, ShowQuiet DEF OpenUserForm
<1>3. ASSUME SaveUser PROVE QuietInv'
  BY <1>3, AgainQuiet DEF SaveUser, Reloading
<1>4. ASSUME ToggleEnable \/ ConfirmDeleteUser PROVE QuietInv'
  BY <1>4, AgainQuiet DEF ToggleEnable, ConfirmDeleteUser, Reloading
<1>5. ASSUME ConfirmResetPassword PROVE QuietInv'
  <2> PICK in : in = [op |-> "updateUser", id |-> Dialog("reset").of, password |-> TRUE, keep |-> {"active", "roles"}]
    OBVIOUS
  <2>1. Save("reset", "resetPassword", <<in>>)
    BY <1>5 DEF ConfirmResetPassword
  <2>2. in.op = "updateUser"
    OBVIOUS
  <2>3. InOK("users", "resetPassword", in) /\ DoOK("users", "resetPassword")
    BY <2>2 DEF InOK, DoOK
  <2> QED
    BY <2>1, <2>3, SendsOne, SaveQuiet
<1>6. ASSUME UserRowActions PROVE QuietInv'
  BY <1>4, <1>6, ShowQuiet DEF UserRowActions
<1> QED
  BY <1>1, <1>2, <1>3, <1>4, <1>5, <1>6 DEF UsersPage

LEMMA RolesQuiet ==
  ASSUME BusyInv, QuietInv, page = "roles", RolesPage
  PROVE  QuietInv'
<1>1. ASSUME OpenRoleForm PROVE QuietInv'
  BY <1>1, ShowQuiet DEF OpenRoleForm
<1>2. ASSUME SubmitRoleForm \/ SavePermission PROVE QuietInv'
  BY <1>2, AgainQuiet DEF SubmitRoleForm, SavePermission, Reloading
<1>3. ASSUME OpenPermission \/ \E r \in Rows("roles") : ~r.locked /\ Show("delete", r.id, {})
      PROVE  QuietInv'
  BY <1>3, ShowQuiet DEF OpenPermission
<1>4. ASSUME OpenAssignUsers PROVE QuietInv'
  <2> PICK in : in = [op |-> "listUsers"]
    OBVIOUS
  <2> PICK v, of : SendWith(v, "openAssign", of, <<in>>, FALSE)
    BY <1>4 DEF OpenAssignUsers
  <2>1. in.op \in Reads
    BY DEF Reads
  <2>2. InOK("roles", "openAssign", in) /\ DoOK("roles", "openAssign")
    BY <2>1 DEF InOK, DoOK
  <2> QED
    BY <2>2, SendsOne, SendQuiet
<1>5. ASSUME ChangeDataScope \/ ConfirmDeleteRole PROVE QuietInv'
  BY <1>5, AgainQuiet DEF ChangeDataScope, ConfirmDeleteRole, Reloading
<1>6. ASSUME AssignedUsersTable PROVE QuietInv'
  BY <1>6, LookQuiet DEF AssignedUsersTable
<1>7. ASSUME ConfirmAssignUsers PROVE QuietInv'
  <2> PICK in : in = [op |-> "setRoleUsers", role |-> Dialog("assign").of, users |-> view.selected]
    OBVIOUS
  <2>1. Save("assign", "assignUsers", <<in>>)
    BY <1>7 DEF ConfirmAssignUsers
  <2>2. in.op = "setRoleUsers"
    OBVIOUS
  <2>3. InOK("roles", "assignUsers", in) /\ DoOK("roles", "assignUsers")
    BY <2>2 DEF InOK, DoOK
  <2> QED
    BY <2>1, <2>3, SendsOne, SaveQuiet
<1> QED
  BY <1>1, <1>2, <1>3, <1>4, <1>5, <1>6, <1>7 DEF RolesPage, RoleRowActions

LEMMA MenusQuiet ==
  ASSUME BusyInv, QuietInv, page = "menus", MenusPage
  PROVE  QuietInv'
<1>1. ASSUME OpenMenuForm \/ MenuRowActions PROVE QuietInv'
  BY <1>1, ShowQuiet DEF OpenMenuForm, MenuRowActions, OpenAssignRoles
<1>2. ASSUME SaveMenu PROVE QuietInv'
  BY <1>2, AgainQuiet DEF SaveMenu, Reloading
<1>3. ASSUME ConfirmAssignRoles PROVE QuietInv'
  <2> PICK of, reqs : SendWith([view EXCEPT !.busy = TRUE], "assignMenu", of, reqs, TRUE)
    BY <1>3 DEF ConfirmAssignRoles
  <2>1. Sends(page, "assignMenu", of, reqs, TRUE)
    BY SendsAgain DEF Reloading
  <2> QED
    BY <2>1, FlagQuiet
<1>4. ASSUME ConfirmDeleteMenu PROVE QuietInv'
  BY <1>4, AgainQuiet DEF ConfirmDeleteMenu, Reloading
<1> QED
  BY <1>1, <1>2, <1>3, <1>4 DEF MenusPage

LEMMA CasbinQuiet ==
  ASSUME BusyInv, QuietInv, page = "casbin", CasbinPage
  PROVE  QuietInv'
<1>1. ASSUME SelectRole \/ ToggleKey PROVE QuietInv'
  BY <1>1, LookQuiet DEF SelectRole, ToggleKey
<1>2. ASSUME SaveCasbin PROVE QuietInv'
  <2> PICK of, reqs : SendWith([view EXCEPT !.busy = TRUE], "saveCasbin", of, reqs, FALSE)
    BY <1>2 DEF SaveCasbin
  <2>1. Sends(page, "saveCasbin", of, reqs, FALSE)
    BY SendsAgain DEF Reloading
  <2> QED
    BY <2>1, FlagQuiet
<1> QED
  BY <1>1, <1>2 DEF CasbinPage

LEMMA IdsFinite ==
  ASSUME NEW rows, IsFiniteSet(rows)
  PROVE  IsFiniteSet(Ids(rows))
<1> DEFINE f == [row \in rows |-> row.id]
<1>1. DOMAIN f = rows /\ {f[x] : x \in DOMAIN f} = Ids(rows)
  BY DEF Ids
<1> HIDE DEF f
<1> QED
  BY <1>1, Ranged

\* The rows of the APIs on the page: finitely many, and none before a load.
LEMMA ApiRows ==
  ASSUME QuietInv, page = "apis"
  PROVE  /\ IsFiniteSet(Rows("apis")) /\ IsFiniteSet(FilteredApis) /\ IsFiniteSet(Ids(FilteredApis))
         /\ FilteredApis # {} => list.from > 0
         /\ list.from > 0 => Rows("roles") = SeedRoles /\ PoliciesOK(Rows("policies"))
<1>1. list.from \in Nat /\ ShownOK /\ Fetched = {"apis", "roles", "policies"}
  BY FetchedFiles DEF QuietInv, ListOK, ApisOK
<1>2. FilteredApis \subseteq Rows("apis")
  BY DEF FilteredApis
<1>3. list.from > 0 => IsFiniteSet(Rows("apis")) /\ Rows("roles") = SeedRoles /\ PoliciesOK(Rows("policies"))
  BY <1>1 DEF ShownOK, RowsOK
<1>4. list.from = 0 => Rows("apis") = {}
  BY <1>1 DEF ShownOK
<1>5. IsFiniteSet(Rows("apis"))
  BY <1>1, <1>3, <1>4, FS_EmptySet
<1>6. IsFiniteSet(FilteredApis)
  BY <1>2, <1>5, FS_Subset
<1>7. IsFiniteSet(Ids(FilteredApis))
  BY <1>6, IdsFinite
<1> QED
  BY <1>1, <1>2, <1>3, <1>4, <1>5, <1>6, <1>7

LEMMA OnlyOK ==
  ASSUME NEW p, NEW do, NEW S, \A in \in S : InOK(p, do, in), NEW todo \in Seq(S)
  PROVE  TodoIsOK(p, do, todo)
<1>1. DOMAIN todo = 1..Len(todo) /\ \A i \in 1..Len(todo) : todo[i] \in S
  OBVIOUS
<1>2. \A i \in 1..Len(todo) : todo[i] \in Range(todo)
  BY <1>1 DEF Range
<1>3. \A D : (\A i \in 1..Len(todo) : todo[i] \in D) => todo \in Seq(D)
  OBVIOUS
<1> QED
  BY <1>1, <1>2, <1>3 DEF TodoIsOK

\* The requests of the handlers that load the lists of this page again.
LEMMA ApiRequest ==
  ASSUME NEW do \in Reloading, NEW in, in.op \in ApiOps, "keep" \notin DOMAIN in
  PROVE  InOK("apis", do, in)
BY DEF InOK, Reloading

LEMMA SendsApi ==
  ASSUME NEW do \in Reloading, NEW of, NEW reqs, TodoIsOK("apis", do, reqs)
  PROVE  Sends("apis", do, of, reqs, FALSE)
BY DEF Sends, DoOK, Reloading

LEMMA Creations ==
  ASSUME NEW S, IsFiniteSet(S)
  PROVE  LET reqs == {[op |-> "createApi", key |-> k] : k \in S}
         IN  IsFiniteSet(reqs) /\ \A in \in reqs : in.op \in ApiOps /\ "keep" \notin DOMAIN in
<1> DEFINE f == [k \in S |-> [op |-> "createApi", key |-> k]]
<1> DEFINE reqs == {[op |-> "createApi", key |-> k] : k \in S}
<1>1. DOMAIN f = S /\ {f[x] : x \in DOMAIN f} = reqs
  OBVIOUS
<1>2. \A in \in reqs : in.op \in ApiOps /\ "keep" \notin DOMAIN in
  BY DEF ApiOps
<1> HIDE DEF f
<1>3. IsFiniteSet(reqs)
  BY <1>1, Ranged
<1> QED
  BY <1>2, <1>3

LEMMA Deletions ==
  ASSUME NEW S, IsFiniteSet(S)
  PROVE  LET reqs == {[op |-> "deleteApi", id |-> i] : i \in S}
         IN  IsFiniteSet(reqs) /\ \A in \in reqs : in.op \in ApiOps /\ "keep" \notin DOMAIN in
<1> DEFINE f == [i \in S |-> [op |-> "deleteApi", id |-> i]]
<1> DEFINE reqs == {[op |-> "deleteApi", id |-> i] : i \in S}
<1>1. DOMAIN f = S /\ {f[x] : x \in DOMAIN f} = reqs
  OBVIOUS
<1>2. \A in \in reqs : in.op \in ApiOps /\ "keep" \notin DOMAIN in
  BY DEF ApiOps
<1> HIDE DEF f
<1>3. IsFiniteSet(reqs)
  BY <1>1, Ranged
<1> QED
  BY <1>2, <1>3

LEMMA ManyRequests ==
  ASSUME NEW do \in Reloading, NEW of, NEW S, IsFiniteSet(S),
         \A in \in S : in.op \in ApiOps /\ "keep" \notin DOMAIN in
  PROVE  Sends("apis", do, of, SetToSeq(S), FALSE)
BY InTurn, OnlyOK, ApiRequest, SendsApi

LEMMA OneApiRequest ==
  ASSUME NEW do \in Reloading, NEW of, NEW in, in.op \in ApiOps, "keep" \notin DOMAIN in
  PROVE  Sends("apis", do, of, <<in>>, FALSE)
BY OneRequest, ApiRequest, SendsApi

LEMMA SyncRequests ==
  ASSUME NEW plan, PlanOK(plan), NEW ignores
  PROVE  Sends("apis", "applySync", "", ApplyApiSync(plan, ignores), FALSE)
<1> DEFINE N == {[op |-> "createApi", key |-> k] : k \in plan.new}
           D == {[op |-> "deleteApi", id |-> i] : i \in plan.delete}
           last == [op |-> "saveIgnores", keys |-> ignores]
           S == N \cup D \cup {last}
<1>1. IsFiniteSet(N) /\ \A in \in N : in.op \in ApiOps /\ "keep" \notin DOMAIN in
  BY Creations DEF PlanOK
<1>2. IsFiniteSet(D) /\ \A in \in D : in.op \in ApiOps /\ "keep" \notin DOMAIN in
  BY Deletions DEF PlanOK
<1>3. last.op \in ApiOps /\ "keep" \notin DOMAIN last
  BY DEF ApiOps
<1>4. SetToSeq(N) \in Seq(N) /\ SetToSeq(D) \in Seq(D)
  BY <1>1, <1>2, InTurn
<1>5. ApplyApiSync(plan, ignores) = SetToSeq(N) \o SetToSeq(D) \o <<last>>
  BY DEF ApplyApiSync
<1> HIDE DEF N, D, last
<1>6. SetToSeq(N) \in Seq(S) /\ SetToSeq(D) \in Seq(S) /\ <<last>> \in Seq(S)
  BY <1>4
<1>7. \A in \in S : InOK("apis", "applySync", in)
  BY <1>1, <1>2, <1>3, ApiRequest DEF Reloading
<1> HIDE DEF S
<1>8. \A a, b, c \in Seq(S) : a \o b \o c \in Seq(S)
  OBVIOUS
<1>9. ApplyApiSync(plan, ignores) \in Seq(S)
  BY <1>5, <1>6, <1>8
<1> QED
  BY <1>7, <1>9, OnlyOK, SendsApi DEF Reloading

\* The requests of an assignment: one for each role, with its new policies.
LEMMA AssignRequests ==
  ASSUME NEW roles, roles = SeedRoles, NEW ps, PoliciesOK(ps), NEW key, NEW chosen,
         NEW w, w = Working(ps, roles, key, chosen),
         NEW S, \A in : in \in S <=> \E r \in Ids(roles) : in = Replacement(w, r)
  PROVE  Sends("apis", "assignApi", w, SetToSeq(S), FALSE)
<1> DEFINE reqs == SetToSeq(S)
<1>1. Ids(roles) = Named
  BY DEF Ids, SeedRoles, Named
<1>2. PoliciesOK(w)
  BY <1>1 DEF PoliciesOK, Working
<1>3. S = {Replacement(w, Super)} \cup {Replacement(w, "editor")}
  BY <1>1 DEF Named
<1>4. IsFiniteSet(S)
  <2>1. \A x, y : IsFiniteSet({x} \cup {y})
    BY FS_Singleton, FS_AddElement
  <2> QED
    BY <1>3, <2>1, Zenon
<1>5. ASSUME NEW in \in S
      PROVE  in.role \in Named /\ in = Replacement(w, in.role) /\ InOK("apis", "assignApi", in)
  <2> PICK r \in Named : in = Replacement(w, r)
    BY <1>1
  <2>1. in.role = r
    BY DEF Replacement
  <2> QED
    BY <2>1 DEF InOK
<1>6. ASSUME NEW r \in Named PROVE \E in \in S : in.role = r
  <2>1. Replacement(w, r) \in S /\ Replacement(w, r).role = r
    BY <1>1 DEF Replacement
  <2> QED
    BY <2>1
<1>7. /\ reqs \in Seq(S) /\ \A i \in DOMAIN reqs : reqs[i] \in S
      /\ \A in \in S : \E i \in DOMAIN reqs : reqs[i] = in
  BY <1>4, InTurn
<1> HIDE DEF reqs
<1>8. TodoIsOK("apis", "assignApi", reqs)
  BY <1>5, <1>7, OnlyOK
<1>9. Sends("apis", "assignApi", w, reqs, FALSE)
  BY <1>2, <1>5, <1>6, <1>7, <1>8 DEF Sends, DoOK
<1> QED
  BY <1>9 DEF reqs

LEMMA ApisQuiet ==
  ASSUME BusyInv, QuietInv, page = "apis", ApisPage
  PROVE  QuietInv'
<1>0. ViewOK(view, list.from)
  BY DEF QuietInv, ApisOK
<1>1. ASSUME SearchApis \/ SelectApis PROVE QuietInv'
  <2>1. ASSUME NEW v, Look(v), v.dialogs = view.dialogs, v.preview = view.preview, IsFiniteSet(v.selected)
        PROVE  QuietInv'
    BY <1>0, <2>1, LookQuiet DEF ViewOK
  <2>2. ASSUME NEW x PROVE LET v == [view EXCEPT !.search = x]
                           IN  v.dialogs = view.dialogs /\ v.preview = view.preview /\ v.selected = view.selected
    BY DEF BusyInv, Whole, ViewFields
  <2>3. ASSUME NEW x PROVE LET v == [view EXCEPT !.selected = x]
                           IN  v.dialogs = view.dialogs /\ v.preview = view.preview /\ v.selected = x
    BY DEF BusyInv, Whole, ViewFields
  <2>4. ASSUME SearchApis PROVE QuietInv'
    <3> PICK x : Look([view EXCEPT !.search = x])
      BY <2>4 DEF SearchApis
    <3> QED
      BY <1>0, <2>1, <2>2 DEF ViewOK
  <2>5. ASSUME SelectApis PROVE QuietInv'
    <3>1. \E x : Look([view EXCEPT !.selected = x]) /\ IsFiniteSet(x)
      <4>1. \A x : IsFiniteSet(Toggled(view.selected, x))
        BY <1>0, FS_AddElement, FS_RemoveElement DEF ViewOK, Toggled
      <4>2. IsFiniteSet({}) /\ IsFiniteSet(Ids(FilteredApis))
        BY ApiRows, FS_EmptySet
      <4> QED
        BY <2>5, <4>1, <4>2 DEF SelectApis
    <3> PICK x : Look([view EXCEPT !.selected = x]) /\ IsFiniteSet(x)
      BY <3>1
    <3> QED
      BY <2>1, <2>3
  <2> QED
    BY <1>1, <2>4, <2>5
<1>2. ASSUME OpenApiForm \/ ApiRowActions PROVE QuietInv'
  <2>1. ASSUME OpenAssignApi PROVE QuietInv'
    <3>1. list.from > 0
      BY <2>1, ApiRows DEF OpenAssignApi
    <3> QED
      BY <2>1, <3>1, ShowQuiet DEF OpenAssignApi
  <2> QED
    BY <1>2, <2>1, ShowQuiet DEF OpenApiForm, ApiRowActions
<1>3. ASSUME SaveApi PROVE QuietInv'
  <2> PICK of, k : of = Dialog("form").of
         /\ Save("form", "saveApi", <<IF of = New THEN [op |-> "createApi", key |-> k]
                                      ELSE [op |-> "updateApi", id |-> of, key |-> k]>>)
    BY <1>3 DEF SaveApi
  <2> PICK in : in = IF of = New THEN [op |-> "createApi", key |-> k] ELSE [op |-> "updateApi", id |-> of, key |-> k]
    OBVIOUS
  <2>1. in.op \in ApiOps /\ "keep" \notin DOMAIN in
    BY DEF ApiOps
  <2>2. Save("form", "saveApi", <<in>>)
    OBVIOUS
  <2> QED
    BY <2>1, <2>2, OneApiRequest, SaveQuiet DEF Reloading
<1>4. ASSUME ConfirmDeleteApi PROVE QuietInv'
  <2> PICK in : in = [op |-> "deleteApi", id |-> Dialog("delete").of]
    OBVIOUS
  <2>1. in.op \in ApiOps /\ "keep" \notin DOMAIN in
    BY DEF ApiOps
  <2>2. Send("delete", Dialog("delete").of, <<in>>)
    BY <1>4 DEF ConfirmDeleteApi
  <2> QED
    BY <2>1, <2>2, OneApiRequest, PlainQuiet DEF Reloading
<1>5. ASSUME ConfirmBatchDelete PROVE QuietInv'
  <2> DEFINE S == {[op |-> "deleteApi", id |-> i] : i \in view.selected}
  <2>1. Send("batchDelete", New, SetToSeq(S))
    BY <1>5 DEF ConfirmBatchDelete
  <2>2. IsFiniteSet(S) /\ \A in \in S : in.op \in ApiOps /\ "keep" \notin DOMAIN in
    BY <1>0, Deletions DEF ViewOK
  <2> HIDE DEF S
  <2> QED
    BY <2>1, <2>2, ManyRequests, PlainQuiet DEF Reloading
<1>6. ASSUME ImportApis PROVE QuietInv'
  <2> PICK ks \in SUBSET Inventory : Send("import", New, SetToSeq({[op |-> "createApi", key |-> k] : k \in ks}))
    BY <1>6 DEF ImportApis
  <2> DEFINE S == {[op |-> "createApi", key |-> k] : k \in ks}
  <2>1. Send("import", New, SetToSeq(S))
    OBVIOUS
  <2>2. IsFiniteSet(ks)
    BY InventoryAssumption, FS_Subset
  <2>3. IsFiniteSet(S) /\ \A in \in S : in.op \in ApiOps /\ "keep" \notin DOMAIN in
    BY <2>2, Creations
  <2> HIDE DEF S
  <2> QED
    BY <2>1, <2>3, ManyRequests, PlainQuiet DEF Reloading
<1>7. ASSUME OpenSyncDrawer PROVE QuietInv'
  <2> PICK in : in = [op |-> "previewSync"]
    OBVIOUS
  <2>1. in.op \in ApiOps /\ in.op \in Reads /\ "keep" \notin DOMAIN in
    BY DEF ApiOps, Reads
  <2>2. Sync("previewSync", "", <<in>>)
    BY <1>7 DEF OpenSyncDrawer
  <2>3. InOK("apis", "previewSync", in) /\ DoOK("apis", "previewSync")
    BY <2>1 DEF InOK, DoOK
  <2> QED
    BY <2>2, <2>3, SendsOne, SyncQuiet
<1>8. ASSUME ApplySync PROVE QuietInv'
  <2>1. Sync("applySync", "", ApplyApiSync(view.preview, view.preview.ignore)) /\ PlanOK(view.preview)
    BY <1>0, <1>8 DEF ApplySync, ViewOK
  <2> QED
    BY <2>1, SyncRequests, SyncQuiet
<1>9. ASSUME AddOneSyncApi PROVE QuietInv'
  <2> PICK k : Sync("addOneSync", k, <<[op |-> "createApi", key |-> k]>>)
    BY <1>9 DEF AddOneSyncApi
  <2> PICK in : in = [op |-> "createApi", key |-> k]
    OBVIOUS
  <2>1. in.op \in ApiOps /\ "keep" \notin DOMAIN in /\ Sync("addOneSync", k, <<in>>)
    BY DEF ApiOps
  <2> QED
    BY <2>1, OneApiRequest, SyncQuiet DEF Reloading
<1>10. ASSUME ToggleIgnoreSyncApi PROVE QuietInv'
  <2> PICK k, b : Sync("ignoreSync", k, <<[op |-> "ignoreApi", key |-> k, ignored |-> b]>>)
    BY <1>10 DEF ToggleIgnoreSyncApi
  <2> PICK in : in = [op |-> "ignoreApi", key |-> k, ignored |-> b]
    OBVIOUS
  <2>1. in.op = "ignoreApi" /\ "keep" \notin DOMAIN in /\ Sync("ignoreSync", k, <<in>>)
    OBVIOUS
  <2>2. InOK("apis", "ignoreSync", in) /\ DoOK("apis", "ignoreSync")
    BY <2>1 DEF InOK, DoOK, ApiOps
  <2> QED
    BY <2>1, <2>2, SendsOne, SyncQuiet
<1>11. ASSUME ConfirmRefresh PROVE QuietInv'
  <2> PICK v : v = WithoutDialog(view, "refresh")
    OBVIOUS
  <2>1. Reload(v)
    BY <1>11 DEF ConfirmRefresh
  <2>2. v.selected = view.selected /\ v.preview = view.preview /\ DOMAIN v.dialogs = DOMAIN view.dialogs \ {"refresh"}
    BY ClosedView DEF BusyInv
  <2>3. ViewOK(v, list.from)
    BY <1>0, <2>2 DEF ViewOK
  <2> QED
    BY <2>1, <2>3, ReloadQuiet
<1>12. ASSUME ConfirmAssignApi PROVE QuietInv'
  <2>1. Rows("roles") = SeedRoles /\ PoliciesOK(Rows("policies"))
    <3>1. list.from > 0
      BY <1>0, <1>12 DEF ConfirmAssignApi, CanConfirm, IsOpen, ViewOK
    <3> QED
      BY <3>1, ApiRows
  <2> DEFINE W(v) == Working(Rows("policies"), Rows("roles"), Dialog("assign").of, v)
             S(v) == {[op |-> "replaceCasbin", role |-> r, routes |-> RoutesOf(W(v), r)] : r \in Ids(Rows("roles"))}
  <2>2. \E v : SendWith([view EXCEPT !.busy = TRUE], "assignApi", W(v), SetToSeq(S(v)), FALSE)
    BY <1>12 DEF ConfirmAssignApi
  <2> PICK v : SendWith([view EXCEPT !.busy = TRUE], "assignApi", W(v), SetToSeq(S(v)), FALSE)
    BY <2>2
  <2>3. \A in : in \in S(v) <=> \E r \in Ids(Rows("roles")) : in = Replacement(W(v), r)
    BY DEF Replacement
  <2>4. \E key, chosen : W(v) = Working(Rows("policies"), Rows("roles"), key, chosen)
    OBVIOUS
  <2> HIDE DEF W, S
  <2>5. Sends("apis", "assignApi", W(v), SetToSeq(S(v)), FALSE)
    BY <2>1, <2>3, <2>4, AssignRequests
  <2> QED
    BY <2>5, FlagQuiet
<1> QED
  BY <1>1, <1>2, <1>3, <1>4, <1>5, <1>6, <1>7, <1>8, <1>9, <1>10, <1>11, <1>12, ShowQuiet
     DEF ApisPage, ApisToolbar, SyncDrawer

LEMMA ActsQuiet ==
  ASSUME BusyInv, QuietInv, UserActs
  PROVE  QuietInv'
BY CloseQuiet, UsersQuiet, RolesQuiet, MenusQuiet, ApisQuiet, CasbinQuiet DEF UserActs

\* An answer of the server arrives: it is what the server holds now.
LEMMA ReadsQuiet ==
  ASSUME QuietInv, NEW l \in list.loads, NEW f \in Fetched, LoadReads(l, f)
  PROVE  QuietInv'
<1> PICK a : a = Reply(disk, f, l.search)
  OBVIOUS
<1> PICK m : m = [l EXCEPT !.got = Extended(l.got, f, a)]
  OBVIOUS
<1>1. /\ list.loads = {l} /\ LoadOK(l) /\ f \notin DOMAIN l.got
      /\ UNCHANGED <<page, view, pending, disk>>
      /\ list' = [list EXCEPT !.loads = (list.loads \ {l}) \cup {m}]
  BY DEF QuietInv, ListOK, LoadReads, vars, Answered, Reply
<1>2. /\ DOMAIN list' = ListFields /\ list'.latest = list.latest /\ list'.from = list.from
      /\ list'.shown = list.shown /\ list'.trouble = list.trouble /\ list'.loads = {m}
  BY <1>1 DEF QuietInv, ListOK, ListFields
<1>3. Fetched' = Fetched
  BY <1>1 DEF Fetched
<1>4. /\ DOMAIN m = DOMAIN l /\ m.no = l.no /\ m.search = l.search
      /\ m.got = Extended(l.got, f, a)
  BY <1>1 DEF LoadOK
<1>5. /\ DOMAIN m.got = DOMAIN l.got \cup {f} /\ m.got[f] = a
      /\ \A g \in DOMAIN l.got : m.got[g] = l.got[g]
  BY <1>1, <1>4 DEF Extended
<1>6. LoadOK(m)'
  BY <1>1, <1>2, <1>3, <1>4, <1>5 DEF LoadOK
<1>7. ListOK'
  BY <1>2, <1>6 DEF QuietInv, ListOK
<1>8. Truth'
  <2> SUFFICES ASSUME list.trouble < list.latest, NEW g \in Fetched, g \in DOMAIN m.got
               PROVE  m.got[g] = Reply(disk, g, m.search) \/ Excused(pending, g)
    BY <1>1, <1>2, <1>3 DEF Truth
  <2>1. CASE g = f
    BY <1>4, <1>5, <2>1
  <2>2. CASE g # f
    <3>1. g \in DOMAIN l.got
      BY <1>5, <2>2
    <3> QED
      BY <1>1, <1>4, <1>5, <3>1 DEF QuietInv, Truth
  <2> QED
    BY <2>1, <2>2
<1>9. ASSUME page = "apis" PROVE ApisOK'
  <2>1. RowsOK(f, a)
    <3>1. Fetched = {"apis", "roles", "policies"} /\ f \in Files
      BY <1>9, FetchedFiles DEF QuietInv
    <3>2. a = disk[f]
      BY <3>1 DEF Reply
    <3> QED
      BY <1>9, <3>1, <3>2 DEF QuietInv, ApisOK
  <2>2. \A g \in DOMAIN m.got : RowsOK(g, m.got[g])
    BY <1>5, <1>9, <2>1 DEF QuietInv, ApisOK, ShownOK
  <2>3. ShownOK'
    BY <1>2, <1>3, <1>9, <2>2 DEF QuietInv, ApisOK, ShownOK, Rows
  <2> QED
    BY <1>1, <1>2, <1>9, <2>3 DEF QuietInv, ApisOK
<1> QED
  BY <1>1, <1>7, <1>8, <1>9 DEF QuietInv

\* The lists are shown: they are those of the last load that was begun.
LEMMA InstallsQuiet ==
  ASSUME BusyInv, QuietInv, NEW l \in list.loads, LoadInstalls(l)
  PROVE  QuietInv'
<1> PICK s : s = [f \in DOMAIN NoRows |-> IF f \in Fetched THEN l.got[f] ELSE {}]
  OBVIOUS
<1> PICK m : m = Finished(l)
  OBVIOUS
<1>1. /\ list.loads = {l} /\ LoadOK(l) /\ DOMAIN l.got = Fetched
      /\ UNCHANGED <<page, pending, disk>> /\ view' = [view EXCEPT !.draft = <<>>]
      /\ list' = [m EXCEPT !.from = l.no, !.shown = s]
  BY DEF QuietInv, ListOK, LoadInstalls, vars
<1>2. /\ DOMAIN m = ListFields /\ m.latest = list.latest /\ m.trouble = list.trouble /\ m.loads = list.loads \ {l}
  BY DEF Finished, QuietInv, ListOK, ListFields
<1>3. /\ DOMAIN list' = ListFields /\ list'.latest = list.latest /\ list'.trouble = list.trouble
      /\ list'.loads = {} /\ list'.from = list.latest /\ list'.shown = s
  BY <1>1, <1>2 DEF ListFields, LoadOK
<1>4. view'.search = view.search /\ view'.selected = view.selected /\ view'.preview = view.preview
      /\ view'.dialogs = view.dialogs
  BY <1>1 DEF BusyInv, Whole, ViewFields
<1>5. Fetched' = Fetched /\ Fetched \subseteq DOMAIN NoRows
  BY <1>1, FetchedFiles DEF Fetched, QuietInv
<1>6. DOMAIN s = DOMAIN NoRows /\ \A f \in Fetched : s[f] = l.got[f]
  BY <1>5
<1>7. ListOK'
  BY <1>3, <1>6 DEF QuietInv, ListOK
<1>8. Truth'
  <2> SUFFICES ASSUME list.trouble < list.latest, NEW f \in Fetched
               PROVE  s[f] = Reply(disk, f, view.search) \/ Excused(pending, f)
    BY <1>1, <1>3, <1>4, <1>5 DEF Truth, Rows
  <2>1. Reply(disk, f, l.search) = Reply(disk, f, view.search)
    BY <1>1, SameReply DEF QuietInv, LoadOK
  <2> QED
    BY <1>1, <1>6, <2>1 DEF QuietInv, Truth
<1>9. ASSUME page = "apis" PROVE ApisOK'
  <2>1. ShownOK'
    BY <1>1, <1>3, <1>5, <1>6, <1>9 DEF QuietInv, ListOK, ApisOK, ShownOK, Rows
  <2>2. ViewOK(view', list'.from)
    BY <1>3, <1>4, <1>9 DEF QuietInv, ListOK, ApisOK, ViewOK
  <2> QED
    BY <1>1, <1>9, <2>1, <2>2 DEF QuietInv, ApisOK
<1> QED
  BY <1>1, <1>7, <1>8, <1>9 DEF QuietInv

LEMMA FailsQuiet ==
  ASSUME QuietInv, NEW l \in list.loads, LoadFails(l)
  PROVE  QuietInv'
<1> PICK m : m = Finished(l)
  OBVIOUS
<1>1. /\ list.loads = {l} /\ LoadOK(l)
      /\ UNCHANGED <<page, view, pending, disk>>
      /\ list' = [m EXCEPT !.trouble = l.no]
  BY DEF QuietInv, ListOK, LoadFails, vars
<1>2. /\ DOMAIN m = ListFields /\ m.latest = list.latest /\ m.from = list.from /\ m.shown = list.shown
      /\ m.loads = list.loads \ {l}
  BY DEF Finished, QuietInv, ListOK, ListFields
<1>3. /\ DOMAIN list' = ListFields /\ list'.latest = list.latest /\ list'.trouble = list.latest
      /\ list'.loads = {} /\ list'.from = list.from /\ list'.shown = list.shown
  BY <1>1, <1>2 DEF ListFields, LoadOK
<1>4. Fetched' = Fetched
  BY <1>1 DEF Fetched
<1>5. ListOK'
  BY <1>3 DEF QuietInv, ListOK
<1>6. Truth'
  BY <1>3 DEF QuietInv, ListOK, Truth
<1>7. ASSUME page = "apis" PROVE ApisOK'
  <2>1. ShownOK'
    BY <1>3, <1>4, <1>7 DEF QuietInv, ApisOK, ShownOK, Rows
  <2> QED
    BY <1>1, <1>3, <1>7, <2>1 DEF QuietInv, ApisOK
<1> QED
  BY <1>1, <1>5, <1>6, <1>7 DEF QuietInv

\* A handler is over, or goes on to load the session: the others stay, and an
\* assignment to roles is gone by then.
LEMMA EndedHandlers ==
  ASSUME BusyInv, QuietInv, NEW n \in DOMAIN pending,
         CallEnds(pending[n]) \/ Put(pending[n], [pending[n] EXCEPT !.phase = "refreshing"]),
         pending[n].do = "assignApi" => CallEnds(pending[n]) /\ pending[n].wire = {},
         UNCHANGED <<page, disk>>
  PROVE  /\ \A m \in DOMAIN pending' : Shape(page, pending'[m])
         /\ page = "apis" => \A m \in DOMAIN pending' :
               pending'[m].do = "assignApi" => AssignOK(disk.policies, pending'[m])
         /\ \A f : Excused(pending, f) /\ ~Excuses(pending[n], f) => Excused(pending', f)
<1> PICK c : c = pending[n]
  OBVIOUS
<1>1. c.no = n /\ HandlerOK(n, c) /\ Shape(page, c)
  BY DEF BusyInv, HandlerOK, QuietInv
<1>2. /\ DOMAIN pending' \subseteq DOMAIN pending
      /\ \A m \in DOMAIN pending : m # n => m \in DOMAIN pending' /\ pending'[m] = pending[m]
      /\ n \in DOMAIN pending' => c.do # "assignApi" /\ \E ph : pending'[n] = [c EXCEPT !.phase = ph]
  <2>1. CASE CallEnds(c) /\ c.wire = {}
    <3>1. pending' = [m \in DOMAIN pending \ {n} |-> pending[m]]
      BY <1>1, <2>1 DEF CallEnds, Restrict
    <3> QED
      BY <3>1
  <2>2. ASSUME NEW ph, pending' = [pending EXCEPT ![n] = [c EXCEPT !.phase = ph]], c.do # "assignApi"
        PROVE  /\ DOMAIN pending' \subseteq DOMAIN pending
               /\ \A m \in DOMAIN pending : m # n => m \in DOMAIN pending' /\ pending'[m] = pending[m]
               /\ \E x : pending'[n] = [c EXCEPT !.phase = x]
    BY <2>2
  <2>3. CASE CallEnds(c) /\ c.wire # {}
    <3>1. pending' = [pending EXCEPT ![n] = [c EXCEPT !.phase = "over"]] /\ c.do # "assignApi"
      BY <1>1, <2>3 DEF CallEnds
    <3> QED
      BY <2>2, <3>1
  <2>4. CASE Put(c, [c EXCEPT !.phase = "refreshing"]) /\ c.do # "assignApi"
    <3>1. pending' = [pending EXCEPT ![n] = [c EXCEPT !.phase = "refreshing"]]
      BY <1>1, <2>4 DEF Put
    <3> QED
      BY <2>2, <2>4, <3>1
  <2> QED
    BY <2>1, <2>3, <2>4
<1>3. ASSUME NEW ph, NEW d, d = [c EXCEPT !.phase = ph]
      PROVE  Shape(page, d) /\ d.do = c.do
  <2>1. /\ d.do = c.do /\ d.wire = c.wire /\ d.todo = c.todo /\ d.failed = c.failed /\ d.got = c.got
    BY <1>1, <1>3 DEF HandlerOK, CallFields
  <2> QED
    BY <1>1, <2>1 DEF Shape
<1>4. \A m \in DOMAIN pending' : Shape(page, pending'[m])
  BY <1>2, <1>3 DEF QuietInv
<1>5. ASSUME page = "apis", NEW m \in DOMAIN pending', pending'[m].do = "assignApi"
      PROVE  AssignOK(disk.policies, pending'[m])
  <2>1. m # n
    <3> SUFFICES ASSUME m = n PROVE FALSE
      OBVIOUS
    <3> PICK ph : pending'[n] = [c EXCEPT !.phase = ph]
      BY <1>2
    <3>1. c.do # "assignApi" /\ pending'[n].do = c.do
      BY <1>2, <1>3
    <3> QED
      BY <1>5, <3>1
  <2> QED
    BY <1>2, <1>5, <2>1 DEF QuietInv, ApisOK
<1>6. ASSUME NEW f, Excused(pending, f), ~Excuses(c, f) PROVE Excused(pending', f)
  BY <1>2, <1>6 DEF Excused
<1> QED
  BY <1>4, <1>5, <1>6

\* Giving up the busy flags leaves the rest of the view.
LEMMA OverView ==
  ASSUME NEW c, NEW v, Whole(v), NEW w, w = Over(c, v)
  PROVE  w.search = v.search /\ w.selected = v.selected /\ w.preview = v.preview /\ w.dialogs = v.dialogs
BY DEF Over, Whole, ViewFields

\* What the server finds out of step is finite: a part of the inventory, and
\* some of the rows.
LEMMA PreviewFinite == ASSUME IsFiniteSet(disk.apis) PROVE PlanOK(Preview)
<1> DEFINE D == {a.id : a \in {b \in disk.apis : b.key \notin Inventory}}
           N == Inventory \ (Keys(disk.apis) \cup disk.ignores)
<1>1. Preview = [new |-> N, delete |-> D, ignore |-> disk.ignores]
  BY DEF Preview, PreviewApiSync
<1>2. IsFiniteSet(N)
  BY InventoryAssumption, FS_Subset
<1>3. IsFiniteSet(D)
  <2>1. IsFiniteSet({b \in disk.apis : b.key \notin Inventory})
    BY FS_Subset
  <2> QED
    BY <2>1, IdsFinite DEF Ids
<1> HIDE DEF N, D
<1> QED
  BY <1>1, <1>2, <1>3 DEF PlanOK, PlanFields

\* What a handler leaves of the view: the search, and what the page of the
\* APIs counts on.
LEMMA AfterSearch ==
  ASSUME NEW v, Whole(v), NEW c
  PROVE  After(c, v).search = v.search
<1>1. CASE c.do = "previewSync"
  <2> PICK x : x = CHOOSE p \in c.got : TRUE
    OBVIOUS
  <2>1. After(c, v) = WithDialog([v EXCEPT !.preview = x], "sync", New, {})
    BY <1>1 DEF After
  <2>2. \E e : WithDialog([v EXCEPT !.preview = x], "sync", New, {}) = [v EXCEPT !.preview = x, !.dialogs = e]
    BY DEF WithDialog
  <2>3. \A e : [v EXCEPT !.preview = x, !.dialogs = e].search = v.search
    BY DEF Whole, ViewFields
  <2> QED
    BY <2>1, <2>2, <2>3, Zenon
<1>2. CASE c.do # "previewSync"
  BY <1>2 DEF After, Whole, ViewFields
<1> QED
  BY <1>1, <1>2

LEMMA AfterView ==
  ASSUME QuietInv, page = "apis", NEW v, Whole(v), ViewOK(v, list.from), NEW c, Shape("apis", c),
         ~c.failed, c.wire = {}, NEW w, w = After(c, v)
  PROVE  ViewOK(w, list.from)
<1>0. /\ v.preview.new = v.preview.new /\ IsFiniteSet(v.preview.new) /\ IsFiniteSet(v.preview.delete)
      /\ DOMAIN v.preview = PlanFields /\ IsFiniteSet(v.selected)
  BY DEF ViewOK, PlanOK
<1>1. ASSUME NEW x, IsFiniteSet(x), w = [v EXCEPT !.selected = x] PROVE ViewOK(w, list.from)
  <2>1. w.selected = x /\ w.preview = v.preview /\ w.dialogs = v.dialogs
    BY <1>1 DEF Whole, ViewFields
  <2> QED
    BY <1>1, <2>1 DEF ViewOK
<1>2. ASSUME NEW x, PlanOK(x), w = [v EXCEPT !.preview = x] PROVE ViewOK(w, list.from)
  <2>1. w.selected = v.selected /\ w.preview = x /\ w.dialogs = v.dialogs
    BY <1>2 DEF Whole, ViewFields
  <2> QED
    BY <1>2, <2>1 DEF ViewOK
<1>3. CASE c.do = "delete"
  <2> PICK x : x = v.selected \ {c.of}
    OBVIOUS
  <2>1. w = [v EXCEPT !.selected = x]
    BY <1>3 DEF After
  <2>2. IsFiniteSet(x)
    BY <1>0, FS_RemoveElement
  <2> QED
    BY <1>1, <2>1, <2>2
<1>4. CASE c.do = "batchDelete"
  <2>1. w = [v EXCEPT !.selected = {}]
    BY <1>4 DEF After
  <2> QED
    BY <1>1, <2>1, FS_EmptySet
<1>5. CASE c.do = "previewSync"
  <2> PICK x : c.got = {x} /\ PlanOK(x)
    BY <1>5 DEF Shape
  <2>1. (CHOOSE p \in c.got : TRUE) = x
    OBVIOUS
  <2> PICK e : e = Extended(v.dialogs, "sync", [of |-> New, value |-> {}])
    OBVIOUS
  <2>2. w = WithDialog([v EXCEPT !.preview = x], "sync", New, {})
    BY <1>5, <2>1 DEF After
  <2>3. w = [v EXCEPT !.preview = x, !.dialogs = e]
    BY <2>2 DEF WithDialog, Whole, ViewFields
  <2>4. w.selected = v.selected /\ w.preview = x /\ w.dialogs = e
    BY <2>3 DEF Whole, ViewFields
  <2>5. DOMAIN e = DOMAIN v.dialogs \cup {"sync"}
    BY DEF Extended
  <2> QED
    BY <2>4, <2>5 DEF ViewOK
<1>6. CASE c.do = "applySync"
  <2>1. IsFiniteSet(disk.apis)
    BY DEF QuietInv, ApisOK, RowsOK, Files
  <2>2. w = [v EXCEPT !.preview = Preview]
    BY <1>6 DEF After
  <2> QED
    BY <1>2, <2>1, <2>2, PreviewFinite
<1>7. CASE c.do = "addOneSync"
  <2> PICK x : x = [v.preview EXCEPT !.new = v.preview.new \ {c.of}]
    OBVIOUS
  <2>1. PlanOK(x)
    BY <1>0, FS_RemoveElement DEF PlanOK, PlanFields
  <2>2. w = [v EXCEPT !.preview = x]
    BY <1>7 DEF After
  <2> QED
    BY <1>2, <2>1, <2>2
<1>8. CASE c.do = "ignoreSync"
  <2> PICK N : N = IF c.of \in c.got THEN v.preview.new \ {c.of} ELSE v.preview.new \cup {c.of}
    OBVIOUS
  <2>1. IsFiniteSet(N)
    BY <1>0, FS_RemoveElement, FS_AddElement
  <2> PICK P : P = [v.preview EXCEPT !.ignore = c.got, !.new = N]
    OBVIOUS
  <2>2. w = [v EXCEPT !.preview.ignore = c.got, !.preview.new = N]
    BY <1>8 DEF After
  <2>3. \A g, m : [v EXCEPT !.preview.ignore = g, !.preview.new = m]
                    = [v EXCEPT !.preview = [v.preview EXCEPT !.ignore = g, !.new = m]]
    BY DEF Whole, ViewFields
  <2>4. w = [v EXCEPT !.preview = P]
    BY <2>2, <2>3, Zenon
  <2>5. PlanOK(P)
    <3>1. DOMAIN P = PlanFields /\ P.new = N /\ P.delete = v.preview.delete
      BY <1>0 DEF PlanFields
    <3> QED
      BY <1>0, <2>1, <3>1 DEF PlanOK
  <2> QED
    BY <1>2, <2>4, <2>5
<1>9. CASE c.do \notin {"delete", "batchDelete", "previewSync", "applySync", "addOneSync", "ignoreSync"}
  <2>1. c.do # "openAssign"
    BY DEF Shape, DoOK
  <2>2. w = v
    BY <1>9, <2>1 DEF After
  <2> QED
    BY <2>2
<1> QED
  BY <1>3, <1>4, <1>5, <1>6, <1>7, <1>8, <1>9

\* The policies that two sets have for each role make up the sets.
LEMMA SamePolicies ==
  ASSUME NEW a, NEW b, PoliciesOK(a), PoliciesOK(b), \A r \in Named : OfRole(a, r) = OfRole(b, r)
  PROVE  a = b
<1>1. ASSUME NEW c, NEW d, PoliciesOK(c), \A r \in Named : OfRole(c, r) = OfRole(d, r), NEW p \in c
      PROVE  p \in d
  <2>1. p.role \in Named /\ p \in OfRole(c, p.role)
    BY <1>1 DEF PoliciesOK, OfRole
  <2>2. p \in OfRole(d, p.role)
    BY <1>1, <2>1
  <2> QED
    BY <2>2 DEF OfRole
<1>2. \A p \in a : p \in b
  BY <1>1
<1>3. \A p \in b : p \in a
  BY <1>1
<1> QED
  BY <1>2, <1>3

\* The lists and the handlers after a handler has come to its end.
LEMMA EndQuiet ==
  ASSUME BusyInv, QuietInv, NEW n \in DOMAIN pending,
         CallEnds(pending[n]) \/ Put(pending[n], [pending[n] EXCEPT !.phase = "refreshing"]),
         pending[n].do = "assignApi" => CallEnds(pending[n]) /\ pending[n].wire = {},
         UNCHANGED <<page, disk>>, ListOK', Truth', ShownOK => ShownOK',
         page = "apis" => ViewOK(view', list.from), list'.from = list.from
  PROVE  QuietInv'
<1>1. /\ \A m \in DOMAIN pending' : Shape(page, pending'[m])
      /\ page = "apis" => \A m \in DOMAIN pending' :
            pending'[m].do = "assignApi" => AssignOK(disk.policies, pending'[m])
  BY EndedHandlers
<1>2. page = "apis" => ApisOK'
  BY <1>1 DEF QuietInv, ApisOK
<1> QED
  BY <1>1, <1>2 DEF QuietInv

\* The handler whose API was assigned shows its own copy of the policies.
LEMMA AssignedTruth ==
  ASSUME BusyInv, QuietInv, NEW n \in DOMAIN pending, CallEnds(pending[n]),
         pending[n].do = "assignApi", ~pending[n].failed, pending[n].phase = "waiting",
         pending[n].wire = {}, pending[n].todo = <<>>, UNCHANGED <<page, disk>>, view'.search = view.search,
         NEW t \in {list.trouble, list.latest}, list.loads # {} => t = list.latest,
         list' = [list EXCEPT !.shown.policies = pending[n].of, !.trouble = t]
  PROVE  ListOK' /\ Truth' /\ (ShownOK => ShownOK') /\ list'.from = list.from
<1> PICK c : c = pending[n]
  OBVIOUS
<1>0. page = "apis" /\ Fetched = {"apis", "roles", "policies"} /\ Fetched' = Fetched
  <2>1. page = "apis"
    BY DEF QuietInv, Shape, DoOK
  <2> QED
    BY <2>1, FetchedFiles DEF QuietInv, Fetched
<1>1. AssignOK(disk.policies, c)
  BY <1>0 DEF QuietInv, ApisOK
<1>2. c.of = disk.policies
  <2>1. PoliciesOK(c.of) /\ PoliciesOK(disk.policies)
    BY <1>0, <1>1 DEF AssignOK, QuietInv, ApisOK, RowsOK, Files
  <2>2. Still(disk.policies, c)
    BY <1>1 DEF AssignOK
  <2>3. DOMAIN c.todo = {}
    BY NothingIn, Zenon
  <2>4. \A r \in Named : OfRole(disk.policies, r) = OfRole(c.of, r)
    BY <2>2, <2>3 DEF Still
  <2> QED
    BY <2>1, <2>4, SamePolicies
<1>3. /\ DOMAIN list' = ListFields /\ list'.latest = list.latest /\ list'.from = list.from
      /\ list'.loads = list.loads /\ list'.trouble = t
      /\ DOMAIN list'.shown = DOMAIN list.shown
      /\ list'.shown["policies"] = disk.policies
      /\ \A f \in DOMAIN list.shown : f # "policies" => list'.shown[f] = list.shown[f]
  <2> PICK s : s = [list.shown EXCEPT !["policies"] = c.of]
    OBVIOUS
  <2>1. list' = [list EXCEPT !.shown = s, !.trouble = t]
    BY DEF QuietInv, ListOK, ListFields
  <2>2. /\ DOMAIN list' = ListFields /\ list'.latest = list.latest /\ list'.from = list.from
        /\ list'.loads = list.loads /\ list'.trouble = t /\ list'.shown = s
    BY <2>1 DEF QuietInv, ListOK, ListFields
  <2>3. "policies" \in DOMAIN list.shown
    BY DEF QuietInv, ListOK, NoRows
  <2>4. /\ DOMAIN s = DOMAIN list.shown /\ s["policies"] = c.of
        /\ \A f \in DOMAIN list.shown : f # "policies" => s[f] = list.shown[f]
    BY <2>3
  <2> QED
    BY <1>2, <2>2, <2>4
<1>4. ListOK'
  <2>1. t <= list.latest /\ t \in Nat
    BY DEF QuietInv, ListOK
  <2>2. ASSUME NEW l \in list.loads PROVE list.loads = {l} /\ LoadOK(l)'
    BY <1>0, <1>3 DEF QuietInv, ListOK, LoadOK
  <2> QED
    BY <1>3, <2>1, <2>2 DEF QuietInv, ListOK
<1>5. Truth'
  <2> SUFFICES ASSUME t < list.latest, NEW f \in Fetched, ~Excused(pending', f)
               PROVE  list.loads = {} /\ list'.shown[f] = Reply(disk, f, view.search)
    BY <1>0, <1>3 DEF Truth, Rows
  <2>1. list.loads = {} /\ t = list.trouble
    BY DEF QuietInv, ListOK
  <2>2. CASE f = "policies"
    BY <1>3, <2>1, <2>2 DEF Reply
  <2>3. CASE f # "policies"
    <3>1. ~Excuses(c, f)
      BY <2>3 DEF Excuses, Reloading
    <3>2. ~Excused(pending, f)
      BY <3>1, EndedHandlers
    <3>3. f \in DOMAIN list.shown
      BY <1>0 DEF QuietInv, ListOK, NoRows
    <3>4. list.shown[f] = Reply(disk, f, view.search)
      BY <2>1, <3>2 DEF QuietInv, Truth, Rows
    <3> QED
      BY <1>3, <2>1, <2>3, <3>3, <3>4
  <2> QED
    BY <2>2, <2>3
<1>6. ASSUME ShownOK PROVE ShownOK'
  <2>1. PoliciesOK(disk.policies)
    BY <1>0 DEF QuietInv, ApisOK, RowsOK, Files
  <2>2. \A f \in Fetched : f \in DOMAIN list.shown
    BY <1>0 DEF QuietInv, ListOK, NoRows
  <2>3. RowsOK("policies", disk.policies)
    BY <2>1 DEF RowsOK
  <2>4. list'.shown["apis"] = list.shown["apis"]
    BY <1>0, <1>3, <2>2
  <2> QED
    BY <1>0, <1>3, <1>6, <2>2, <2>3, <2>4 DEF ShownOK, Rows
<1> QED
  BY <1>3, <1>4, <1>5, <1>6

\* A step that cannot be vouched for: nothing is claimed until the next load.
LEMMA LatestTrouble ==
  ASSUME QuietInv, UNCHANGED page, page = "users" => view'.search = view.search,
         list' = [list EXCEPT !.trouble = list.latest]
  PROVE  ListOK' /\ Truth' /\ (ShownOK => ShownOK') /\ list'.from = list.from
<1>1. list'.from = list.from
  BY DEF QuietInv, ListOK, ListFields
<1> QED
  BY <1>1, TruthKeeps

\* The requests of a handler have been answered, or one has failed.
LEMMA SettleQuiet ==
  ASSUME BusyInv, QuietInv, NEW n \in DOMAIN pending, Settle(pending[n])
  PROVE  QuietInv'
<1> PICK c : c = pending[n]
  OBVIOUS
<1>1. c.phase = "waiting" /\ UNCHANGED <<page, disk>> /\ Shape(page, c)
  BY DEF Settle, vars, QuietInv
<1>2. Whole(view) /\ (page = "apis" => ViewOK(view, list.from))
  BY DEF BusyInv, QuietInv, ApisOK
<1>3. c.do = "assignApi" => page = "apis" /\ AssignOK(disk.policies, c)
  <2>1. c.do = "assignApi" => page = "apis"
    BY <1>1 DEF Shape, DoOK
  <2> QED
    BY <2>1 DEF QuietInv, ApisOK
<1>4. CASE c.failed
  <2>1. CallEnds(c) /\ view' = Over(c, view) /\ list' = [list EXCEPT !.trouble = list.latest]
    BY <1>4 DEF Settle
  <2>2. c.do = "assignApi" => c.wire = {}
    BY <1>3, <1>4 DEF AssignOK
  <2>3. /\ view'.search = view.search /\ view'.selected = view.selected
        /\ view'.preview = view.preview /\ view'.dialogs = view.dialogs
    BY <1>2, <2>1, OverView
  <2>4. page = "apis" => ViewOK(view', list.from)
    BY <1>2, <2>3 DEF ViewOK
  <2>5. ListOK' /\ Truth' /\ (ShownOK => ShownOK') /\ list'.from = list.from
    BY <1>1, <2>1, <2>3, LatestTrouble
  <2> QED
    BY <1>1, <2>1, <2>2, <2>4, <2>5, EndQuiet
<1>5. CASE ~c.failed
  <2> PICK v : v = WithoutDialog(view, Closes(c.do))
    OBVIOUS
  <2> PICK w : w = After(c, v)
    OBVIOUS
  <2>1. /\ c.wire = {} /\ c.todo = <<>> /\ view' \in {w, Over(c, w)}
        /\ CallEnds(c) \/ Put(c, [c EXCEPT !.phase = "refreshing"])
        /\ c.do = "assignApi" => CallEnds(c)
    BY <1>5 DEF Settle, Refreshing
  <2>2. Whole(v) /\ v.search = view.search /\ (page = "apis" => ViewOK(v, list.from))
    <3>1. Whole(v)
      BY <1>2, DialogKeeps DEF Keeps
    <3>2. /\ v.search = view.search /\ v.selected = view.selected /\ v.preview = view.preview
          /\ DOMAIN v.dialogs \subseteq DOMAIN view.dialogs
      BY <1>2, ClosedView
    <3> QED
      BY <1>2, <3>1, <3>2 DEF ViewOK
  <2>3. Whole(w) /\ w.search = view.search
    BY <2>2, AfterKeeps, AfterSearch DEF Keeps
  <2>4. page = "apis" => ViewOK(w, list.from)
    BY <1>1, <1>5, <2>1, <2>2, AfterView
  <2>5. /\ view'.search = view.search /\ view'.selected = w.selected
        /\ view'.preview = w.preview /\ view'.dialogs = w.dialogs
    BY <2>1, <2>3, OverView
  <2>6. page = "apis" => ViewOK(view', list.from)
    BY <2>4, <2>5 DEF ViewOK
  <2>7. ListOK' /\ Truth' /\ (ShownOK => ShownOK') /\ list'.from = list.from
    <3>1. CASE c.do \in Reloading
      <4>1. list' = Restarted(list, view.search)
        BY <1>5, <3>1 DEF Settle
      <4>2. list'.from = list.from
        BY <4>1 DEF Restarted, QuietInv, ListOK, ListFields
      <4> QED
        BY <1>1, <2>5, <4>1, <4>2, TruthRestarts
    <3>2. CASE c.do = "assignApi"
      <4> PICK t : t = IF list.loads = {} THEN list.trouble ELSE list.latest
        OBVIOUS
      <4>1. list' = [list EXCEPT !.shown.policies = c.of, !.trouble = t]
        BY <1>5, <3>2 DEF Settle, Reloading
      <4>2. t \in {list.trouble, list.latest} /\ (list.loads # {} => t = list.latest)
        OBVIOUS
      <4> QED
        BY <1>1, <1>5, <2>1, <2>5, <3>2, <4>1, <4>2, AssignedTruth
    <3>3. CASE c.do \notin Reloading /\ c.do # "assignApi"
      <4>1. list' = list
        BY <1>5, <3>3 DEF Settle
      <4>2. \A f : ~Excuses(c, f)
        BY <1>5, <3>3 DEF Excuses
      <4>3. \A f : Excused(pending, f) => Excused(pending', f)
        BY <1>1, <2>1, <4>2, EndedHandlers
      <4>4. \A f \in Fetched : Excused(pending', f) \/ \A s : Reply(disk', f, s) = Reply(disk, f, s)
        BY <1>1
      <4> QED
        BY <1>1, <2>5, <4>1, <4>3, <4>4, TruthKeeps
    <3> QED
      BY <3>1, <3>2, <3>3
  <2> QED
    BY <1>1, <2>1, <2>6, <2>7, EndQuiet
<1> QED
  BY <1>4, <1>5

LEMMA RefreshedQuiet ==
  ASSUME BusyInv, QuietInv, NEW n \in DOMAIN pending, SessionRefreshed(pending[n])
  PROVE  QuietInv'
<1> PICK c : c = pending[n]
  OBVIOUS
<1>1. c.phase = "refreshing" /\ UNCHANGED <<page, disk, list>> /\ CallEnds(c) /\ view' = Over(c, view)
  BY DEF SessionRefreshed, vars
<1>2. Whole(view) /\ (page = "apis" => ViewOK(view, list.from)) /\ Shape(page, c)
  BY DEF BusyInv, QuietInv, ApisOK
<1>3. c.do = "assignApi" => c.wire = {}
  <2>1. c.do = "assignApi" => page = "apis"
    BY <1>2 DEF Shape, DoOK
  <2>2. c.do = "assignApi" => AssignOK(disk.policies, c)
    BY <2>1 DEF QuietInv, ApisOK
  <2> QED
    BY <1>1, <2>2 DEF AssignOK
<1>4. /\ view'.search = view.search /\ view'.selected = view.selected
      /\ view'.preview = view.preview /\ view'.dialogs = view.dialogs
  BY <1>1, <1>2, OverView
<1>5. page = "apis" => ViewOK(view', list.from)
  BY <1>2, <1>4 DEF ViewOK
<1>6. \A f : ~Excuses(c, f)
  BY <1>1 DEF Excuses
<1>7. \A f : Excused(pending, f) => Excused(pending', f)
  BY <1>1, <1>3, <1>6, EndedHandlers
<1>8. ListOK' /\ Truth' /\ (ShownOK => ShownOK')
  BY <1>1, <1>4, <1>7, TruthKeeps
<1> QED
  BY <1>1, <1>3, <1>5, <1>8, EndQuiet

\* A handler c goes on as d: what it shall do and where it is stay, and what
\* it has still to send stays in order.
Onward(p, ps, c, d) ==
    /\ d.do = c.do /\ d.phase = c.phase /\ (c.failed => d.failed)
    /\ Shape(p, d)
    /\ p = "apis" /\ d.do = "assignApi" => AssignOK(ps, d)

LEMMA FilesOf ==
  /\ \A op \in ApiOps \ Reads : FileOf(op) = "ignores" \/ (FileOf(op) = "apis" /\ op \in {"createApi", "updateApi", "deleteApi"})
  /\ FileOf("replaceCasbin") = "policies" /\ FileOf("updateUser") = "users"
  /\ FileOf("setRoleUsers") = "users" /\ FileOf("ignoreApi") = "ignores"
<1>1. \A op \in ApiOps \ Reads : op \in {"createApi", "updateApi", "deleteApi", "saveIgnores", "ignoreApi"}
  BY DEF ApiOps, Reads
<1>2. /\ FileOf("createApi") = "apis" /\ FileOf("updateApi") = "apis" /\ FileOf("deleteApi") = "apis"
      /\ FileOf("saveIgnores") = "ignores" /\ FileOf("ignoreApi") = "ignores"
  BY DEF FileOf
<1>3. FileOf("replaceCasbin") = "policies" /\ FileOf("updateUser") = "users" /\ FileOf("setRoleUsers") = "users"
  BY DEF FileOf
<1> QED
  BY <1>1, <1>2, <1>3

\* The handlers that a step leaves alone, and the lists they excuse.
LEMMA OthersStay ==
  ASSUME BusyInv, QuietInv, NEW n \in DOMAIN pending, NEW d, Put(pending[n], d), NEW ps,
         Onward(page, ps, pending[n], d), UNCHANGED page
  PROVE  /\ DOMAIN pending' = DOMAIN pending /\ pending'[n] = d
         /\ \A m \in DOMAIN pending : m # n => pending'[m] = pending[m]
         /\ \A m \in DOMAIN pending' : Shape(page, pending'[m])
         /\ \A f : Excused(pending, f) => Excused(pending', f)
         /\ \A f : Excuses(pending[n], f) => Excused(pending', f)
<1>1. pending[n].no = n
  BY DEF BusyInv, HandlerOK
<1>2. /\ DOMAIN pending' = DOMAIN pending /\ pending'[n] = d
      /\ \A m \in DOMAIN pending : m # n => pending'[m] = pending[m]
  BY <1>1 DEF Put
<1>3. \A m \in DOMAIN pending' : Shape(page, pending'[m])
  BY <1>2 DEF Onward, QuietInv
<1>4. \A f : Excuses(pending[n], f) => Excuses(d, f)
  BY DEF Onward, Excuses
<1>5. \A f : Excused(pending, f) => Excused(pending', f)
  BY <1>2, <1>4 DEF Excused
<1>6. \A f : Excuses(pending[n], f) => Excused(pending', f)
  BY <1>2, <1>4 DEF Excused
<1> QED
  BY <1>2, <1>3, <1>5, <1>6

\* While one API is being assigned, no other assignment has anything to send.
LEMMA OneAssigns ==
  ASSUME BusyInv, QuietInv, page = "apis", NEW n \in DOMAIN pending, pending[n].do = "assignApi", pending[n].wire # {},
         NEW m \in DOMAIN pending, m # n, pending[m].do = "assignApi", NEW ps
  PROVE  AssignOK(ps, pending[m])
<1>1. AssignOK(disk.policies, pending[n]) /\ AssignOK(disk.policies, pending[m])
  BY DEF QuietInv, ApisOK
<1>2. pending[n].phase = "waiting"
  BY <1>1 DEF AssignOK
<1>3. n \in Holders(pending)
  BY <1>2 DEF Holders, Saving
<1>4. m \notin Holders(pending)
  BY <1>3 DEF BusyInv
<1>5. pending[m].phase = "over"
  BY <1>4 DEF Holders, Saving
<1>6. pending[m].wire = {}
  BY <1>1, <1>5 DEF AssignOK
<1> QED
  BY <1>1, <1>5, <1>6 DEF AssignOK

LEMMA NothingToDo ==
  ASSUME NEW p, NEW do, NEW e, e = <<>>
  PROVE  TodoIsOK(p, do, e) /\ DOMAIN e = {}
<1>1. DOMAIN e = {}
  BY NothingIn, Zenon
<1>2. <<>> \in Seq(Range(<<>>))
  OBVIOUS
<1>3. e \in Seq(Range(e))
  BY <1>2, Zenon
<1> QED
  BY <1>1, <1>3, Zenon DEF TodoIsOK

\* A request has failed: its handler sends nothing more.
LEMMA FailedOn ==
  ASSUME BusyInv, QuietInv, NEW n \in DOMAIN pending, NEW q \in pending[n].wire, NEW ps
  PROVE  Onward(page, ps, pending[n], Failed(pending[n], q))
<1> PICK c : c = pending[n]
  OBVIOUS
<1> DEFINE d == Failed(c, q)
<1>1. HandlerOK(n, c) /\ Shape(page, c)
  BY DEF BusyInv, QuietInv
<1>2. /\ d.do = c.do /\ d.phase = c.phase /\ d.failed = TRUE /\ d.of = c.of
      /\ d.wire = c.wire \ {q} /\ d.todo = <<>>
  BY <1>1 DEF Failed, HandlerOK, CallFields
<1> HIDE DEF d
<1>3. DOMAIN d.todo = {} /\ TodoIsOK(page, d.do, d.todo)
  BY <1>2, NothingToDo
<1>4. Shape(page, d)
  BY <1>1, <1>2, <1>3 DEF Shape
<1>5. ASSUME page = "apis", d.do = "assignApi" PROVE AssignOK(ps, d)
  <2>1. AssignOK(disk.policies, c)
    BY <1>2, <1>5 DEF QuietInv, ApisOK
  <2>2. c.wire = {q} /\ PoliciesOK(c.of)
    BY <2>1 DEF AssignOK
  <2>3. d.wire = {} /\ PoliciesOK(d.of)
    BY <1>2, <2>2
  <2>4. d.todo = <<>> /\ d.failed = TRUE
    BY <1>2
  <2> QED
    BY <1>3, <2>3, <2>4, Zenon DEF AssignOK
<1> QED
  BY <1>2, <1>4, <1>5 DEF Onward, d

\* The files that the server writes on behalf of the page of the APIs.
LEMMA ApiOutcome ==
  ASSUME NEW in, in.op \in {"createApi", "updateApi", "deleteApi"}, NEW rows, IsFiniteSet(rows),
         NEW no, NEW new, NEW file \in LocalSystemAdapter(in, rows, no, new)
  PROVE  IsFiniteSet(file)
<1>1. CASE in.op = "createApi"
  <2> PICK x : x = [id |-> new, key |-> in.key]
    OBVIOUS
  <2>1. file \in CreateSystemApi(rows, in, new)
    BY <1>1 DEF LocalSystemAdapter
  <2>2. file = rows \cup {x}
    BY <2>1 DEF CreateSystemApi, Saved
  <2> QED
    BY <2>2, FS_AddElement
<1>2. CASE in.op = "updateApi"
  <2> DEFINE f == [a \in rows |-> IF a.id = in.id THEN [a EXCEPT !.key = in.key] ELSE a]
  <2>1. file \in UpdateSystemApi(rows, in)
    BY <1>2 DEF LocalSystemAdapter
  <2>2. file = {f[a] : a \in rows} /\ DOMAIN f = rows
    BY <2>1 DEF UpdateSystemApi, Saved, Refused
  <2> HIDE DEF f
  <2> QED
    BY <2>2, Ranged
<1>3. CASE in.op = "deleteApi"
  <2>1. file \in DeleteSystemApi(rows, in)
    BY <1>3 DEF LocalSystemAdapter
  <2>2. file \subseteq rows
    BY <2>1 DEF DeleteSystemApi, Saved, Refused
  <2> QED
    BY <2>2, FS_Subset
<1> QED
  BY <1>1, <1>2, <1>3

LEMMA PolicyOutcome ==
  ASSUME NEW of, PoliciesOK(of), NEW r, NEW in, in = Replacement(of, r), NEW rows, NEW no, NEW new,
         NEW file \in LocalSystemAdapter(in, rows, no, new)
  PROVE  file = {p \in rows : p.role # r} \cup OfRole(of, r)
<1>1. in.op = "replaceCasbin" /\ in.role = r /\ in.routes = RoutesOf(of, r)
  BY DEF Replacement
<1>2. file \in ReplaceCasbinPoliciesForRole(rows, in)
  BY <1>1 DEF LocalSystemAdapter
<1>3. file = {p \in rows : p.role # r} \cup {[role |-> r, route |-> a] : a \in RoutesOf(of, r)}
  BY <1>1, <1>2 DEF ReplaceCasbinPoliciesForRole, Saved
<1>4. {[role |-> r, route |-> a] : a \in RoutesOf(of, r)} = OfRole(of, r)
  BY DEF PoliciesOK, OfRole, RoutesOf
<1> QED
  BY <1>3, <1>4

\* The server reads a file, or answers a question.
LEMMA ReadsOnward ==
  ASSUME BusyInv, QuietInv, NEW n \in DOMAIN pending, NEW q \in pending[n].wire, ServerReads(pending[n], q)
  PROVE  \E d : Put(pending[n], d) /\ Onward(page, disk.policies, pending[n], d)
<1> PICK c : c = pending[n]
  OBVIOUS
<1>1. HandlerOK(n, c) /\ Shape(page, c) /\ QOK(page, c.do, q) /\ ~q.read
  <2>1. Shape(page, c) /\ HandlerOK(n, c)
    BY DEF BusyInv, QuietInv
  <2>2. QOK(page, c.do, q)
    BY <2>1 DEF Shape
  <2> QED
    BY <2>1, <2>2 DEF ServerReads
<1>2. page = "apis" /\ c.do = "assignApi" => AssignOK(disk.policies, c)
  BY DEF QuietInv, ApisOK
<1>3. CASE q.in.op \in Reads
  <2> PICK g : g = IF q.in.op = "listUsers" THEN disk.users ELSE {Preview}
    OBVIOUS
  <2> PICK W : W = c.wire \ {q}
    OBVIOUS
  <2> DEFINE d == [c EXCEPT !.wire = W, !.got = g]
  <2>1. Put(c, d)
    BY <1>3 DEF ServerReads
  <2>2. /\ d.do = c.do /\ d.phase = c.phase /\ d.failed = c.failed /\ d.of = c.of
        /\ d.wire = W /\ d.todo = c.todo /\ d.got = g
    BY <1>1 DEF HandlerOK, CallFields
  <2> HIDE DEF d
  <2>3. ASSUME page = "apis", c.do = "previewSync" PROVE g = {Preview} /\ PlanOK(Preview)
    <3>1. q.in.op \in ApiOps
      BY <1>1, <2>3 DEF QOK, InOK, Strict
    <3>2. q.in.op # "listUsers"
      BY <3>1 DEF ApiOps
    <3>3. IsFiniteSet(disk.apis)
      BY <2>3 DEF QuietInv, ApisOK, RowsOK, Files
    <3> QED
      BY <3>2, <3>3, PreviewFinite
  <2>4. Shape(page, d)
    BY <1>1, <2>2, <2>3 DEF Shape
  <2>5. ~(page = "apis" /\ c.do = "assignApi")
    <3> SUFFICES ASSUME page = "apis", c.do = "assignApi" PROVE FALSE
      OBVIOUS
    <3>1. \E ps, r : q.in = Replacement(ps, r)
      BY <1>1 DEF QOK, InOK, Strict
    <3>2. q.in.op = "replaceCasbin"
      BY <3>1 DEF Replacement
    <3> QED
      BY <1>3, <3>2 DEF Reads
  <2>6. Onward(page, disk.policies, c, d)
    BY <2>2, <2>4, <2>5 DEF Onward
  <2> QED
    BY <2>1, <2>6
<1>4. CASE q.in.op \notin Reads
  <2> PICK rows : rows = disk[FileOf(q.in.op)]
    OBVIOUS
  <2> PICK new : new = <<c.no, Len(c.todo)>>
    OBVIOUS
  <2> PICK in : in = Complete(q.in, rows)
    OBVIOUS
  <2>1. \/ Put(c, Failed(c, q))
        \/ \E file \in LocalSystemAdapter(in, rows, 0, new) :
              Put(c, [c EXCEPT !.wire = (c.wire \ {q}) \cup {[q EXCEPT !.read = TRUE, !.next = file]}])
    BY <1>4 DEF ServerReads
  <2>2. ASSUME NEW file \in LocalSystemAdapter(in, rows, 0, new),
               Put(c, [c EXCEPT !.wire = (c.wire \ {q}) \cup {[q EXCEPT !.read = TRUE, !.next = file]}])
        PROVE  \E d : Put(c, d) /\ Onward(page, disk.policies, c, d)
    <3> PICK x : x = [q EXCEPT !.read = TRUE, !.next = file]
      OBVIOUS
    <3> PICK W : W = (c.wire \ {q}) \cup {x}
      OBVIOUS
    <3> DEFINE d == [c EXCEPT !.wire = W]
    <3>1. Put(c, d)
      BY <2>2
    <3>2. /\ d.do = c.do /\ d.phase = c.phase /\ d.failed = c.failed /\ d.of = c.of
          /\ d.wire = W /\ d.todo = c.todo
      BY <1>1 DEF HandlerOK, CallFields
    <3> HIDE DEF d
    <3>3. DOMAIN x = {"in", "read", "next"} /\ x.in = q.in /\ x.read = TRUE /\ x.next = file
      BY <1>1 DEF QOK
    <3>4. ASSUME page = "apis", FileOf(q.in.op) = "apis" PROVE IsFiniteSet(file)
      <4>1. c.do # "assignApi"
        <5> SUFFICES ASSUME c.do = "assignApi" PROVE FALSE
          OBVIOUS
        <5>1. \E ps, r : q.in = Replacement(ps, r)
          BY <1>1, <3>4 DEF QOK, InOK, Strict
        <5>2. q.in.op = "replaceCasbin"
          BY <5>1 DEF Replacement
        <5> QED
          BY <3>4, <5>2, FilesOf
      <4>2. q.in.op \in ApiOps /\ "keep" \notin DOMAIN q.in
        BY <1>1, <3>4, <4>1 DEF QOK, InOK, Strict
      <4>3. in = q.in
        BY <4>2 DEF Complete
      <4>4. in.op \in {"createApi", "updateApi", "deleteApi"}
        BY <1>4, <3>4, <4>2, <4>3, FilesOf
      <4>5. IsFiniteSet(rows)
        <5>1. rows = disk["apis"] /\ "apis" \in Files
          BY <3>4 DEF Files
        <5> QED
          BY <3>4, <5>1 DEF QuietInv, ApisOK, RowsOK
      <4> QED
        BY <4>4, <4>5, ApiOutcome
    <3>5. QOK(page, c.do, x)
      BY <1>1, <1>4, <3>3, <3>4 DEF QOK
    <3>6. Shape(page, d)
      <4>1. d.wire # {} /\ \A y \in d.wire : y = x \/ y \in c.wire
        BY <3>2
      <4> QED
        BY <1>1, <3>2, <3>5, <4>1 DEF Shape
    <3>7. ASSUME page = "apis", c.do = "assignApi" PROVE AssignOK(disk.policies, d)
      <4>1. /\ PoliciesOK(c.of) /\ c.wire = {q} /\ q.in.role \in Named /\ q.in = Replacement(c.of, q.in.role)
        BY <1>2, <3>7 DEF AssignOK
      <4>2. "keep" \notin DOMAIN q.in /\ q.in.op = "replaceCasbin"
        BY <4>1 DEF Replacement
      <4>3. in = q.in /\ rows = disk.policies
        BY <4>2, FilesOf DEF Complete
      <4>4. file = {p \in disk.policies : p.role # q.in.role} \cup OfRole(c.of, q.in.role)
        BY <4>1, <4>3, PolicyOutcome
      <4>5. W = {x}
        BY <4>1
      <4>6. \A y \in d.wire : /\ d.wire = {y} /\ y.in.role \in Named /\ y.in = Replacement(d.of, y.in.role)
                              /\ y.next = {p \in disk.policies : p.role # y.in.role} \cup OfRole(d.of, y.in.role)
        <5> PICK r : r = q.in.role
          OBVIOUS
        <5>1. x.in.role = r /\ x.in = Replacement(d.of, r) /\ r \in Named
          BY <3>2, <3>3, <4>1
        <5>2. x.next = {p \in disk.policies : p.role # r} \cup OfRole(d.of, r)
          BY <3>2, <3>3, <4>4, Zenon
        <5>3. d.wire = {x}
          BY <3>2, <4>5
        <5> QED
          BY <5>1, <5>2, <5>3, Zenon
      <4>7. d.phase = "waiting" /\ ~d.failed
        BY <1>2, <3>2, <3>7, <4>1 DEF AssignOK
      <4>8. Still(disk.policies, d)
        <5>1. Still(disk.policies, c)
          BY <1>2, <3>2, <3>7, <4>7 DEF AssignOK
        <5>2. ASSUME NEW r \in Named
              PROVE  \/ OfRole(disk.policies, r) = OfRole(d.of, r)
                     \/ \E y \in d.wire : y.in.role = r
                     \/ \E i \in DOMAIN d.todo : d.todo[i].role = r
          <6>1. CASE OfRole(disk.policies, r) = OfRole(c.of, r)
            BY <3>2, <6>1
          <6>2. CASE q.in.role = r
            <7>1. x.in.role = r /\ x \in d.wire
              BY <3>2, <3>3, <4>5, <6>2
            <7> QED
              BY <7>1
          <6>3. CASE \E i \in DOMAIN c.todo : c.todo[i].role = r
            BY <3>2, <6>3
          <6> QED
            BY <4>1, <5>1, <6>1, <6>2, <6>3 DEF Still
        <5> QED
          BY <5>2 DEF Still
      <4>9. \A i \in DOMAIN d.todo : d.todo[i].role \in Named /\ d.todo[i] = Replacement(d.of, d.todo[i].role)
        BY <1>2, <3>2, <3>7 DEF AssignOK
      <4> QED
        BY <3>2, <4>1, <4>6, <4>7, <4>8, <4>9 DEF AssignOK
    <3>8. Onward(page, disk.policies, c, d)
      BY <3>2, <3>6, <3>7 DEF Onward
    <3> QED
      BY <3>1, <3>8
  <2> QED
    BY <2>1, <2>2, FailedOn
<1> QED
  BY <1>3, <1>4

\* The policies of a role have been written: the next role is in turn.
LEMMA AssignGoesOn ==
  ASSUME NEW ps, NEW c, AssignOK(ps, c), TodoIsOK("apis", "assignApi", c.todo), NEW q \in c.wire, q.read,
         NEW d, d.of = c.of, d.phase = c.phase, d.failed = c.failed,
         d.todo = IF c.todo = <<>> THEN c.todo ELSE Tail(c.todo),
         d.wire = (c.wire \ {q}) \cup {Request(c.todo[i]) : i \in DOMAIN c.todo \cap {1}}
  PROVE  AssignOK(q.next, d)
<1> PICK r : r = q.in.role
  OBVIOUS
<1>1. /\ PoliciesOK(c.of) /\ c.wire = {q} /\ r \in Named
      /\ q.next = {p \in ps : p.role # r} \cup OfRole(c.of, r)
      /\ c.phase = "waiting" /\ ~c.failed /\ Still(ps, c)
  BY DEF AssignOK
<1>2. \A in : Request(in).in = in /\ Request(in).read = FALSE
  BY DEF Request
<1>3. \A i \in DOMAIN c.todo : c.todo[i].role \in Named /\ c.todo[i] = Replacement(c.of, c.todo[i].role)
  BY DEF AssignOK
<1>4. OfRole(q.next, r) = OfRole(c.of, r) /\ \A s \in Named : s # r => OfRole(q.next, s) = OfRole(ps, s)
  BY <1>1 DEF OfRole
<1>5. ASSUME NEW s \in Named
      PROVE  \/ OfRole(q.next, s) = OfRole(c.of, s)
             \/ \E i \in DOMAIN c.todo : c.todo[i].role = s
  BY <1>1, <1>4 DEF Still
<1>6. CASE c.todo = <<>>
  <2>1. DOMAIN c.todo = {} /\ d.todo = c.todo
    BY <1>6, NothingIn, Zenon
  <2>2. d.wire = {}
    BY <1>1, <2>1
  <2>3. Still(q.next, d)
    BY <1>5, <2>1 DEF Still
  <2> QED
    BY <1>1, <2>1, <2>2, <2>3 DEF AssignOK
<1>7. CASE c.todo # <<>>
  <2> PICK t : t = Tail(c.todo)
    OBVIOUS
  <2> PICK x : x = Request(c.todo[1])
    OBVIOUS
  <2>1. /\ 1 \in DOMAIN c.todo /\ DOMAIN t = 1..(Len(c.todo) - 1) /\ DOMAIN c.todo = 1..Len(c.todo) /\ Len(c.todo) \in Nat
        /\ \A i \in DOMAIN t : i + 1 \in DOMAIN c.todo /\ t[i] = c.todo[i + 1]
    BY <1>7, TailOK
  <2>2. d.wire = {x} /\ d.todo = t /\ x.in = c.todo[1] /\ x.read = FALSE
    BY <1>1, <1>2, <1>7, <2>1
  <2>3. ASSUME NEW s \in Named
        PROVE  \/ OfRole(q.next, s) = OfRole(d.of, s)
               \/ \E y \in d.wire : y.in.role = s
               \/ \E i \in DOMAIN d.todo : d.todo[i].role = s
    <3>1. CASE OfRole(q.next, s) = OfRole(c.of, s)
      BY <3>1
    <3>2. CASE \E i \in DOMAIN c.todo : c.todo[i].role = s
      <4> PICK i \in DOMAIN c.todo : c.todo[i].role = s
        BY <3>2
      <4>1. CASE i = 1
        BY <2>2, <4>1
      <4>2. CASE i # 1
        <5>1. i - 1 \in DOMAIN t /\ (i - 1) + 1 = i
          BY <2>1, <4>2
        <5>2. t[i - 1] = c.todo[i]
          BY <2>1, <5>1
        <5> QED
          BY <2>2, <5>1, <5>2
      <4> QED
        BY <4>1, <4>2
    <3> QED
      BY <1>5, <3>1, <3>2
  <2>4. Still(q.next, d)
    BY <2>3 DEF Still
  <2>5. \A y \in d.wire : /\ d.wire = {y} /\ ~y.read
                          /\ y.in.role \in Named /\ y.in = Replacement(d.of, y.in.role)
    BY <1>3, <2>1, <2>2
  <2>6. \A i \in DOMAIN d.todo : d.todo[i].role \in Named /\ d.todo[i] = Replacement(d.of, d.todo[i].role)
    BY <1>3, <2>1, <2>2
  <2> QED
    BY <1>1, <2>4, <2>5, <2>6 DEF AssignOK
<1> QED
  BY <1>6, <1>7

\* What a page asks the server to save.
LEMMA WhatIsSaved ==
  ASSUME QuietInv, NEW n \in DOMAIN pending, NEW q \in pending[n].wire, q.read
  PROVE  /\ Shape(page, pending[n]) /\ QOK(page, pending[n].do, q) /\ q.in.op \notin Reads
         /\ page = "apis" /\ pending[n].do = "assignApi" =>
               AssignOK(disk.policies, pending[n]) /\ FileOf(q.in.op) = "policies"
         /\ page = "apis" /\ pending[n].do # "assignApi" => FileOf(q.in.op) \in {"apis", "ignores"}
<1>1. Shape(page, pending[n]) /\ QOK(page, pending[n].do, q) /\ q.in.op \notin Reads
  BY DEF QuietInv, Shape, QOK
<1>2. ASSUME page = "apis", pending[n].do = "assignApi" PROVE FileOf(q.in.op) = "policies"
  <2>1. \E ps, r : q.in = Replacement(ps, r)
    BY <1>1, <1>2 DEF QOK, InOK, Strict
  <2>2. q.in.op = "replaceCasbin"
    BY <2>1 DEF Replacement
  <2> QED
    BY <2>2, FilesOf
<1>3. ASSUME page = "apis", pending[n].do # "assignApi" PROVE FileOf(q.in.op) \in {"apis", "ignores"}
  <2>1. q.in.op \in ApiOps
    BY <1>1, <1>3 DEF QOK, InOK, Strict
  <2> QED
    BY <1>1, <2>1, FilesOf
<1> QED
  BY <1>1, <1>2, <1>3 DEF QuietInv, ApisOK

LEMMA SavesOnward ==
  ASSUME BusyInv, QuietInv, NEW n \in DOMAIN pending, NEW q \in pending[n].wire, ServerSaves(pending[n], q)
  PROVE  \E d : Put(pending[n], d) /\ Onward(page, disk'.policies, pending[n], d)
<1> PICK c : c = pending[n]
  OBVIOUS
<1> PICK W : W = (c.wire \ {q}) \cup {Request(c.todo[i]) : i \in DOMAIN c.todo \cap {1}}
  OBVIOUS
<1> PICK t : t = IF c.todo = <<>> THEN c.todo ELSE Tail(c.todo)
  OBVIOUS
<1> DEFINE d == [c EXCEPT !.wire = W, !.todo = t, !.got = q.next]
<1>1. Put(c, d) /\ q.read
  BY DEF ServerSaves
<1>2. /\ HandlerOK(n, c) /\ Shape(page, c) /\ QOK(page, c.do, q) /\ q.in.op \notin Reads
      /\ page = "apis" /\ c.do = "assignApi" => AssignOK(disk.policies, c) /\ FileOf(q.in.op) = "policies"
  BY <1>1, WhatIsSaved DEF BusyInv
<1>3. /\ d.do = c.do /\ d.phase = c.phase /\ d.failed = c.failed /\ d.of = c.of
      /\ d.wire = W /\ d.todo = t
  BY <1>2 DEF HandlerOK, CallFields
<1> HIDE DEF d
<1>4. \A in : DOMAIN Request(in) = {"in", "read", "next"} /\ Request(in).in = in /\ Request(in).read = FALSE
  BY DEF Request
<1>5. ASSUME NEW y \in W PROVE QOK(page, c.do, y)
  <2>1. CASE y \in c.wire
    BY <1>2, <2>1 DEF Shape
  <2>2. CASE y \notin c.wire
    <3> PICK i \in DOMAIN c.todo : y = Request(c.todo[i])
      BY <2>2
    <3>1. DOMAIN y = {"in", "read", "next"} /\ y.in = c.todo[i] /\ y.read = FALSE
      BY <1>4
    <3>2. Strict(page, c.do) => InOK(page, c.do, y.in)
      BY <1>2, <3>1 DEF Shape, TodoIsOK
    <3> QED
      BY <3>1, <3>2 DEF QOK
  <2> QED
    BY <2>1, <2>2
<1>6. ASSUME Strict(page, c.do) PROVE TodoIsOK(page, c.do, t)
  <2>1. TodoIsOK(page, c.do, c.todo)
    BY <1>2, <1>6 DEF Shape
  <2>2. CASE c.todo = <<>>
    BY <2>1, <2>2
  <2>3. CASE c.todo # <<>>
    BY <2>1, <2>3, TailOK
  <2> QED
    BY <2>2, <2>3
<1>7. ~(page = "apis" /\ c.do = "previewSync")
  BY <1>2 DEF QOK, InOK, Strict
<1>8. Shape(page, d)
  BY <1>2, <1>3, <1>5, <1>6, <1>7 DEF Shape
<1>9. ASSUME page = "apis", c.do = "assignApi" PROVE AssignOK(disk'.policies, d)
  <2>1. disk'.policies = q.next
    <3>1. disk' = [disk EXCEPT !["policies"] = q.next]
      BY <1>2, <1>9 DEF ServerSaves
    <3>2. "policies" \in DOMAIN disk
      BY DEF QuietInv, Files
    <3> QED
      BY <3>1, <3>2
  <2>2. TodoIsOK("apis", "assignApi", c.todo) /\ AssignOK(disk.policies, c)
    BY <1>2, <1>9 DEF Shape, Strict
  <2> QED
    BY <1>1, <1>3, <2>1, <2>2, AssignGoesOn
<1> QED
  BY <1>1, <1>3, <1>8, <1>9 DEF Onward

\* The files on the server and the handlers, after one of them went on.
LEMMA OnwardQuiet ==
  ASSUME BusyInv, QuietInv, NEW n \in DOMAIN pending, NEW q \in pending[n].wire, NEW d, Put(pending[n], d),
         Onward(page, disk'.policies, pending[n], d), UNCHANGED <<page, view>>,
         disk' = disk \/ (q.read /\ disk' = [disk EXCEPT ![FileOf(q.in.op)] = q.next]),
         ListOK', Truth', ShownOK => ShownOK', list'.from = list.from
  PROVE  QuietInv'
<1> PICK c : c = pending[n]
  OBVIOUS
<1>1. /\ DOMAIN pending' = DOMAIN pending /\ pending'[n] = d
      /\ \A m \in DOMAIN pending : m # n => pending'[m] = pending[m]
      /\ \A m \in DOMAIN pending' : Shape(page, pending'[m])
  BY OthersStay
<1>2. DOMAIN disk' = Files
  BY DEF QuietInv
<1>3. ASSUME page = "apis" PROVE ApisOK'
  <2>1. /\ \A f \in Files : RowsOK(f, disk[f])
        /\ ShownOK /\ ViewOK(view, list.from)
        /\ \A m \in DOMAIN pending : pending[m].do = "assignApi" => AssignOK(disk.policies, pending[m])
    BY <1>3 DEF QuietInv, ApisOK
  <2>2. CASE disk' = disk
    <3>1. \A m \in DOMAIN pending' : pending'[m].do = "assignApi" => AssignOK(disk'.policies, pending'[m])
      BY <1>1, <1>3, <2>1, <2>2 DEF Onward
    <3> QED
      BY <2>1, <2>2, <3>1 DEF ApisOK
  <2>3. CASE q.read /\ disk' = [disk EXCEPT ![FileOf(q.in.op)] = q.next]
    <3> PICK F : F = FileOf(q.in.op)
      OBVIOUS
    <3>1. /\ QOK(page, c.do, q)
          /\ c.do = "assignApi" => AssignOK(disk.policies, c) /\ F = "policies"
          /\ c.do # "assignApi" => F \in {"apis", "ignores"}
      BY <1>3, <2>3, WhatIsSaved
    <3>2. F \in Files /\ disk'[F] = q.next /\ \A f \in Files \ {F} : disk'[f] = disk[f]
      BY <2>3, <3>1 DEF QuietInv, Files
    <3>3. ASSUME c.do = "assignApi" PROVE PoliciesOK(q.next)
      <4>1. PoliciesOK(disk.policies)
        BY <2>1 DEF RowsOK, Files
      <4>2. PoliciesOK(c.of) /\ q.next = {p \in disk.policies : p.role # q.in.role} \cup OfRole(c.of, q.in.role)
        BY <2>3, <3>1, <3>3 DEF AssignOK
      <4> QED
        BY <4>1, <4>2 DEF PoliciesOK, OfRole
    <3>4. RowsOK(F, q.next)
      <4>1. CASE c.do = "assignApi"
        BY <3>1, <3>3, <4>1 DEF RowsOK
      <4>2. CASE c.do # "assignApi"
        BY <1>3, <2>3, <3>1, <4>2 DEF RowsOK, QOK
      <4> QED
        BY <4>1, <4>2
    <3>5. \A f \in Files : RowsOK(f, disk'[f])
      BY <2>1, <3>2, <3>4
    <3>6. ASSUME NEW m \in DOMAIN pending', pending'[m].do = "assignApi" PROVE AssignOK(disk'.policies, pending'[m])
      <4>1. CASE m = n
        BY <1>1, <1>3, <3>6, <4>1 DEF Onward
      <4>2. CASE m # n /\ c.do = "assignApi"
        BY <1>1, <1>3, <3>6, <4>2, OneAssigns
      <4>3. CASE m # n /\ c.do # "assignApi"
        <5>1. "policies" \in Files \ {F}
          BY <3>1, <4>3 DEF Files
        <5>2. disk'.policies = disk.policies
          BY <3>2, <5>1
        <5> QED
          BY <1>1, <2>1, <3>6, <4>3, <5>2
      <4> QED
        BY <4>1, <4>2, <4>3
    <3> QED
      BY <2>1, <3>5, <3>6 DEF ApisOK
  <2> QED
    BY <2>2, <2>3
<1> QED
  BY <1>1, <1>2, <1>3 DEF QuietInv

LEMMA ServerReadsQuiet ==
  ASSUME BusyInv, QuietInv, NEW n \in DOMAIN pending, NEW q \in pending[n].wire, ServerReads(pending[n], q)
  PROVE  QuietInv'
<1>1. UNCHANGED <<page, view, list, disk>>
  BY DEF ServerReads, vars
<1> PICK d : Put(pending[n], d) /\ Onward(page, disk.policies, pending[n], d)
  BY ReadsOnward
<1>2. \A f : Excused(pending, f) => Excused(pending', f)
  BY <1>1, OthersStay
<1>3. ListOK' /\ Truth' /\ (ShownOK => ShownOK')
  BY <1>1, <1>2, TruthKeeps
<1>4. Onward(page, disk'.policies, pending[n], d)
  BY <1>1
<1> QED
  BY <1>1, <1>3, <1>4, OnwardQuiet

\* A handler that loads no list again, and nobody waits for, changes none.
LEMMA SavedUnseen ==
  ASSUME QuietInv, NEW n \in DOMAIN pending, NEW q \in pending[n].wire, q.read, ~Overwrites(pending[n], q),
         pending[n].phase = "waiting", disk' = [disk EXCEPT ![FileOf(q.in.op)] = q.next],
         NEW f \in Fetched, ~Excuses(pending[n], f), NEW s
  PROVE  Reply(disk', f, s) = Reply(disk, f, s)
<1> PICK c : c = pending[n]
  OBVIOUS
<1> PICK F : F = FileOf(q.in.op)
  OBVIOUS
<1>1. /\ Shape(page, c) /\ QOK(page, c.do, q) /\ q.in.op \notin Reads
      /\ c.do \notin Reloading /\ ~(c.do = "assignApi" /\ f = "policies")
      /\ page \in Pages /\ DOMAIN disk = Files
  BY WhatIsSaved DEF Excuses, QuietInv
<1>2. f \in Files /\ f \in DOMAIN NoRows /\ (f = "users" => page = "users")
  BY <1>1, FetchedFiles
<1>3. InOK(page, c.do, q.in) /\ DoOK(page, c.do)
  BY <1>1 DEF QOK, Strict, Shape
<1>4. CASE F # f
  BY <1>1, <1>2, <1>4 DEF Reply
<1>5. CASE F = f /\ c.do = "resetPassword"
  <2>1. f = "users"
    <3>1. q.in.op = "updateUser"
      BY <1>3, <1>5 DEF InOK
    <3> QED
      BY <1>5, <3>1, FilesOf
  <2>2. Found(q.next, "") = Found(disk.users, "")
    BY <1>5 DEF Overwrites
  <2>3. \A rows : \A row : row \in Found(rows, s) <=> row \in Found(rows, "") /\ s \in {"", row.name}
    BY DEF Found
  <2>4. Found(q.next, s) = Found(disk.users, s)
    <3>1. \A row : row \in Found(q.next, s) <=> row \in Found(disk.users, s)
      BY <2>2, <2>3
    <3> QED
      BY <3>1
  <2>5. disk'.users = q.next
    BY <1>1, <1>2, <1>5, <2>1
  <2> QED
    BY <2>1, <2>4, <2>5 DEF Reply
<1>6. CASE F = f /\ c.do # "resetPassword"
  <2>1. c.do \in {"openAssign", "previewSync", "assignUsers", "ignoreSync", "assignApi"}
    BY <1>1, <1>3, <1>6 DEF DoOK
  <2>2. c.do \notin {"openAssign", "previewSync"}
    BY <1>1, <1>3 DEF InOK
  <2>3. c.do # "assignUsers"
    <3> SUFFICES ASSUME c.do = "assignUsers" PROVE FALSE
      OBVIOUS
    <3>1. page = "roles" /\ F = "users"
      BY <1>3, FilesOf DEF InOK, DoOK
    <3> QED
      BY <1>2, <1>6, <3>1
  <2>4. c.do # "ignoreSync"
    <3> SUFFICES ASSUME c.do = "ignoreSync" PROVE FALSE
      OBVIOUS
    <3>1. F = "ignores"
      BY <1>3, FilesOf DEF InOK
    <3> QED
      BY <1>2, <1>6, <3>1 DEF NoRows
  <2>5. c.do # "assignApi"
    <3> SUFFICES ASSUME c.do = "assignApi" PROVE FALSE
      OBVIOUS
    <3>1. page = "apis"
      BY <1>3 DEF DoOK
    <3>2. F = "policies"
      BY <3>1, WhatIsSaved
    <3> QED
      BY <1>1, <1>6, <3>2
  <2> QED
    BY <2>1, <2>2, <2>3, <2>4, <2>5
<1> QED
  BY <1>4, <1>5, <1>6

LEMMA ServerSavesQuiet ==
  ASSUME BusyInv, QuietInv, NEW n \in DOMAIN pending, NEW q \in pending[n].wire, ServerSaves(pending[n], q)
  PROVE  QuietInv'
<1> PICK c : c = pending[n]
  OBVIOUS
<1>1. /\ UNCHANGED <<page, view>> /\ q.read /\ disk' = [disk EXCEPT ![FileOf(q.in.op)] = q.next]
      /\ list' = [list EXCEPT !.trouble = IF c.phase = "waiting" /\ ~Overwrites(c, q) THEN list.trouble ELSE list.latest]
  BY DEF ServerSaves
<1> PICK d : Put(c, d) /\ Onward(page, disk'.policies, c, d)
  BY SavesOnward
<1>2. /\ \A f : Excused(pending, f) => Excused(pending', f)
      /\ \A f : Excuses(c, f) => Excused(pending', f)
  BY <1>1, OthersStay
<1>3. ListOK' /\ Truth' /\ (ShownOK => ShownOK') /\ list'.from = list.from
  <2>1. CASE ~(c.phase = "waiting" /\ ~Overwrites(c, q))
    <3>1. list' = [list EXCEPT !.trouble = list.latest]
      BY <1>1, <2>1
    <3> QED
      BY <1>1, <3>1, LatestTrouble
  <2>2. CASE c.phase = "waiting" /\ ~Overwrites(c, q)
    <3>1. list' = [list EXCEPT !.trouble = list.trouble]
      BY <1>1, <2>2
    <3>2. list'.from = list.from
      BY <3>1 DEF QuietInv, ListOK, ListFields
    <3>3. \A f \in Fetched : Excused(pending', f) \/ \A s : Reply(disk', f, s) = Reply(disk, f, s)
      BY <1>1, <1>2, <2>2, SavedUnseen
    <3> QED
      BY <1>1, <1>2, <3>1, <3>2, <3>3, TruthKeeps
  <2> QED
    BY <2>1, <2>2
<1> QED
  BY <1>1, <1>3, OnwardQuiet

LEMMA RequestFailsQuiet ==
  ASSUME BusyInv, QuietInv, NEW n \in DOMAIN pending, NEW q \in pending[n].wire, RequestFails(pending[n], q)
  PROVE  QuietInv'
<1> PICK c : c = pending[n]
  OBVIOUS
<1> PICK d : d = Failed(c, q)
  OBVIOUS
<1>1. /\ UNCHANGED <<page, view>> /\ Put(c, d)
      /\ disk' = IF q.read THEN [disk EXCEPT ![FileOf(q.in.op)] = q.next] ELSE disk
      /\ list' = [list EXCEPT !.trouble = IF q.read /\ c.phase # "waiting" THEN list.latest ELSE list.trouble]
  BY DEF RequestFails
<1>2. Onward(page, disk'.policies, c, d)
  BY FailedOn
<1>3. /\ \A f : Excused(pending, f) => Excused(pending', f)
      /\ DOMAIN pending' = DOMAIN pending /\ pending'[n] = d
  BY <1>1, <1>2, OthersStay
<1>4. d.phase = c.phase /\ d.failed = TRUE
  BY DEF Failed, BusyInv, HandlerOK, CallFields
<1>5. ListOK' /\ Truth' /\ (ShownOK => ShownOK') /\ list'.from = list.from
  <2>1. CASE q.read /\ c.phase # "waiting"
    <3>1. list' = [list EXCEPT !.trouble = list.latest]
      BY <1>1, <2>1
    <3> QED
      BY <1>1, <3>1, LatestTrouble
  <2>2. CASE ~(q.read /\ c.phase # "waiting")
    <3>1. list' = [list EXCEPT !.trouble = list.trouble]
      BY <1>1, <2>2
    <3>2. list'.from = list.from
      BY <3>1 DEF QuietInv, ListOK, ListFields
    <3>3. q.read => \A f : Excused(pending', f)
      BY <1>3, <1>4, <2>2 DEF Excused, Excuses
    <3>4. \A f \in Fetched : Excused(pending', f) \/ \A s : Reply(disk', f, s) = Reply(disk, f, s)
      BY <1>1, <3>3
    <3> QED
      BY <1>1, <1>3, <3>1, <3>2, <3>4, TruthKeeps
  <2> QED
    BY <2>1, <2>2
<1> QED
  BY <1>1, <1>2, <1>5, OnwardQuiet

LEMMA QuietKept == BusyInv /\ QuietInv /\ [PagesNext]_<<vars, pageVars>> => QuietInv'
<1> SUFFICES ASSUME BusyInv, QuietInv, [PagesNext]_<<vars, pageVars>> PROVE QuietInv'
  OBVIOUS
<1>1. CASE UserActs
  BY <1>1, ActsQuiet
<1>2. CASE \E l \in list.loads : LoadInstalls(l) \/ LoadFails(l) \/ \E f \in Fetched : LoadReads(l, f)
  BY <1>2, ReadsQuiet, InstallsQuiet, FailsQuiet
<1>3. CASE \E n \in DOMAIN pending : Settle(pending[n]) \/ SessionRefreshed(pending[n])
  BY <1>3, SettleQuiet, RefreshedQuiet
<1>4. CASE \E n \in DOMAIN pending : \E q \in pending[n].wire :
             ServerReads(pending[n], q) \/ ServerSaves(pending[n], q) \/ RequestFails(pending[n], q)
  BY <1>4, ServerReadsQuiet, ServerSavesQuiet, RequestFailsQuiet
<1>5. CASE UNCHANGED <<vars, pageVars>>
  <2>1. UNCHANGED <<page, view, list, pending, disk>>
    BY <1>5 DEF vars, pageVars
  <2>2. ListOK' /\ Truth' /\ (ShownOK => ShownOK')
    BY <2>1, TruthKeeps
  <2>3. page = "apis" => ApisOK'
    BY <2>1, <2>2 DEF QuietInv, ApisOK
  <2> QED
    BY <2>1, <2>2, <2>3 DEF QuietInv
<1> QED
  BY <1>1, <1>2, <1>3, <1>4, <1>5 DEF PagesNext

\* The administration pages: a page with nothing under way shows what the
\* server holds, on every page, for any number of handlers and faults, in
\* whatever order loads and changes were answered (the effects of the five
\* pages, and confirmAssignRole).
THEOREM QuietPageTheorem == PagesSpec => []QuietPageIsTrue
<1>1. Init /\ PagesInit => BusyInv /\ QuietInv
  BY BusyBegins, QuietBegins
<1>2. BusyInv /\ QuietInv /\ [PagesNext]_<<vars, pageVars>> => (BusyInv /\ QuietInv)'
  BY BusyKept, QuietKept
<1> QED
  BY <1>1, <1>2, QuietHolds, PTL DEF PagesSpec

=============================================================================
