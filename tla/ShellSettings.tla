---------------------------- MODULE ShellSettings ----------------------------
(***************************************************************************)
(* The appearance of the console: settings that all windows of a browser   *)
(* share through localStorage, the drawer that edits them, and the theme,  *)
(* which is kept apart from them.  A settings value is a function from the *)
(* fields that influence one another; "plain" stands for the many that     *)
(* nothing else depends on.  A click runs its handler, the render and the  *)
(* effects in one task; storage events and a file being read come later.   *)
(***************************************************************************)
EXTENDS Integers, TLC

CONSTANTS Windows, Colors, MaxTouches

VARIABLES storedSettings, \* localStorage: the settings, as they were written
          legacy,       \* localStorage: settings under a key of an older version
          storedTheme,  \* localStorage: the theme
          presets,      \* localStorage: the user's preset, under one name
          sysDark,      \* what the operating system prefers
          win,          \* the windows
          spoilt,       \* history: settings that no shell can show have been stored
          touches

settingsVars == <<storedSettings, legacy, storedTheme, presets, sysDark, win, spoilt, touches>>

\* No value of the kind: a record that has none of the fields of settings.
\* Unreadable text does not parse.
Absent == [absent |-> "null"]
Undefined == [absent |-> "undefined"]
Unreadable == [absent |-> "unreadable"]

\* A part of the settings that should be a record: it is one, or null.
Filled == "whole"
Null == "null"

(***************************************************************************)
(* Settings.                                                               *)
(***************************************************************************)
DefaultFnaShellSettings ==
    [scheme |-> "auto", color |-> "blue", info |-> "grey", follow |-> FALSE, mode |-> "normal",
     width |-> 256, menu |-> "light", sider |-> FALSE, plain |-> TRUE, header |-> Filled]

\* A patch replaces the fields it has; fields that are unknown are dropped.
MergeDeep(base, patch) == [f \in DOMAIN base |-> IF f \in DOMAIN patch THEN patch[f] ELSE base[f]]

SideWidth(w) == IF w < 160 THEN 256 ELSE IF w > 480 THEN 480 ELSE w

\* Older versions kept darkSider beside the menu, and had a dark menu.
NormalizeFnaShellSettings(raw) ==
    IF raw = Absent THEN DefaultFnaShellSettings
    ELSE LET old == IF "darkSider" \in DOMAIN raw /\ "menu" \notin DOMAIN raw
                    THEN [DefaultFnaShellSettings EXCEPT !.sider = raw.darkSider]
                    ELSE DefaultFnaShellSettings
             new == MergeDeep(old, raw)
         IN  [new EXCEPT !.menu = IF @ = "dark" THEN "light" ELSE @,
                         !.sider = @ \/ new.menu = "dark",
                         !.info = IF new.follow THEN new.color ELSE @,
                         !.width = SideWidth(@)]

\* A menu that is null has no theme to look at: the normalization throws.
Normalizes(raw) == raw # Unreadable /\ ("menu" \in DOMAIN raw => raw.menu # Null)

\* A header that is null is kept, and painting it throws.
CanShow(raw) == raw # Unreadable /\ NormalizeFnaShellSettings(raw).header # Null

ApplyPresetToSettings(theme, s) == NormalizeFnaShellSettings(MergeDeep(s, theme))

BuiltinPresets ==
    {[scheme |-> "auto", color |-> "blue", mode |-> "normal", width |-> 256, menu |-> "light", sider |-> FALSE],
     [scheme |-> "dark", color |-> "blue", menu |-> "light", sider |-> TRUE]}

(***************************************************************************)
(* The theme and what the page is painted with.                            *)
(***************************************************************************)
NormalizeStoredThemeMode(t) == CASE t = "gva" -> "fna" [] t = "" -> "fna" [] OTHER -> t
ClassIsDark(theme) == IF theme = "system" THEN sysDark ELSE theme = "graphite"

ResolveShellIsDark(s, dark) == IF s.scheme = "auto" THEN dark ELSE s.scheme = "dark"
ApplyFnaShellCss(v, s) == [v EXCEPT !.applied = [settings |-> s, dark |-> ResolveShellIsDark(s, v.dark)]]

(***************************************************************************)
(* The module's cache in a window, and the two stores behind it.  A step   *)
(* is a function on [v |-> a window, here |-> the stored settings].        *)
(***************************************************************************)
MigrateLegacyLocalStorageValue == IF storedSettings = Absent THEN legacy ELSE storedSettings

\* What cannot be read counts as nothing stored, and is read again every time.
ReadFnaShellSettings(v, here) ==
    IF here = v.raw THEN v
    ELSE [v EXCEPT !.raw = IF here = Unreadable THEN Absent ELSE here,
                   !.cached = NormalizeFnaShellSettings(here)]

WriteFnaShellSettings(p, s) ==
    LET n == NormalizeFnaShellSettings(s)
    IN  [v |-> [p.v EXCEPT !.raw = n, !.cached = n], here |-> n]

\* The shell renders with the current snapshot, paints it, and leaves the
\* layout without a sidebar for the ordinary one at once.  A snapshot that is
\* another object at every look makes it render until React gives up; that, and
\* settings that throw, put the page's error in its place.
RenderShell(p) ==
    LET v == ReadFnaShellSettings(p.v, p.here)
        shown == ApplyFnaShellCss([v EXCEPT !.settings = v.cached], v.cached)
        q == WriteFnaShellSettings([v |-> shown, here |-> p.here], [v.cached EXCEPT !.mode = "normal"])
    IN  IF v.at # "dashboard" THEN [v |-> v, here |-> p.here]
        ELSE IF ~CanShow(p.here) THEN [v |-> [v EXCEPT !.at = "failed", !.pane = "none"], here |-> p.here]
        ELSE IF v.cached.mode # "head" THEN [v |-> shown, here |-> p.here]
        ELSE [v |-> ApplyFnaShellCss([q.v EXCEPT !.settings = q.v.cached], q.v.cached), here |-> q.here]

\* The provider's effects of its first or a new theme: the class of the page,
\* then the paint.  No page is left of a provider whose effect throws.
ApplyTheme(v, theme) == [v EXCEPT !.dark = ClassIsDark(theme)]
DiesPainting(v) == [v EXCEPT !.at = "dead", !.pane = "none"]
RenderTheme(p, theme) ==
    LET v == ReadFnaShellSettings(ApplyTheme(p.v, theme), p.here)
        t == [v EXCEPT !.theme = theme, !.later = ""]
    IN  IF v.cached.header # Null
        THEN RenderShell([v |-> ApplyFnaShellCss(t, v.cached), here |-> p.here])
        ELSE IF p.v.theme = theme /\ p.v.applied # Absent
        THEN RenderShell([v |-> t, here |-> p.here])
        ELSE [v |-> DiesPainting(t), here |-> p.here]

\* The others hear of settings and presets that changed.
Hears(x) == IF win[x].at = "closed" THEN win[x] ELSE [win[x] EXCEPT !.event = TRUE]

Stores(w, p) ==
    /\ storedSettings' = p.here
    /\ spoilt' = (spoilt \/ ~CanShow(p.here))
    /\ legacy' = IF storedSettings = Absent THEN Absent ELSE legacy
    /\ win' = [x \in Windows |-> IF x = w THEN p.v ELSE IF p.here # storedSettings THEN Hears(x) ELSE win[x]]

Here(v) == [v |-> v, here |-> MigrateLegacyLocalStorageValue]

Touch == touches < MaxTouches /\ touches' = touches + 1

(***************************************************************************)
(* Windows.                                                                *)
(***************************************************************************)
ClosedWindow ==
    [at |-> "closed", raw |-> Absent, cached |-> DefaultFnaShellSettings, settings |-> DefaultFnaShellSettings,
     theme |-> "fna", dark |-> FALSE, applied |-> Absent, pane |-> "none",
     list |-> Absent, importing |-> Absent, later |-> "", event |-> FALSE, chosen |-> ""]

\* The boot script, the provider's first effects, hydration and the first paint.
OpenWindow(w) == \E at \in {"login", "dashboard"} :
    LET theme == NormalizeStoredThemeMode(storedTheme)
        v == [ClosedWindow EXCEPT !.at = at, !.theme = theme]
    IN  /\ win[w].at = "closed"
        /\ storedTheme' = IF storedTheme = "gva" THEN "fna" ELSE storedTheme
        /\ Stores(w, RenderTheme(Here(v), theme))
        /\ UNCHANGED <<presets, sysDark, touches>>

\* Reloading is closing and opening again.
CloseWindow(w) ==
    /\ win[w].at # "closed"
    /\ Touch
    /\ win' = [win EXCEPT ![w] = ClosedWindow]
    /\ UNCHANGED <<storedSettings, spoilt, legacy, storedTheme, presets, sysDark>>

\* The login page gives way to the shell, or the button of the error page tries
\* the shell again; the shell, or its error, gives way to the login page.
EnterShell(w) ==
    /\ win[w].at \in {"login", "failed"}
    /\ Stores(w, RenderShell(Here([win[w] EXCEPT !.at = "dashboard"])))
    /\ UNCHANGED <<storedTheme, presets, sysDark, touches>>
LeaveShell(w) ==
    /\ win[w].at \in {"dashboard", "failed"}
    /\ Touch
    /\ win' = [win EXCEPT ![w].at = "login", ![w].pane = "none"]
    /\ UNCHANGED <<storedSettings, spoilt, legacy, storedTheme, presets, sysDark>>

\* Fault: only a change of the presets makes a window look again.
StorageEventIgnored(w) ==
    /\ win[w].event
    /\ win' = [win EXCEPT ![w].event = FALSE]
    /\ UNCHANGED <<storedSettings, spoilt, legacy, storedTheme, presets, sysDark, touches>>

\* A storage event: nobody listens on the login page, the shell forgets what it
\* has read and renders.
StorageEvent(w) ==
    LET p == RenderShell(Here([win[w] EXCEPT !.event = FALSE, !.raw = Undefined]))
    IN  /\ win[w].event
        /\ IF win[w].at = "dashboard"
           THEN Stores(w, p)
           ELSE win' = [win EXCEPT ![w].event = FALSE] /\ UNCHANGED <<storedSettings, spoilt, legacy>>
        /\ UNCHANGED <<storedTheme, presets, sysDark, touches>>

\* The shell renders for another reason, such as a navigation.
RendersAgain(w) ==
    LET p == RenderShell(Here(win[w]))
    IN  /\ win[w].at = "dashboard" /\ win[w].event
        /\ Stores(w, p)
        /\ UNCHANGED <<storedTheme, presets, sysDark, touches>>

\* The operating system changes its mind; windows that follow it repaint.
SystemThemeChanges ==
    /\ Touch
    /\ sysDark' = ~sysDark
    /\ win' = [w \in Windows |->
          IF win[w].at \in {"closed", "dead"} \/ win[w].theme # "system" THEN win[w]
          ELSE LET v == ReadFnaShellSettings([win[w] EXCEPT !.dark = sysDark'], MigrateLegacyLocalStorageValue)
               IN  IF v.cached.header = Null THEN DiesPainting(v) ELSE ApplyFnaShellCss(v, v.cached)]
    /\ UNCHANGED <<storedSettings, spoilt, legacy, storedTheme, presets>>

(***************************************************************************)
(* Choosing a theme.                                                       *)
(***************************************************************************)
ThemeOf(scheme) == CASE scheme = "dark" -> "graphite" [] scheme = "light" -> "fna" [] OTHER -> "system"

\* The sun and the moon in the top bar and on the login page.
ToggleTheme(w) ==
    LET theme == IF win[w].theme = "graphite" THEN "fna" ELSE "graphite"
        base == IF win[w].at = "login" THEN ReadFnaShellSettings(win[w], Here(win[w]).here).cached
                ELSE win[w].settings
        next == [base EXCEPT !.scheme = IF theme = "graphite" THEN "dark" ELSE "light"]
    IN  /\ win[w].at \in {"login", "dashboard"}
        /\ Touch
        /\ storedTheme' = theme
        /\ Stores(w, RenderTheme(WriteFnaShellSettings(Here([ApplyTheme(win[w], theme) EXCEPT !.chosen = next.scheme]), next), theme))
        /\ UNCHANGED <<presets, sysDark>>

\* The command palette and the settings page set the theme alone.
SetTheme(w) == \E theme \in {"fna", "graphite", "system"} :
    /\ win[w].at = "dashboard"
    /\ Touch
    /\ storedTheme' = theme
    /\ Stores(w, RenderTheme(Here([win[w] EXCEPT !.chosen = ""]), theme))
    /\ UNCHANGED <<presets, sysDark>>

(***************************************************************************)
(* The drawer.                                                             *)
(***************************************************************************)
\* A change is written and its scheme becomes the theme.
Patch(w, v, next) ==
    LET theme == ThemeOf(next.scheme)
    IN  /\ storedTheme' = theme
        /\ Stores(w, RenderTheme(WriteFnaShellSettings(Here([v EXCEPT !.chosen = next.scheme]), next), theme))

\* The controls: the settings that each of them can ask for.
ThemeModeSelector(s) == {[s EXCEPT !.scheme = x] : x \in {"light", "dark", "auto"}}
ThemeColorPicker(s) == {[s EXCEPT !.color = c, !.info = IF s.follow THEN c ELSE @] : c \in Colors}
ColorSwatch(s) == {[s EXCEPT !.info = c] : c \in IF s.follow THEN {} ELSE Colors}
FollowSwitch(s) == {[s EXCEPT !.follow = ~@, !.info = IF s.follow THEN @ ELSE s.color]}
DarkSiderSwitch(s) == IF s.scheme # "dark" /\ s.mode # "head" THEN {[s EXCEPT !.sider = ~@]} ELSE {}
PlainSelectors(s) == {[s EXCEPT !.plain = ~@]}
LayoutModeCard(s) == {[s EXCEPT !.mode = x] : x \in {"normal", "head"}}
NumberField(s) == {[s EXCEPT !.width = x] : x \in {0, 200, 500}}   \* whatever is typed

AppearancePane(s) ==
    ThemeModeSelector(s) \cup ThemeColorPicker(s) \cup ColorSwatch(s) \cup FollowSwitch(s)
        \cup DarkSiderSwitch(s) \cup PlainSelectors(s)
LayoutPane(s) == LayoutModeCard(s) \cup NumberField(s) \cup PlainSelectors(s)

PaneShown(w, pane) == win[w].at = "dashboard" /\ win[w].pane = pane

\* The drawer opens, shows another tab or closes.  The presets pane reads its
\* list when it appears.
OpenPane(w) == \E pane \in {"settings", "presets", "none"} :
    /\ win[w].at = "dashboard" /\ win[w].pane # pane
    /\ win' = [win EXCEPT ![w].pane = pane, ![w].list = IF pane = "presets" THEN presets ELSE Absent]
    /\ UNCHANGED <<storedSettings, spoilt, legacy, storedTheme, presets, sysDark, touches>>

ChangeSetting(w) ==
    /\ Touch
    /\ \/ /\ PaneShown(w, "settings")
          /\ \E next \in AppearancePane(win[w].settings) \cup LayoutPane(win[w].settings) : Patch(w, win[w], next)
       \/ /\ PaneShown(w, "presets")
          /\ \E theme \in BuiltinPresets \cup (IF win[w].list = Absent THEN {} ELSE {win[w].list}) :
                Patch(w, win[w], ApplyPresetToSettings(theme, win[w].settings))
    /\ UNCHANGED <<presets, sysDark>>

\* At once in the head of the drawer, after a question in the general pane.
ResetConfig(w) ==
    /\ win[w].at = "dashboard" /\ win[w].pane # "none"
    /\ Touch
    /\ Patch(w, win[w], DefaultFnaShellSettings)
    /\ UNCHANGED <<presets, sysDark>>

\* The list of the other windows is the one they read when the pane opened.
SavesPreset(w, v, preset) ==
    /\ presets' = preset
    /\ win' = [x \in Windows |-> IF x = w THEN [v EXCEPT !.list = preset] ELSE IF presets # preset THEN Hears(x) ELSE win[x]]
AddCustomPreset(w) ==
    /\ PaneShown(w, "presets")
    /\ Touch
    /\ SavesPreset(w, win[w], win[w].settings)
    /\ UNCHANGED <<storedSettings, spoilt, legacy, storedTheme, sysDark>>
RemoveCustomPreset(w) ==
    /\ PaneShown(w, "presets") /\ win[w].list # Absent
    /\ Touch
    /\ SavesPreset(w, win[w], Absent)
    /\ UNCHANGED <<storedSettings, spoilt, legacy, storedTheme, sysDark>>

\* A file is chosen; it is applied to the settings of that moment when it has
\* been read, wherever the window is by then.
HandleImport(w) ==
    /\ PaneShown(w, "presets") /\ win[w].importing = Absent
    /\ Touch
    /\ win' = [win EXCEPT ![w].importing = win[w].settings]
    /\ UNCHANGED <<storedSettings, spoilt, legacy, storedTheme, presets, sysDark>>

\* Any record is taken for a preset; its parts may be anything.
ParseImportedPreset ==
    {Unreadable, [scheme |-> "light", width |-> 500], [menu |-> "dark", mode |-> "head"],
     [scheme |-> "dark", menu |-> Null], [scheme |-> "dark", header |-> Null]}

\* The settings are rendered at once, the theme state some time later.
ImportLoaded(w) == \E preset \in ParseImportedPreset :
    LET v == [win[w] EXCEPT !.importing = Absent]
        next == ApplyPresetToSettings(preset, win[w].importing)
        theme == ThemeOf(next.scheme)
        classed == IF theme = "system" THEN v ELSE ApplyTheme(v, theme)
    IN  /\ win[w].importing # Absent
        /\ IF ~Normalizes(preset)
           THEN win' = [win EXCEPT ![w] = v] /\ UNCHANGED <<storedSettings, spoilt, legacy, storedTheme>>
           ELSE /\ storedTheme' = theme
                /\ Stores(w, RenderShell(WriteFnaShellSettings(Here([classed EXCEPT !.later = theme, !.chosen = next.scheme]), next)))
        /\ UNCHANGED <<presets, sysDark, touches>>
\* Any theme chosen in the meantime is the later update and wins.
ThemeCommits(w) ==
    /\ win[w].later # "" /\ win[w].at # "dead"
    /\ Stores(w, RenderTheme(Here(win[w]), win[w].later))
    /\ UNCHANGED <<storedTheme, presets, sysDark, touches>>

SettingsInit ==
    /\ storedSettings \in {Absent, Unreadable, [DefaultFnaShellSettings EXCEPT !.scheme = "dark"], [menu |-> "dark"]}
    /\ legacy \in {Absent, [darkSider |-> TRUE, width |-> 500]}
    /\ storedTheme \in {"", "gva", "graphite"}
    /\ presets = Absent
    /\ sysDark \in BOOLEAN
    /\ win = [w \in Windows |-> ClosedWindow]
    /\ spoilt = ~CanShow(storedSettings)
    /\ touches = 0

SettingsNext ==
    \/ SystemThemeChanges
    \/ \E w \in Windows :
        \/ OpenWindow(w) \/ CloseWindow(w) \/ EnterShell(w) \/ LeaveShell(w) \/ StorageEvent(w) \/ RendersAgain(w)
        \/ ToggleTheme(w) \/ SetTheme(w) \/ OpenPane(w) \/ ChangeSetting(w)
        \/ ResetConfig(w)
        \/ AddCustomPreset(w) \/ RemoveCustomPreset(w)
        \/ HandleImport(w) \/ ImportLoaded(w) \/ ThemeCommits(w)

SettingsSpec == SettingsInit /\ [][SettingsNext]_settingsVars

(***************************************************************************)
(* Properties                                                              *)
(***************************************************************************)
NothingOutstanding(v) == v.at = "dashboard" /\ ~v.event /\ v.later = ""

\* A window with nothing outstanding shows the stored settings and is painted
\* with them, in the shade that they and its theme ask for; the sidebar is
\* there; and the theme is the scheme's if this window chose that scheme.
\* Settings that cannot be read, or with a part of the wrong type, are shown by
\* no window: it fails instead, and only when such settings have been stored, by
\* others or by an imported file (readFnaShellSettings, writeFnaShellSettings,
\* parseImportedPreset, applyFnaShellCss, DashboardShell, ThemeProvider).
SettingsReachWindows ==
    \A w \in Windows : LET v == win[w] IN
        /\ v.at \in {"failed", "dead"} => spoilt
        /\ NothingOutstanding(v) =>
            /\ CanShow(MigrateLegacyLocalStorageValue)
            /\ v.settings = NormalizeFnaShellSettings(MigrateLegacyLocalStorageValue)
            /\ v.applied = [settings |-> v.settings, dark |-> ResolveShellIsDark(v.settings, v.dark)]
            /\ v.settings.mode = "normal" /\ v.settings.width \in 160..480
            /\ v.settings.follow => v.settings.info = v.settings.color
            /\ v.chosen = v.settings.scheme => v.dark = ClassIsDark(ThemeOf(v.settings.scheme))
=============================================================================
