----------------------------- MODULE MobileApp -----------------------------
(***************************************************************************)
(* The phone application's prototype (shadevpn_android figma/app): six     *)
(* screens behind a browser router, each with React state of its own that  *)
(* is made afresh when the screen is shown and dropped when it is left,    *)
(* timers started by the screens, the access key in localStorage, and the  *)
(* browser's history and reload.                                           *)
(*                                                                         *)
(* A timer outlives its screen unless the screen clears it, which only the *)
(* splash screen does.  A timer that navigates does so wherever the user   *)
(* has gone since; a timer that sets the state of a screen that is gone    *)
(* does nothing ("orphan").                                                *)
(***************************************************************************)
EXTENDS Integers, Sequences, FiniteSetsExt

CONSTANTS
  Servers, First,     \* the servers, and the one the list starts with
  Apps, DefaultOn,    \* the installed apps, and those excluded from the VPN at first
  MaxHist,            \* the browser's history: older entries are dropped
  MaxTimers,          \* pending timers of one kind
  MaxTicks,           \* seconds counted in one connection
  None

ASSUME MobileAssumption ==
  /\ First \in Servers
  /\ DefaultOn \subseteq Apps
  /\ {MaxHist, MaxTimers, MaxTicks} \subseteq Nat \ {0}
  /\ None # "shade"

VARIABLES
  hist, at,   \* the history entries and the current one
  key,        \* localStorage's shadeVPN_key: None or the text stored
  local,      \* the React state of the screen that is shown
  timers      \* pending timers by kind
vars == <<hist, at, key, local, timers>>

Screens == {"splash", "onboarding", "home", "servers", "settings", "split"}

\* The texts of the key field, by what handleActivate tells apart.
Inputs == {"blank", "malformed", "shade"}

Languages == <<"Russian", "English", "German">>
Themes == {"light", "dark", "system"}
TimerKinds == {"splash", "activate", "pick", "connect", "orphan"}

screen == hist[at]

-----------------------------------------------------------------------------
(* The state each screen starts with.                                      *)

FreshHome == [status |-> "disconnected", duration |-> 0]

FreshOnboarding ==
  [keyInput |-> "blank", error |-> FALSE, success |-> FALSE, pasting |-> FALSE]

FreshServers == [searchQuery |-> Servers, selectedServer |-> First]

FreshSettings ==
  [killSwitch |-> TRUE, netShield |-> TRUE, language |-> 1, theme |-> "dark"]

FreshSplit == [searchQuery |-> Apps, enabled |-> DefaultOn]

Fresh(s) ==
  CASE s = "home" -> FreshHome
    [] s = "onboarding" -> FreshOnboarding
    [] s = "servers" -> FreshServers
    [] s = "settings" -> FreshSettings
    [] s = "split" -> FreshSplit
    [] s = "splash" -> <<>>

NoTimers == [k \in TimerKinds |-> 0]

\* The timers a screen starts when it is shown.
Started(t, s) == [t EXCEPT !["splash"] = IF s = "splash" THEN 1 ELSE 0]

\* The timers once screen s is shown instead of the current one: the splash screen's
\* is cleared, the others stay; the connection timer has lost its screen.
Moved(t, s) ==
  [Started(t, s) EXCEPT !["connect"] = 0,
                        !["orphan"] = Min({MaxTimers, @ + t["connect"]})]

(* Mutant of Show: going to the route that is shown makes the screen afresh. *)
ShowRemounting(s, t) ==
  /\ timers' = IF s = screen THEN t ELSE Moved(t, s)
  /\ local' = Fresh(s)

\* The router shows s; t are the timers left.  The same route again keeps the screen
\* and its state.
Show(s, t) ==
  IF s = screen
  THEN timers' = t /\ UNCHANGED local
  ELSE timers' = Moved(t, s) /\ local' = Fresh(s)

\* navigate(s): a new history entry after the current one.
Navigate(s, t) ==
  /\ Show(s, t)
  /\ LET h == Append(SubSeq(hist, 1, at), s)
     IN  IF Len(h) > MaxHist THEN hist' = Tail(h) /\ at' = at
                             ELSE hist' = h /\ at' = at + 1

\* navigate(s, {replace: true}): the current history entry becomes s.
Replace(s, t) ==
  /\ Show(s, t)
  /\ hist' = [hist EXCEPT ![at] = s]
  /\ UNCHANGED at

\* Timer k, which is due, is taken off.
Fired(k) == [timers EXCEPT ![k] = @ - 1]

-----------------------------------------------------------------------------
(* What the screens show and which buttons work.                           *)

HomeView ==
  [connectEnabled |-> local.status # "connecting",
   protected |-> local.status = "connected",
   stats |-> IF local.status = "connected" THEN local.duration ELSE None]

OnboardingView ==
  [border |-> IF local.error THEN "red" ELSE IF local.success THEN "green" ELSE "none"]

ServersView == [rows |-> local.searchQuery, quick |-> First, marked |-> local.selectedServer]

SplitView == [rows |-> local.searchQuery, on |-> local.enabled \cap local.searchQuery]

-----------------------------------------------------------------------------
(* Splash.                                                                 *)

SplashTimer ==
  /\ timers["splash"] > 0
  /\ Replace(IF key # None THEN "home" ELSE "onboarding", Fired("splash"))
  /\ UNCHANGED key

-----------------------------------------------------------------------------
(* Onboarding.                                                             *)

TypeKey(v) ==
  /\ screen = "onboarding"
  /\ local' = [local EXCEPT !.keyInput = v, !.error = FALSE, !.success = FALSE]
  /\ UNCHANGED <<hist, at, key, timers>>

\* handlePaste up to the await of the clipboard.
HandlePaste ==
  /\ screen = "onboarding"
  /\ local' = [local EXCEPT !.pasting = TRUE]
  /\ UNCHANGED <<hist, at, key, timers>>

\* The clipboard's text arrives, or reading it is refused.
PasteDone(v) ==
  /\ screen = "onboarding" /\ local.pasting
  /\ \/ local' = [local EXCEPT !.pasting = FALSE, !.keyInput = v, !.error = FALSE]
     \/ local' = [local EXCEPT !.pasting = FALSE]
  /\ UNCHANGED <<hist, at, key, timers>>

(* Mutant of HandleActivate: success is shown before the text is tested. *)
HandleActivateEarly ==
  /\ screen = "onboarding"
  /\ timers["activate"] < MaxTimers
  /\ IF local.keyInput # "shade"
     THEN local' = [local EXCEPT !.success = TRUE] /\ UNCHANGED <<key, timers>>
     ELSE /\ local' = [local EXCEPT !.success = TRUE]
          /\ key' = local.keyInput
          /\ timers' = [timers EXCEPT !["activate"] = @ + 1]
  /\ UNCHANGED <<hist, at>>

HandleActivate ==
  /\ screen = "onboarding"
  /\ IF local.keyInput # "shade"
     THEN /\ local' = [local EXCEPT !.error = TRUE]
          /\ UNCHANGED <<key, timers>>
     ELSE /\ timers["activate"] < MaxTimers
          /\ local' = [local EXCEPT !.success = TRUE]
          /\ key' = local.keyInput
          /\ timers' = [timers EXCEPT !["activate"] = @ + 1]
  /\ UNCHANGED <<hist, at>>

ActivateTimer ==
  /\ timers["activate"] > 0
  /\ Replace("home", Fired("activate"))
  /\ UNCHANGED key

-----------------------------------------------------------------------------
(* Home.                                                                   *)

(* Mutant of HandleConnect: no timer is started. *)
HandleConnectNoTimer ==
  /\ screen = "home" /\ HomeView.connectEnabled
  /\ \/ /\ local.status = "disconnected"
        /\ local' = [local EXCEPT !.status = "connecting"]
     \/ /\ local.status = "connected"
        /\ local' = FreshHome
  /\ UNCHANGED <<hist, at, key, timers>>

HandleConnect ==
  /\ screen = "home" /\ HomeView.connectEnabled
  /\ \/ /\ local.status = "disconnected"
        /\ local' = [local EXCEPT !.status = "connecting"]
        /\ timers' = [timers EXCEPT !["connect"] = @ + 1]
     \/ /\ local.status = "connected"
        /\ local' = FreshHome
        /\ UNCHANGED timers
  /\ UNCHANGED <<hist, at, key>>

ConnectTimer ==
  /\ timers["connect"] > 0
  /\ local' = [local EXCEPT !.status = "connected"]
  /\ timers' = Fired("connect")
  /\ UNCHANGED <<hist, at, key>>

\* The connection timer of a home screen that was left.
OrphanTimer ==
  /\ timers["orphan"] > 0
  /\ timers' = Fired("orphan")
  /\ UNCHANGED <<hist, at, key, local>>

\* The interval that runs while the status is "connected".
Tick ==
  /\ screen = "home" /\ local.status = "connected" /\ local.duration < MaxTicks
  /\ local' = [local EXCEPT !.duration = @ + 1]
  /\ UNCHANGED <<hist, at, key, timers>>

OpenFromHome(s) ==
  /\ screen = "home" /\ s \in {"servers", "settings"}
  /\ Navigate(s, timers)
  /\ UNCHANGED key

-----------------------------------------------------------------------------
(* The server list.                                                        *)

\* The query, by the servers whose country or city contains it.
SearchServers(found) ==
  /\ screen = "servers"
  /\ local' = [local EXCEPT !.searchQuery = found]
  /\ UNCHANGED <<hist, at, key, timers>>

HandleServerSelect(s) ==
  /\ screen = "servers" /\ s \in ServersView.rows \cup {ServersView.quick}
  /\ timers["pick"] < MaxTimers
  /\ local' = [local EXCEPT !.selectedServer = s]
  /\ timers' = [timers EXCEPT !["pick"] = @ + 1]
  /\ UNCHANGED <<hist, at, key>>

PickTimer ==
  /\ timers["pick"] > 0
  /\ Navigate("home", Fired("pick"))
  /\ UNCHANGED key

-----------------------------------------------------------------------------
(* Settings and split tunnelling.                                          *)

\* A setting is changed: it is kept by the screen only.
Setting(l) ==
  /\ screen = "settings"
  /\ local' = l
  /\ UNCHANGED <<hist, at, key, timers>>

ToggleKillSwitch == Setting([local EXCEPT !.killSwitch = ~@])
ToggleNetShield  == Setting([local EXCEPT !.netShield = ~@])
NextLanguage     == Setting([local EXCEPT !.language = (@ % Len(Languages)) + 1])
PickTheme(t)     == Setting([local EXCEPT !.theme = t])

HandleChangeKey ==
  /\ screen = "settings"
  /\ key' = None
  /\ Replace("onboarding", timers)

OpenSplit ==
  /\ screen = "settings"
  /\ Navigate("split", timers)
  /\ UNCHANGED key

\* The arrow in the header of a screen.
HeaderBack ==
  /\ screen \in {"servers", "settings", "split"}
  /\ Navigate(IF screen = "split" THEN "settings" ELSE "home", timers)
  /\ UNCHANGED key

SearchApps(found) ==
  /\ screen = "split"
  /\ local' = [local EXCEPT !.searchQuery = found]
  /\ UNCHANGED <<hist, at, key, timers>>

ToggleApp(a) ==
  /\ screen = "split" /\ a \in SplitView.rows
  /\ local' = [local EXCEPT !.enabled =
                 IF a \in @ THEN @ \ {a} ELSE @ \cup {a}]
  /\ UNCHANGED <<hist, at, key, timers>>

-----------------------------------------------------------------------------
(* The browser.                                                            *)

\* Back and forward.
Travel(i) ==
  /\ i \in {at - 1, at + 1} \cap 1..Len(hist)
  /\ Show(hist[i], timers)
  /\ at' = i
  /\ UNCHANGED <<hist, key>>

\* A reload drops every timer and all React state and keeps the route and localStorage.
Reload ==
  /\ timers' = Started(NoTimers, screen)
  /\ local' = Fresh(screen)
  /\ UNCHANGED <<hist, at, key>>

-----------------------------------------------------------------------------
\* The application is opened at one of its routes, on a device with or without a key.
Init ==
  /\ \E s \in Screens :
       hist = <<s>> /\ local = Fresh(s) /\ timers = Started(NoTimers, s)
  /\ at = 1
  /\ key \in {None, "shade"}

Next ==
  \/ SplashTimer \/ ActivateTimer \/ ConnectTimer \/ OrphanTimer \/ PickTimer
  \/ \E v \in Inputs : TypeKey(v) \/ PasteDone(v)
  \/ HandlePaste \/ HandleActivate \/ HandleConnect \/ Tick
  \/ \E s \in Screens : OpenFromHome(s)
  \/ \E f \in SUBSET Servers : SearchServers(f)
  \/ \E s \in Servers : HandleServerSelect(s)
  \/ ToggleKillSwitch \/ ToggleNetShield \/ NextLanguage \/ (\E t \in Themes : PickTheme(t))
  \/ HandleChangeKey \/ OpenSplit \/ HeaderBack
  \/ \E f \in SUBSET Apps : SearchApps(f)
  \/ \E a \in Apps : ToggleApp(a)
  \/ \E i \in 1..MaxHist : Travel(i)
  \/ Reload

\* The browser runs every timer that is due.
Fairness ==
  /\ WF_vars(SplashTimer) /\ WF_vars(ActivateTimer) /\ WF_vars(ConnectTimer)
  /\ WF_vars(OrphanTimer) /\ WF_vars(PickTimer)

Spec == Init /\ [][Next]_vars /\ Fairness

-----------------------------------------------------------------------------
(* Properties.                                                             *)

\* A connection belongs to one visit of the home screen: the status is "connecting"
\* exactly while handleConnect's timer is pending for the screen shown, and the clock has
\* seconds only while connected.  Timers left over from earlier visits neither end nor
\* fake the connection of this one, coming to /home while on /home (a late server choice)
\* does not lose it, and no connection starts with the seconds of another.
ConnectionIsOwn ==
  /\ timers["connect"] = (IF screen = "home" /\ local.status = "connecting" THEN 1 ELSE 0)
  /\ screen = "home" /\ ~HomeView.protected => local.duration = 0

\* Only a key that passed handleActivate's tests is ever stored, and the key field's
\* green border means that one is, even when a paste that was asked for earlier
\* replaces the text after the activation.
GreenMeansStored ==
  /\ key \in {None, "shade"}
  /\ screen = "onboarding" /\ OnboardingView.border = "green" => key # None

\* "Connecting" ends: by the timer, or because the screen is left or reloaded.
ConnectingEnds ==
  (screen = "home" /\ ~HomeView.connectEnabled)
    ~> ~(screen = "home" /\ ~HomeView.connectEnabled)

=============================================================================
