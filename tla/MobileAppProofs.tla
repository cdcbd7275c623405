-------------------------- MODULE MobileAppProofs --------------------------
(***************************************************************************)
(* Proofs about the phone application's prototype: for any set of servers  *)
(* and apps, any length of the browser's history and any number of timers  *)
(* that are still pending, the connection shown is the one the screen      *)
(* started, and a green key field means a stored key.                      *)
(*                                                                         *)
(* The argument: the router either keeps the screen with its state and its *)
(* timers, or shows a fresh one whose connection timer has become an       *)
(* orphan (ShowKeeps); every other handler changes the state of the screen *)
(* it belongs to.                                                          *)
(***************************************************************************)
EXTENDS MobileApp, SequenceTheorems, TLAPS

(* The React state l that screen s can have. *)
LocalOf(s, l) ==
  /\ s = "home" =>
       l \in [status : {"disconnected", "connecting", "connected"}, duration : Nat]
  /\ s = "onboarding" =>
       l \in [keyInput : Inputs, error : BOOLEAN, success : BOOLEAN, pasting : BOOLEAN]
  /\ s = "servers" =>
       l \in [searchQuery : SUBSET Servers, selectedServer : Servers]
  /\ s = "settings" =>
       l \in [killSwitch : BOOLEAN, netShield : BOOLEAN,
              language : 1 .. Len(Languages), theme : Themes]
  /\ s = "split" =>
       l \in [searchQuery : SUBSET Apps, enabled : SUBSET Apps]

LocalOK == LocalOf(screen, local)

HistoryOK == hist \in Seq(Screens) /\ at \in 1 .. Len(hist)

TypeOK ==
  /\ HistoryOK /\ LocalOK
  /\ key \in {None, "shade"}
  /\ timers \in [TimerKinds -> Nat]

(* success is set only when a key has been stored, and the screen is       *)
(* fresh after the key was dropped.                                        *)
SuccessStored == screen = "onboarding" /\ local.success => key # None

IInv == TypeOK /\ ConnectionIsOwn /\ SuccessStored

-----------------------------------------------------------------------------
(* The kinds of timers and the smaller of two numbers. *)
LEMMA MinNat ==
  ASSUME NEW a \in Nat, NEW b \in Nat
  PROVE  Min({a, b}) \in Nat
BY DEF Min

(* The timers left when another screen is shown. *)
LEMMA MovedType ==
  ASSUME NEW t \in [TimerKinds -> Nat], NEW s \in Screens
  PROVE  /\ Started(t, s) \in [TimerKinds -> Nat]
         /\ Moved(t, s) \in [TimerKinds -> Nat] /\ Moved(t, s)["connect"] = 0
<1>1. Started(t, s) \in [TimerKinds -> Nat] /\ Started(t, s)["orphan"] \in Nat
  BY DEF Started, TimerKinds
<1>2. t["connect"] \in Nat /\ MaxTimers \in Nat
  BY MobileAssumption DEF TimerKinds
<1>3. Min({MaxTimers, Started(t, s)["orphan"] + t["connect"]}) \in Nat
  BY <1>1, <1>2, MinNat
<1>4. QED
  BY <1>1, <1>3 DEF Moved, TimerKinds

(* A screen that has just been shown. *)
LEMMA FreshLocal ==
  ASSUME NEW s \in Screens
  PROVE  /\ LocalOf(s, Fresh(s))
         /\ s = "home" => Fresh(s).status = "disconnected" /\ Fresh(s).duration = 0
         /\ s = "onboarding" => ~ Fresh(s).success
<1> USE DEF LocalOf
<1>1. CASE s = "home"
  <2>1. Fresh(s) = FreshHome
    BY <1>1 DEF Fresh
  <2>2. QED BY <1>1, <2>1 DEF FreshHome
<1>2. CASE s = "onboarding"
  <2>1. Fresh(s) = FreshOnboarding
    BY <1>2 DEF Fresh
  <2>2. FreshOnboarding \in [keyInput : Inputs, error : BOOLEAN, success : BOOLEAN,
                            pasting : BOOLEAN]
    BY DEF FreshOnboarding, Inputs
  <2>3. ~ FreshOnboarding.success
    BY DEF FreshOnboarding
  <2>4. QED BY <1>2, <2>1, <2>2, <2>3
<1>3. CASE s = "servers"
  <2>1. Fresh(s) = FreshServers
    BY <1>3 DEF Fresh
  <2>2. QED BY <1>3, <2>1, MobileAssumption DEF FreshServers
<1>4. CASE s = "settings"
  <2>1. Fresh(s) = FreshSettings /\ 1 \in 1 .. Len(Languages)
    BY <1>4 DEF Fresh, Languages
  <2>2. FreshSettings \in [killSwitch : BOOLEAN, netShield : BOOLEAN,
                          language : 1 .. Len(Languages), theme : Themes]
    BY <2>1 DEF FreshSettings, Themes
  <2>3. QED BY <1>4, <2>1, <2>2
<1>5. CASE s = "split"
  <2>1. Fresh(s) = FreshSplit
    BY <1>5 DEF Fresh
  <2>2. QED BY <1>5, <2>1, MobileAssumption DEF FreshSplit
<1>6. CASE s = "splash"
  BY <1>6
<1>7. QED BY <1>1, <1>2, <1>3, <1>4, <1>5, <1>6 DEF Screens

(* What has to hold of a state beside its history and its key. *)
ScreenOK ==
  /\ LocalOK /\ ConnectionIsOwn /\ SuccessStored
  /\ timers \in [TimerKinds -> Nat]

(* The router keeps the screen and its timers, or shows a fresh one. *)
LEMMA ShowKeeps ==
  ASSUME IInv, NEW s \in Screens, NEW t \in [TimerKinds -> Nat],
         t["connect"] = timers["connect"],
         Show(s, t), screen' = s, s = screen => key' = key
  PROVE  ScreenOK'
<1>1. CASE s = screen
  <2>1. timers' = t /\ local' = local /\ screen' = screen /\ key' = key
    BY <1>1 DEF Show
  <2>2. QED
    BY <2>1 DEF IInv, TypeOK, ScreenOK, LocalOK, ConnectionIsOwn, HomeView,
                SuccessStored, screen
<1>2. CASE s # screen
  <2>1. timers' = Moved(t, s) /\ local' = Fresh(s)
    BY <1>2 DEF Show
  <2>2. /\ LocalOK'
        /\ screen' = "home" => local'.status = "disconnected" /\ local'.duration = 0
        /\ screen' = "onboarding" => ~ local'.success
    BY <2>1, FreshLocal DEF LocalOK
  <2>3. timers' \in [TimerKinds -> Nat] /\ timers'["connect"] = 0
    BY <2>1, MovedType
  <2>4. QED BY <2>2, <2>3 DEF ScreenOK, ConnectionIsOwn, HomeView, SuccessStored
<1>3. QED BY <1>1, <1>2

(* A new entry of the history is the current one. *)
LEMMA NavigateHistory ==
  ASSUME HistoryOK, NEW s \in Screens, NEW t, Navigate(s, t)
  PROVE  HistoryOK' /\ screen' = s
<1> DEFINE h == Append(SubSeq(hist, 1, at), s)
<1>1. /\ SubSeq(hist, 1, at) \in Seq(Screens) /\ Len(SubSeq(hist, 1, at)) = at
  BY DEF HistoryOK
<1>2. h \in Seq(Screens) /\ Len(h) = at + 1 /\ h[at + 1] = s /\ at \in Nat
  BY <1>1 DEF HistoryOK
<1>3. CASE Len(h) > MaxHist
  <2>1. hist' = Tail(h) /\ at' = at
    BY <1>3 DEF Navigate
  <2>2. Tail(h) \in Seq(Screens) /\ Len(Tail(h)) = at /\ Tail(h)[at] = s /\ at > 0
    <3>1. h # <<>> /\ at > 0
      BY <1>2 DEF HistoryOK
    <3>2. /\ Tail(h) \in Seq(Screens) /\ Len(Tail(h)) = Len(h) - 1
          /\ \A i \in 1 .. Len(Tail(h)) : Tail(h)[i] = h[i + 1]
      BY <1>2, <3>1, HeadTailProperties
    <3>3. QED BY <1>2, <3>1, <3>2
  <2> HIDE DEF h
  <2>3. QED BY <1>2, <2>1, <2>2 DEF HistoryOK, screen
<1>4. CASE ~ (Len(h) > MaxHist)
  <2>1. hist' = h /\ at' = at + 1
    BY <1>4 DEF Navigate
  <2>2. QED BY <1>2, <2>1 DEF HistoryOK, screen
<1>5. QED BY <1>3, <1>4

LEMMA ReplaceHistory ==
  ASSUME HistoryOK, NEW s \in Screens, NEW t, Replace(s, t)
  PROVE  HistoryOK' /\ screen' = s
BY DEF HistoryOK, Replace, screen

LEMMA TravelHistory ==
  ASSUME HistoryOK, NEW i \in 1 .. MaxHist, Travel(i)
  PROVE  HistoryOK' /\ screen' = hist[i] /\ hist[i] \in Screens
BY DEF HistoryOK, Travel, screen

(* A timer that has fired is one fewer of its kind. *)
LEMMA FiredType ==
  ASSUME TypeOK, NEW k \in TimerKinds, timers[k] > 0
  PROVE  /\ Fired(k) \in [TimerKinds -> Nat]
         /\ k # "connect" => Fired(k)["connect"] = timers["connect"]
         /\ Fired("connect")["connect"] = timers["connect"] - 1
BY DEF TypeOK, Fired, TimerKinds

(* Every step that goes through the router keeps IInv. *)
LEMMA RoutedKeeps ==
  ASSUME IInv, NEW s \in Screens, NEW t \in [TimerKinds -> Nat],
         t["connect"] = timers["connect"],
         Navigate(s, t) \/ Replace(s, t),
         key' \in {None, "shade"}, s = screen => key' = key
  PROVE  IInv'
<1>1. HistoryOK' /\ screen' = s /\ Show(s, t)
  BY NavigateHistory, ReplaceHistory DEF IInv, TypeOK, Navigate, Replace
<1>2. ScreenOK'
  BY <1>1, ShowKeeps
<1>3. QED BY <1>1, <1>2 DEF IInv, TypeOK, ScreenOK

(* Every handler that only changes the state of the screen shown keeps     *)
(* IInv, once it keeps what holds of the screen.                           *)
LEMMA LocalKeeps ==
  ASSUME IInv, UNCHANGED <<hist, at>>, key' \in {None, "shade"}, ScreenOK'
  PROVE  IInv'
BY DEF IInv, TypeOK, ScreenOK, HistoryOK

-----------------------------------------------------------------------------
(* The screens, as the handlers of each need them. *)
LEMMA ScreenIs == ASSUME IInv PROVE screen \in Screens
BY DEF IInv, TypeOK, HistoryOK, screen

(* On any screen but /home a handler that starts no connection timer has   *)
(* only the new state of the screen to show.                               *)
LEMMA AwayKeeps ==
  ASSUME IInv, UNCHANGED <<hist, at>>, screen # "home",
         timers' \in [TimerKinds -> Nat], timers'["connect"] = timers["connect"],
         LocalOf(screen, local'), key' \in {None, "shade"},
         screen = "onboarding" /\ local'.success => key' # None
  PROVE  IInv'
<1>1. screen' = screen
  BY DEF screen
<1>2. timers["connect"] = 0
  BY DEF IInv, ConnectionIsOwn
<1>3. ScreenOK'
  BY <1>1, <1>2 DEF ScreenOK, LocalOK, ConnectionIsOwn, HomeView, SuccessStored
<1>4. QED BY <1>3, LocalKeeps

Onboarded == [keyInput : Inputs, error : BOOLEAN, success : BOOLEAN, pasting : BOOLEAN]

(* The handlers of the key field. *)
LEMMA OnboardingKeeps ==
  ASSUME IInv,
         \/ \E v \in Inputs : TypeKey(v) \/ PasteDone(v)
         \/ HandlePaste
         \/ HandleActivate
  PROVE  IInv'
<1>1. screen = "onboarding" /\ UNCHANGED <<hist, at>>
  BY DEF TypeKey, PasteDone, HandlePaste, HandleActivate
<1>2. local \in Onboarded /\ timers \in [TimerKinds -> Nat] /\ key \in {None, "shade"}
      /\ (local.success => key # None)
  BY <1>1 DEF IInv, TypeOK, LocalOK, LocalOf, Onboarded, SuccessStored
<1>3. SUFFICES /\ local' \in Onboarded
               /\ timers' \in [TimerKinds -> Nat] /\ timers'["connect"] = timers["connect"]
               /\ key' \in {None, "shade"} /\ (local'.success => key' # None)
  BY <1>1, AwayKeeps DEF LocalOf, Onboarded
<1>4. ASSUME NEW v \in Inputs, TypeKey(v) \/ PasteDone(v) PROVE local' \in Onboarded
             /\ (local'.success => local.success)
  BY <1>2, <1>4 DEF TypeKey, PasteDone, Onboarded
<1>5. ASSUME HandlePaste PROVE local' \in Onboarded /\ (local'.success => local.success)
  BY <1>2, <1>5 DEF HandlePaste, Onboarded
<1>6. CASE HandleActivate /\ local.keyInput # "shade"
  <2>1. local' = [local EXCEPT !.error = TRUE] /\ key' = key /\ timers' = timers
    BY <1>6 DEF HandleActivate
  <2>2. local' \in Onboarded /\ (local'.success => local.success)
    BY <1>2, <2>1 DEF Onboarded
  <2>3. QED BY <1>2, <2>1, <2>2
<1>7. CASE HandleActivate /\ local.keyInput = "shade"
  <2>1. /\ local' = [local EXCEPT !.success = TRUE] /\ key' = "shade"
        /\ timers' = [timers EXCEPT !["activate"] = @ + 1]
    BY <1>7 DEF HandleActivate
  <2>2. local' \in Onboarded
    BY <1>2, <2>1 DEF Onboarded
  <2>3. timers' \in [TimerKinds -> Nat] /\ timers'["connect"] = timers["connect"]
    BY <1>2, <2>1 DEF TimerKinds
  <2>4. QED BY <2>1, <2>2, <2>3, MobileAssumption
<1>8. \A v \in Inputs : TypeKey(v) \/ PasteDone(v) \/ HandlePaste => UNCHANGED <<key, timers>>
  BY DEF TypeKey, PasteDone, HandlePaste
<1>9. QED BY <1>2, <1>4, <1>5, <1>6, <1>7, <1>8 DEF Inputs

(* The server list, the settings and the list of apps. *)
LEMMA ListsKeep ==
  ASSUME IInv,
         \/ \E f \in SUBSET Servers : SearchServers(f)
         \/ \E s \in Servers : HandleServerSelect(s)
         \/ \E f \in SUBSET Apps : SearchApps(f)
         \/ \E a \in Apps : ToggleApp(a)
  PROVE  IInv'
<1>1. /\ screen \in {"servers", "split"} /\ UNCHANGED <<hist, at, key>>
  BY DEF SearchServers, HandleServerSelect, SearchApps, ToggleApp
<1>2. timers \in [TimerKinds -> Nat] /\ key \in {None, "shade"} /\ LocalOf(screen, local)
  BY DEF IInv, TypeOK, LocalOK
<1>3. timers' \in [TimerKinds -> Nat] /\ timers'["connect"] = timers["connect"]
  BY <1>2 DEF SearchServers, HandleServerSelect, SearchApps, ToggleApp, TimerKinds
<1>4. LocalOf(screen, local')
  BY <1>1, <1>2 DEF LocalOf, SearchServers, HandleServerSelect, SearchApps, ToggleApp
<1>5. QED BY <1>1, <1>2, <1>3, <1>4, AwayKeeps

LEMMA SettingsKeep ==
  ASSUME IInv,
         \/ ToggleKillSwitch \/ ToggleNetShield \/ NextLanguage
         \/ \E t \in Themes : PickTheme(t)
  PROVE  IInv'
<1> DEFINE S == [killSwitch : BOOLEAN, netShield : BOOLEAN,
                 language : 1 .. Len(Languages), theme : Themes]
<1>1. screen = "settings" /\ UNCHANGED <<hist, at, key, timers>>
  BY DEF ToggleKillSwitch, ToggleNetShield, NextLanguage, PickTheme, Setting
<1>2. timers \in [TimerKinds -> Nat] /\ key \in {None, "shade"} /\ local \in S
  BY <1>1 DEF IInv, TypeOK, LocalOK, LocalOf
<1>3. local' \in S
  <2>1. CASE ToggleKillSwitch
    <3>1. (~ local.killSwitch) \in BOOLEAN
      OBVIOUS
    <3>2. QED BY <1>2, <2>1, <3>1 DEF ToggleKillSwitch, Setting
  <2>2. CASE ToggleNetShield
    <3>1. (~ local.netShield) \in BOOLEAN
      OBVIOUS
    <3>2. QED BY <1>2, <2>2, <3>1 DEF ToggleNetShield, Setting
  <2>3. CASE NextLanguage
    <3>1. Len(Languages) = 3
      BY DEF Languages
    <3>2. (local.language % 3) + 1 \in 1 .. 3
      BY <1>2, <3>1
    <3>3. QED BY <1>2, <2>3, <3>1, <3>2 DEF NextLanguage, Setting
  <2>4. ASSUME NEW t \in Themes, PickTheme(t) PROVE local' \in S
    BY <1>2, <2>4 DEF PickTheme, Setting
  <2>5. QED BY <2>1, <2>2, <2>3, <2>4
<1>4. LocalOf(screen, local')
  BY <1>1, <1>3 DEF LocalOf
<1>5. QED BY <1>1, <1>2, <1>4, AwayKeeps

AtHome == [status : {"disconnected", "connecting", "connected"}, duration : Nat]

(* The connection: the timer started by handleConnect is pending exactly   *)
(* while the screen that started it is "connecting".                       *)
LEMMA HomeKeeps ==
  ASSUME IInv, HandleConnect \/ ConnectTimer \/ Tick
  PROVE  IInv'
<1>0. /\ timers \in [TimerKinds -> Nat] /\ UNCHANGED <<hist, at, key>>
      /\ key \in {None, "shade"}
  BY DEF IInv, TypeOK, HandleConnect, ConnectTimer, Tick
<1>1. screen = "home" /\ screen' = screen
  <2>1. CASE ConnectTimer
    BY <1>0, <2>1 DEF ConnectTimer, IInv, ConnectionIsOwn, screen
  <2>2. CASE HandleConnect \/ Tick
    BY <1>0, <2>2 DEF HandleConnect, Tick, screen
  <2>3. QED BY <2>1, <2>2
<1>2. /\ local \in AtHome
      /\ timers["connect"] = IF local.status = "connecting" THEN 1 ELSE 0
      /\ local.status # "connected" => local.duration = 0
  BY <1>1 DEF IInv, TypeOK, LocalOK, LocalOf, AtHome, ConnectionIsOwn, HomeView
<1>3. /\ local' \in AtHome /\ timers' \in [TimerKinds -> Nat]
      /\ timers'["connect"] = IF local'.status = "connecting" THEN 1 ELSE 0
      /\ local'.status # "connected" => local'.duration = 0
  <2>1. CASE ConnectTimer
    <3>1. local.status = "connecting"
      BY <1>2, <2>1 DEF ConnectTimer
    <3>2. local' = [local EXCEPT !.status = "connected"]
          /\ timers' = [timers EXCEPT !["connect"] = @ - 1]
      BY <2>1 DEF ConnectTimer, Fired
    <3>3. timers' \in [TimerKinds -> Nat] /\ timers'["connect"] = 0
      BY <1>0, <1>2, <3>1, <3>2 DEF TimerKinds
    <3>4. QED BY <1>2, <3>2, <3>3 DEF AtHome
  <2>2. CASE HandleConnect /\ local.status = "disconnected"
    <3>1. local' = [local EXCEPT !.status = "connecting"]
          /\ timers' = [timers EXCEPT !["connect"] = @ + 1]
      BY <2>2 DEF HandleConnect
    <3>2. timers' \in [TimerKinds -> Nat] /\ timers'["connect"] = 1
      BY <1>0, <1>2, <2>2, <3>1 DEF TimerKinds
    <3>3. QED BY <1>2, <2>2, <3>1, <3>2 DEF AtHome
  <2>3. CASE HandleConnect /\ local.status # "disconnected"
    <3>1. local' = FreshHome /\ timers' = timers /\ local.status = "connected"
      BY <2>3 DEF HandleConnect
    <3>2. QED BY <1>0, <1>2, <3>1 DEF AtHome, FreshHome
  <2>4. CASE Tick
    BY <1>0, <1>2, <2>4 DEF AtHome, Tick
  <2>5. QED BY <2>1, <2>2, <2>3, <2>4
<1>4. ScreenOK'
  BY <1>1, <1>3
     DEF ScreenOK, LocalOK, LocalOf, AtHome, ConnectionIsOwn, HomeView, SuccessStored
<1>5. QED BY <1>0, <1>4, LocalKeeps

(* A timer of a home screen that is gone changes nothing but the timers. *)
LEMMA OrphanKeeps ==
  ASSUME IInv, OrphanTimer
  PROVE  IInv'
<1>1. UNCHANGED <<hist, at, key, local>> /\ screen' = screen
  BY DEF OrphanTimer, screen
<1>2. timers' \in [TimerKinds -> Nat] /\ timers'["connect"] = timers["connect"]
  BY FiredType DEF OrphanTimer, IInv, TypeOK, TimerKinds
<1>3. ScreenOK'
  BY <1>1, <1>2
     DEF IInv, TypeOK, ScreenOK, LocalOK, ConnectionIsOwn, HomeView, SuccessStored
<1>4. QED BY <1>1, <1>3, LocalKeeps DEF IInv, TypeOK

(* Timers, links and buttons that navigate, wherever the user is by then. *)
LEMMA NavigationKeeps ==
  ASSUME IInv,
         \/ SplashTimer \/ ActivateTimer \/ PickTimer
         \/ \E s \in Screens : OpenFromHome(s)
         \/ HandleChangeKey \/ OpenSplit \/ HeaderBack
  PROVE  IInv'
<1>0. TypeOK /\ timers \in [TimerKinds -> Nat] /\ key \in {None, "shade"}
  BY DEF IInv, TypeOK
<1>1. CASE SplashTimer
  <2>1. PICK s \in Screens : Replace(s, Fired("splash"))
    BY <1>1 DEF SplashTimer, Screens
  <2>2. /\ Fired("splash") \in [TimerKinds -> Nat]
        /\ Fired("splash")["connect"] = timers["connect"]
    BY <1>0, <1>1, FiredType DEF SplashTimer, TimerKinds
  <2>3. QED BY <1>0, <1>1, <2>1, <2>2, RoutedKeeps DEF SplashTimer
<1>2. CASE ActivateTimer
  <2>1. /\ Fired("activate") \in [TimerKinds -> Nat]
        /\ Fired("activate")["connect"] = timers["connect"]
    BY <1>0, <1>2, FiredType DEF ActivateTimer, TimerKinds
  <2>2. "home" \in Screens
    BY DEF Screens
  <2>3. QED BY <1>0, <1>2, <2>1, <2>2, RoutedKeeps DEF ActivateTimer
<1>3. CASE PickTimer
  <2>1. /\ Fired("pick") \in [TimerKinds -> Nat]
        /\ Fired("pick")["connect"] = timers["connect"]
    BY <1>0, <1>3, FiredType DEF PickTimer, TimerKinds
  <2>2. "home" \in Screens
    BY DEF Screens
  <2>3. QED BY <1>0, <1>3, <2>1, <2>2, RoutedKeeps DEF PickTimer
<1>4. ASSUME NEW s \in Screens, OpenFromHome(s)
      PROVE  IInv'
  BY <1>0, <1>4, RoutedKeeps DEF OpenFromHome
<1>5. CASE HandleChangeKey
  <2>1. "onboarding" \in Screens /\ screen # "onboarding"
    BY <1>5 DEF HandleChangeKey, Screens
  <2>2. QED BY <1>0, <1>5, <2>1, RoutedKeeps DEF HandleChangeKey
<1>6. CASE OpenSplit
  <2>1. "split" \in Screens
    BY DEF Screens
  <2>2. QED BY <1>0, <1>6, <2>1, RoutedKeeps DEF OpenSplit
<1>7. CASE HeaderBack
  <2>1. PICK s \in Screens : Navigate(s, timers)
    BY <1>7 DEF HeaderBack, Screens
  <2>2. QED BY <1>0, <1>7, <2>1, RoutedKeeps DEF HeaderBack
<1>8. QED BY <1>1, <1>2, <1>3, <1>4, <1>5, <1>6, <1>7

(* Back, forward and reload. *)
LEMMA BrowserKeeps ==
  ASSUME IInv, Reload \/ \E i \in 1 .. MaxHist : Travel(i)
  PROVE  IInv'
<1>0. /\ TypeOK /\ HistoryOK /\ timers \in [TimerKinds -> Nat] /\ key' = key
      /\ key \in {None, "shade"} /\ screen \in Screens
  BY ScreenIs DEF IInv, TypeOK, Reload, Travel
<1>1. ASSUME NEW i \in 1 .. MaxHist, Travel(i) PROVE IInv'
  <2>1. HistoryOK' /\ screen' = hist[i] /\ hist[i] \in Screens
    BY <1>0, <1>1, TravelHistory
  <2>2. ScreenOK'
    BY <1>0, <1>1, <2>1, ShowKeeps DEF Travel
  <2>3. QED BY <1>0, <2>1, <2>2 DEF IInv, TypeOK, ScreenOK
<1>2. CASE Reload
  <2>1. UNCHANGED <<hist, at>> /\ screen' = screen
    BY <1>2 DEF Reload, screen
  <2>2. /\ NoTimers \in [TimerKinds -> Nat] /\ NoTimers["connect"] = 0
    BY DEF NoTimers, TimerKinds
  <2>3. /\ timers' \in [TimerKinds -> Nat] /\ timers'["connect"] = 0
    BY <1>0, <1>2, <2>2, MovedType DEF Reload, Started, TimerKinds
  <2>4. local' = Fresh(screen)
    BY <1>2 DEF Reload
  <2>5. /\ LocalOf(screen, local')
        /\ screen = "home" => local'.status = "disconnected" /\ local'.duration = 0
        /\ screen = "onboarding" => ~ local'.success
    BY <1>0, <2>4, FreshLocal
  <2>6. ScreenOK'
    BY <2>1, <2>3, <2>5 DEF ScreenOK, LocalOK, ConnectionIsOwn, HomeView, SuccessStored
  <2>7. QED BY <1>0, <2>1, <2>6, LocalKeeps
<1>3. QED BY <1>1, <1>2

-----------------------------------------------------------------------------
(* The application has just been opened at one of its routes. *)
LEMMA InitIInv == Init => IInv
<1> SUFFICES ASSUME Init PROVE IInv
  OBVIOUS
<1>1. PICK s \in Screens :
        hist = <<s>> /\ local = Fresh(s) /\ timers = Started(NoTimers, s)
  BY DEF Init
<1>2. at = 1 /\ key \in {None, "shade"} /\ screen = s /\ HistoryOK
  BY <1>1 DEF Init, screen, HistoryOK
<1>3. NoTimers \in [TimerKinds -> Nat] /\ NoTimers["connect"] = 0
  BY DEF NoTimers, TimerKinds
<1>4. timers \in [TimerKinds -> Nat] /\ timers["connect"] = 0
  BY <1>1, <1>3, MovedType DEF Started, TimerKinds
<1>5. /\ LocalOf(s, local)
      /\ s = "home" => local.status = "disconnected" /\ local.duration = 0
      /\ s = "onboarding" => ~ local.success
  BY <1>1, FreshLocal
<1>6. QED
  BY <1>2, <1>4, <1>5 DEF IInv, TypeOK, LocalOK, ConnectionIsOwn, HomeView, SuccessStored

LEMMA NextIInv == IInv /\ [Next]_vars => IInv'
<1> SUFFICES ASSUME IInv, [Next]_vars PROVE IInv'
  OBVIOUS
<1>1. CASE UNCHANGED vars
  BY <1>1 DEF vars, IInv, TypeOK, HistoryOK, LocalOK, ConnectionIsOwn, HomeView,
              SuccessStored, screen
<1>2. CASE Next
  BY <1>2, OnboardingKeeps, ListsKeep, SettingsKeep, HomeKeeps, OrphanKeeps,
     NavigationKeeps, BrowserKeeps DEF Next
<1>3. QED BY <1>1, <1>2

(* The screen's state, its timers and the stored key agree, whatever the   *)
(* user, the browser and late timers do.                                   *)
THEOREM AppInvariant == Spec => []IInv
BY InitIInv, NextIInv, PTL DEF Spec

(* "connecting" is shown exactly while the screen's own timer is pending,  *)
(* and a connection starts with no seconds of another (Home.tsx            *)
(* handleConnect and its effects), for any history and number of timers.   *)
THEOREM ConnectionStaysOwn == Spec => []ConnectionIsOwn
<1>1. IInv => ConnectionIsOwn
  BY DEF IInv
<1>2. QED BY <1>1, AppInvariant, PTL

(* The key field is green only when a tested key is stored (Onboarding.tsx *)
(* handleActivate, handlePaste; Settings.tsx handleChangeKey).             *)
THEOREM GreenIsStored == Spec => []GreenMeansStored
<1>1. IInv => GreenMeansStored
  <2> SUFFICES ASSUME IInv PROVE GreenMeansStored
    OBVIOUS
  <2>1. key \in {None, "shade"} /\ (screen = "onboarding" /\ local.success => key # None)
    BY DEF IInv, TypeOK, SuccessStored
  <2>2. screen = "onboarding" /\ OnboardingView.border = "green" => local.success
    BY DEF OnboardingView
  <2>3. QED BY <2>1, <2>2 DEF GreenMeansStored
<1>2. QED BY <1>1, AppInvariant, PTL
=============================================================================
