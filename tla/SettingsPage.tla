---------------------------- MODULE SettingsPage ----------------------------
(***************************************************************************)
(* The settings page (pages/Settings.tsx), its two sections taken as one   *)
(* text each, and the pages that only read: the keys (ConfigProfiles.tsx), *)
(* the devices (HWIDInspector.tsx), the logs (ConnectionLogs.tsx) and the  *)
(* dashboard (Home.tsx), which a timer reads again every five seconds.     *)
(***************************************************************************)
EXTENDS AdminCore

CONSTANT MaxLabels  \* bound: label timers pending

ASSUME SettingsAssumption == MaxLabels \in Nat \ {0}

\* What a section's inputs hold before the stored settings arrive.
DefaultText(s) == IF s = "bot" THEN "empty" ELSE "default"

FreshSettings ==
  [inputs |-> [s \in Sections |-> DefaultText(s)], touched |-> {}, saved |-> FALSE,
   labels |-> 0]

\* The two sections' inputs.
BotSection(s)    == s.inputs["bot"]
ServerSection(s) == s.inputs["server"]

TypeSetting(s) ==
  Local([st EXCEPT !.inputs[s] = "typed", !.touched = @ \cup {s}])

\* A section's inputs are sent as they are, loaded or not.
SaveSection(s) ==
  Submit(st, Request("save", s, IF s = "bot" THEN BotSection(st) ELSE ServerSection(st)), {})

\* The stored settings arrive.  The inputs have them as defaultValue only: an input the
\* admin has touched keeps its text, and React lets another one follow its new default
\* only if it has set no value of its own before.
Loaded(s, data, follow) ==
  [s EXCEPT !.inputs = [x \in Sections |-> IF x \in follow \ s.touched THEN data[x] ELSE @[x]]]

\* The label "saved", whatever the answer's status, and the timer that takes it away.
SettingsThen(s) ==
  After([s EXCEPT !.saved = TRUE, !.labels = Min({MaxLabels, @ + 1})], <<>>)

\* The label under the page's title.
SettingsView(s) == [label |-> s.saved]

SavedTimer ==
  /\ st.labels > 0
  /\ Local([st EXCEPT !.labels = @ - 1, !.saved = FALSE])

SettingsAction ==
  /\ On("settings")
  /\ \/ SavedTimer
     \/ \E s \in Sections : TypeSetting(s) \/ SaveSection(s)

-----------------------------------------------------------------------------
(* Keys.                                                                   *)

FreshProfiles == [clients |-> <<>>, copied |-> None, labels |-> 0]

ProfilesView(s) == [rows |-> DOMAIN s.clients, label |-> s.copied]

CopyKey(c) ==
  /\ c \in ProfilesView(st).rows /\ st.labels < MaxLabels
  /\ Local([st EXCEPT !.copied = c, !.labels = @ + 1])

\* A timer takes away the label that is shown by then, its own or a later one.
CopiedTimer ==
  /\ st.labels > 0
  /\ Local([st EXCEPT !.labels = @ - 1, !.copied = None])

ProfilesAction ==
  /\ On("profiles")
  /\ \/ \E c \in 1..MaxClients : CopyKey(c)
     \/ CopiedTimer

-----------------------------------------------------------------------------
(* Devices, logs and the dashboard.                                        *)

FreshDevices == [clients |-> <<>>]

DevicesView(s) ==
  LET safe == {c \in DOMAIN s.clients : s.clients[c].status = "online"}
  IN  [total |-> Cardinality(DOMAIN s.clients), safe |-> Cardinality(safe),
       suspicious |-> Cardinality(DOMAIN s.clients) - Cardinality(safe)]

\* The log page makes up two lines for every client it reads, at least eight, the third
\* one an error and the fifth a warning; a read that fails leaves none.  The clients come
\* in whatever order the answer has them.
FreshLogs == [logs |-> <<>>]

GenerateLogs(data) ==
  LET ids == SetToSeq(DOMAIN data)
      n == Len(ids)
  IN  [logs |-> [i \in 1..Max({2 * n, 8}) |->
         [client |-> IF n = 0 THEN None ELSE ids[((i - 1) % n) + 1],
          status |-> CASE i = 3 -> "error" [] i = 5 -> "warning" [] OTHER -> "success"]]]

\* The table's lines about a client.
LogsView(s, c) == {i \in DOMAIN s.logs : s.logs[i].client = c}

\* The pages with a button that reads the clients again.
RefreshClients ==
  /\ authed /\ page \in {"profiles", "devices", "logs"}
  /\ Fetch(<<Get("clients")>>)

FreshHome == [dash |-> None, sys |-> None, clients |-> <<>>, traffic |-> None, chart |-> None]

\* The counters come from one request and the table of clients from another, what the
\* machine and its traffic are like from three more.
Counters(s) ==
  IF s.dash = None THEN [total |-> 0, enabled |-> 0, disabled |-> 0]
  ELSE [total |-> s.dash.totalClients, enabled |-> s.dash.enabledClients,
        disabled |-> s.dash.disabledClients]

\* The numbers under the title are not shown before there are any; the cards show a dash
\* or a zero, the chart a note that there are no data.
HomeHeader(s)     == IF s.dash = None THEN None ELSE Counters(s).total
SystemCards(s)    == IF s.sys = None THEN "dash" ELSE s.sys
BandwidthCards(s) == IF s.traffic = None THEN "zero" ELSE s.traffic
TrafficChart(s)   == IF s.chart = None THEN "note" ELSE s.chart
PieChart(s)       == <<Counters(s).enabled, Counters(s).disabled>>
ClientTable(s)    == DOMAIN s.clients

HomeReads == <<Get("dash"), Get("sys"), Get("clients"), Get("traffic"), Get("chart")>>

FetchData == On("home") /\ Fetch(HomeReads)
=============================================================================
