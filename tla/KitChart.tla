------------------------------ MODULE KitChart ------------------------------
(***************************************************************************)
(* The chart's tooltip (components/ui/chart.tsx) over the library          *)
(* recharts, which says what is under the pointer: how a series finds its  *)
(* entry in the page's config, and where the tooltip's heading is shown.   *)
(* Colours and the legend, which keeps nothing, are left out.              *)
(***************************************************************************)
EXTENDS KitCore, TLC

CONSTANTS
  Keys,         \* the texts that name series, and fields of a data row
  Payloads      \* what may be under the pointer: sequences of items

VARIABLE
  chart         \* the chart, or Absent

\* A series at a point: its key, its name, the texts of the data row at that point.
Items == [dataKey : Keys, name : Keys \cup {Absent},
          row : {<<>>} \cup {k :> t : k \in Keys, t \in Keys}]

ASSUME ChartAssumption == \A p \in Payloads : p \in Seq(Items)

\* Texts on the screen: a name as it is, or the label of a config entry.
Text(k)  == <<"text", k>>
Label(k) == <<"label", k>>

\* The page's config: the keys with an entry, TRUE for those with a label.
Configs == UNION {[D -> BOOLEAN] : D \in SUBSET Keys}

EntryLabel(config, k) == IF k \in DOMAIN config /\ config[k] THEN Label(k) ELSE Absent

\* The texts of an item itself.
Own(item) ==
  ("dataKey" :> item.dataKey) @@ (IF item.name = Absent THEN <<>> ELSE "name" :> item.name)

\* The key of the entry for name, if there is one: what the item, or else its data row, has
\* under that name is the key to look for, with the name itself to fall back on.
GetPayloadConfigFromPayload(config, item, name) ==
  LET texts == Own(item) @@ item.row
      k == IF name \in DOMAIN texts THEN texts[name] ELSE name
  IN  IF k \in DOMAIN config THEN k ELSE name

\* The heading, computed from the first item.
TooltipLabel(c) ==
  LET item == Head(c.payload)
      name == Or(c.labelKey, item.dataKey)
      entry == GetPayloadConfigFromPayload(c.config, item, name)
      value == IF c.labelKey # Absent \/ c.label = Absent THEN EntryLabel(c.config, entry)
               ELSE Or(EntryLabel(c.config, c.label), Text(c.label))
  IN  IF c.hideLabel \/ c.payload = <<>> THEN Absent
      ELSE IF c.labelFormatter THEN Text("formatted") ELSE value

\* What the heading is remembered for.
LabelDeps(c) == <<c.label, c.payload, c.config, c.labelKey>>

(* Mutant of Memo: the heading is remembered whatever the label. *)
MemoNoLabel(c) ==
  IF <<c.payload, c.config, c.labelKey>> = <<c.deps[2], c.deps[3], c.deps[4]>> THEN c
  ELSE [c EXCEPT !.memo = TooltipLabel(c), !.deps = LabelDeps(c)]

\* useMemo.
Memo(c) ==
  IF LabelDeps(c) = c.deps THEN c
  ELSE [c EXCEPT !.memo = TooltipLabel(c), !.deps = LabelDeps(c)]

NestLabel(c) == Len(c.payload) = 1 /\ c.indicator # "dot"

\* The label a line of the tooltip has for a series, and its name if there is none.
SeriesLabel(c, item) ==
  EntryLabel(c.config, GetPayloadConfigFromPayload(c.config, item,
                         Or(c.nameKey, Or(item.name, item.dataKey))))

\* A line: the page's formatter does it all for a series with a name.
TooltipRow(c, item) ==
  IF c.formatter /\ item.name # Absent
  THEN [text |-> Text("formatted"), heading |-> Absent]
  ELSE [text |-> Or(SeriesLabel(c, item), IF item.name = Absent THEN Absent ELSE Text(item.name)),
        heading |-> IF NestLabel(c) THEN c.memo ELSE Absent]

\* Nothing unless the pointer is over some series.
ChartTooltipContent(c) ==
  IF ~c.active \/ c.payload = <<>> THEN Absent
  ELSE [heading |-> IF NestLabel(c) THEN Absent ELSE c.memo,
        rows |-> [i \in DOMAIN c.payload |-> TooltipRow(c, c.payload[i])]]

-----------------------------------------------------------------------------
\* The page's choices, and the first render, with nothing under the pointer.
FreshChart(config, indicator, nameKey, labelKey, style) ==
  [config |-> config, indicator |-> indicator, nameKey |-> nameKey, labelKey |-> labelKey,
   formatter |-> style = "formatter", labelFormatter |-> style = "labelFormatter",
   hideLabel |-> style = "hideLabel", active |-> FALSE, payload |-> <<>>, label |-> Absent,
   memo |-> Absent, deps |-> <<Absent, <<>>, config, labelKey>>]

Charts ==
  {FreshChart(c, i, n, l, s) :
     c \in Configs, i \in {"dot", "line"}, n \in {Absent, "name"} \cup Keys,
     l \in {Absent} \cup Keys, s \in {"plain", "formatter", "labelFormatter", "hideLabel"}}

\* The pointer moves over the point with label l (a number when Absent) and these series.
Hover(payload, l) ==
  chart' = Memo([chart EXCEPT !.active = TRUE, !.payload = payload, !.label = l])

Leave == chart.active /\ chart' = [chart EXCEPT !.active = FALSE]

\* The page renders with another config.
Reconfigure(config) ==
  config # chart.config /\ chart' = Memo([chart EXCEPT !.config = config])

ChartAction ==
  /\ chart # Absent
  /\ \/ \E p \in Payloads, l \in {Absent} \cup Keys : Hover(p, l)
     \/ Leave
     \/ \E c \in Configs : Reconfigure(c)
=============================================================================
