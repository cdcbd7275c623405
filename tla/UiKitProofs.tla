---------------------------- MODULE UiKitProofs ----------------------------
(***************************************************************************)
(* What holds of the component kit on every page that uses it: for every   *)
(* number of resizes and slides, every set of fields, keys and payloads,   *)
(* and every layout of overlays.                                           *)
(***************************************************************************)
EXTENDS UiKit, TLAPS

-----------------------------------------------------------------------------
(* Sidebar and search box.                                                 *)

SidebarType ==
  [use : Uses, collapsible : Collapsible, narrow : BOOLEAN, resizes : Nat,
   inner : BOOLEAN, openProp : BOOLEAN, isMobile : BOOLEAN \cup {Absent},
   openMobile : BOOLEAN, cookie : BOOLEAN \cup {Absent},
   shown : [open : BOOLEAN, isMobile : BOOLEAN, openMobile : BOOLEAN],
   effects : BOOLEAN, listener : {Absent} \cup [open : BOOLEAN, isMobile : BOOLEAN]]

\* With no effect outstanding the listener was made in the last render.
SidebarOK ==
  sb = Absent \/ (sb \in SidebarType /\ (~sb.effects => sb.listener = Deps(sb.shown)))

BoxType == [open : BOOLEAN, shown : BOOLEAN, effects : BOOLEAN, listener : BOOLEAN \cup {Absent}]

BoxOK == box = Absent \/ (box \in BoxType /\ (~box.effects => box.listener = box.shown))

\* The first render's effects, which make the listeners, are outstanding at the start.
LEMMA InitSidebar == KitInit => SidebarOK /\ BoxOK
<1>1. Sidebars \subseteq SidebarType
  <2>1. ASSUME NEW u \in Uses, NEW c \in Collapsible, NEW n \in BOOLEAN
        PROVE  FreshSidebar(u, c, n) \in SidebarType
    BY DEF FreshSidebar, SidebarType
  <2> QED
    BY <2>1 DEF Sidebars
<1>2. \A s \in Sidebars : s.effects
  BY DEF Sidebars, FreshSidebar
<1>3. FreshBox \in BoxType /\ FreshBox.effects
  BY DEF FreshBox, BoxType
<1> QED
  BY <1>1, <1>2, <1>3 DEF KitInit, Page, SidebarOK, BoxOK

\* What the components are given is of its type.
LEMMA ContextType ==
  ASSUME NEW s \in SidebarType
  PROVE  ContextValue(s) \in [open : BOOLEAN, isMobile : BOOLEAN, openMobile : BOOLEAN]
<1>1. Open(s) \in BOOLEAN
  BY DEF Open, SidebarType
<1>2. UseIsMobile(s) \in BOOLEAN
  BY DEF UseIsMobile
<1> QED
  BY <1>1, <1>2 DEF ContextValue, SidebarType

\* Toggling touches neither the last render nor the listener.
LEMMA ToggleType ==
  ASSUME NEW s \in SidebarType, NEW c, c.open \in BOOLEAN, c.isMobile \in BOOLEAN
  PROVE  /\ ToggleSidebar(s, c) \in SidebarType
         /\ ToggleSidebar(s, c).shown = s.shown /\ ToggleSidebar(s, c).effects = s.effects
         /\ ToggleSidebar(s, c).listener = s.listener
<1>1. SetOpen(s, ~c.open) \in SidebarType
  <2>1. ASSUME NEW b \in BOOLEAN, NEW o \in BOOLEAN
        PROVE  [s EXCEPT !.inner = b, !.cookie = o] \in SidebarType
    BY DEF SidebarType
  <2>2. (IF s.use \in {"parent", "callback"} THEN s.inner ELSE ~c.open) \in BOOLEAN
    BY DEF SidebarType
  <2>3. (~c.open) \in BOOLEAN
    OBVIOUS
  <2> QED
    BY <2>1, <2>2, <2>3 DEF SetOpen
<1>2. [s EXCEPT !.openMobile = ~@] \in SidebarType
  <2>1. ASSUME NEW b \in BOOLEAN PROVE [s EXCEPT !.openMobile = b] \in SidebarType
    BY DEF SidebarType
  <2>2. (~s.openMobile) \in BOOLEAN
    OBVIOUS
  <2> QED
    BY <2>1, <2>2
<1> QED
  BY <1>1, <1>2 DEF ToggleSidebar, SetOpen, SidebarType

\* The sidebar's actions keep its invariant.
LEMMA SidebarStep == ASSUME SidebarOK, SidebarAction PROVE SidebarOK'
<1> sb \in SidebarType /\ (~sb.effects => sb.listener = Deps(sb.shown))
  BY DEF SidebarOK, SidebarAction
<1> SUFFICES sb' \in SidebarType /\ (~sb'.effects => sb'.listener = Deps(sb'.shown))
  BY DEF SidebarOK
<1>1. CASE Press
  <2>1. sb.shown.open \in BOOLEAN /\ sb.shown.isMobile \in BOOLEAN
    BY DEF SidebarType
  <2> QED
    BY <1>1, <2>1, ToggleType DEF Press
<1>2. CASE HandleKeyDown
  <2>1. sb.listener.open \in BOOLEAN /\ sb.listener.isMobile \in BOOLEAN
    BY <1>2 DEF HandleKeyDown, SidebarType
  <2> QED
    BY <1>2, <2>1, ToggleType DEF HandleKeyDown
<1>3. CASE CloseSheet
  BY <1>3 DEF CloseSheet, SidebarType
<1>4. CASE Resize
  <2>1. (~sb.narrow) \in BOOLEAN /\ sb.resizes + 1 \in Nat
    BY DEF SidebarType
  <2> QED
    BY <1>4, <2>1 DEF Resize, SidebarType
<1>5. CASE OnChange
  BY <1>5 DEF OnChange, SidebarType
<1>6. CASE Render
  BY <1>6, ContextType DEF Render, SidebarType
<1>7. CASE Effects
  <2>1. Deps(sb.shown) \in [open : BOOLEAN, isMobile : BOOLEAN]
    BY DEF Deps, SidebarType
  <2> QED
    BY <1>7, <2>1 DEF Effects, SidebarType
<1>8. ASSUME NEW open \in BOOLEAN, ParentSets(open)
      PROVE  sb' \in SidebarType /\ (~sb'.effects => sb'.listener = Deps(sb'.shown))
  BY <1>8 DEF ParentSets, SidebarType
<1> QED
  BY <1>1, <1>2, <1>3, <1>4, <1>5, <1>6, <1>7, <1>8 DEF SidebarAction

\* So do the search box's.
LEMMA BoxStep == ASSUME BoxOK, SearchAction PROVE BoxOK'
<1> box \in BoxType /\ (~box.effects => box.listener = box.shown)
  BY DEF BoxOK, SearchAction
<1> SUFFICES box' \in BoxType /\ (~box'.effects => box'.listener = box'.shown)
  BY DEF BoxOK
<1>1. CASE HeaderSearch
  BY <1>1 DEF HeaderSearch, BoxType
<1>2. CASE CloseSearch
  BY <1>2 DEF CloseSearch, BoxType
<1>3. CASE SearchKey
  <2>1. (~box.listener) \in BOOLEAN
    OBVIOUS
  <2> QED
    BY <1>3, <2>1 DEF SearchKey, BoxType
<1>4. CASE RenderSearch
  BY <1>4 DEF RenderSearch, BoxType
<1>5. CASE SearchEffect
  BY <1>5 DEF SearchEffect, BoxType
<1> QED
  BY <1>1, <1>2, <1>3, <1>4, <1>5 DEF SearchAction

\* A step of the page is a step of one component and leaves the others alone.
LEMMA NextSidebar == ASSUME SidebarOK, BoxOK, [KitNext]_kitVars PROVE SidebarOK' /\ BoxOK'
<1>1. CASE SidebarAction /\ UNCHANGED NotSidebar
  BY <1>1, SidebarStep DEF NotSidebar, BoxOK
<1>2. CASE SearchAction /\ UNCHANGED NotBox
  BY <1>2, BoxStep DEF NotBox, SidebarOK
<1>3. CASE UNCHANGED <<sb, box>>
  BY <1>3 DEF SidebarOK, BoxOK
<1> QED
  BY <1>1, <1>2, <1>3
  DEF KitNext, kitVars, NotCarousel, NotForm, NotChart, NotOverlays

\* However often the window is resized and whatever is pressed between a change, its render
\* and its effect: once these are done the shortcut's listener does what the buttons do.
THEOREM ShortcutsAgreeAlways == KitSpec => []ShortcutAgrees
<1>1. SidebarOK /\ BoxOK => ShortcutAgrees
  BY DEF SidebarOK, BoxOK, ShortcutAgrees, ToggleSidebar, Deps
<1> QED
  BY <1>1, InitSidebar, NextSidebar, PTL DEF KitSpec

-----------------------------------------------------------------------------
(* Carousel.                                                               *)

CarouselType ==
  [children : Nat, loop : BOOLEAN, api : BOOLEAN, slides : Nat, pos : Int,
   on : {{}, {"reInit", "select"}}, can : [prev : BOOLEAN, next : BOOLEAN]]

\* The carousel listens to an embla that is there, and from then on the buttons agree.
CarouselOK ==
  car = Absent \/ (/\ car \in CarouselType /\ (~car.api => car.on = {})
                   /\ car.on # {} => car.can = CanScroll(car))

\* An event of embla that the carousel may listen to brings the buttons up to date.
LEMMA EmitType ==
  ASSUME NEW c \in CarouselType, NEW e \in {"reInit", "select"}
  PROVE  /\ Emit(c, e) \in CarouselType
         /\ Emit(c, e).on = c.on /\ Emit(c, e).api = c.api
         /\ c.on # {} => Emit(c, e).can = CanScroll(Emit(c, e))
<1>1. CanScroll(c) \in [prev : BOOLEAN, next : BOOLEAN]
  BY DEF CanScroll
<1>2. OnSelect(c) \in CarouselType /\ OnSelect(c).on = c.on /\ OnSelect(c).api = c.api
  BY <1>1 DEF OnSelect, CarouselType
<1>3. OnSelect(c).can = CanScroll(OnSelect(c))
  <2>1. /\ OnSelect(c).slides = c.slides /\ OnSelect(c).loop = c.loop
        /\ OnSelect(c).pos = c.pos /\ OnSelect(c).can = CanScroll(c)
    BY DEF OnSelect, CarouselType
  <2> QED
    BY <2>1 DEF CanScroll
<1>4. c.on # {} => e \in c.on
  BY DEF CarouselType
<1> QED
  BY <1>2, <1>3, <1>4 DEF Emit

\* embla moves to another slide, or to none.
LEMMA ScrollOK ==
  ASSUME CarouselOK, car # Absent, car.api, NEW p \in Int, ScrollTo(p)
  PROVE  CarouselOK'
<1>1. [car EXCEPT !.pos = p] \in CarouselType /\ [car EXCEPT !.pos = p].on = car.on
      /\ [car EXCEPT !.pos = p].api
  BY DEF CarouselOK, CarouselType
<1>2. CASE p = car.pos
  BY <1>2 DEF ScrollTo, CarouselOK, CanScroll
<1>3. CASE p # car.pos
  <2>1. car' = Emit([car EXCEPT !.pos = p], "select")
    BY <1>3 DEF ScrollTo
  <2> QED
    BY <1>1, <2>1, EmitType DEF CarouselOK
<1> QED
  BY <1>2, <1>3

\* The carousel's actions keep its invariant.
LEMMA CarouselStep == ASSUME CarouselOK, CarouselAction PROVE CarouselOK'
<1> /\ car \in CarouselType /\ (~car.api => car.on = {})
    /\ car.on # {} => car.can = CanScroll(car)
    /\ car # Absent
  BY DEF CarouselOK, CarouselAction
<1>1. CASE CreateApi
  <2>1. car' \in CarouselType /\ car'.on = {}
    BY <1>1 DEF CreateApi, CarouselType
  <2> QED
    BY <2>1 DEF CarouselOK
<1>2. CASE Subscribe
  <2>1. /\ OnSelect(car) \in CarouselType /\ OnSelect(car).can = CanScroll(OnSelect(car))
        /\ OnSelect(car).api
    <3>1. CanScroll(car) \in [prev : BOOLEAN, next : BOOLEAN]
      BY DEF CanScroll
    <3>2. /\ OnSelect(car) \in CarouselType
          /\ OnSelect(car).slides = car.slides /\ OnSelect(car).loop = car.loop
          /\ OnSelect(car).pos = car.pos /\ OnSelect(car).can = CanScroll(car)
          /\ OnSelect(car).api = car.api
      BY <3>1 DEF OnSelect, CarouselType
    <3> QED
      BY <1>2, <3>2 DEF Subscribe, CanScroll
  <2>2. /\ car' \in CarouselType /\ car'.api
        /\ car'.slides = OnSelect(car).slides /\ car'.loop = OnSelect(car).loop
        /\ car'.pos = OnSelect(car).pos /\ car'.can = OnSelect(car).can
    BY <1>2, <2>1 DEF Subscribe, CarouselType
  <2> QED
    BY <2>1, <2>2 DEF CarouselOK, CanScroll
<1>3. ASSUME ScrollPrev PROVE CarouselOK'
  <2>1. car.pos - 1 \in Int /\ car.slides - 1 \in Int /\ 0 \in Int
    BY DEF CarouselType
  <2> QED
    BY <1>3, <2>1, ScrollOK DEF ScrollPrev
<1>4. ASSUME ScrollNext PROVE CarouselOK'
  <2>1. car.pos + 1 \in Int /\ car.pos \in Int /\ 0 \in Int
    BY DEF CarouselType
  <2> QED
    BY <1>4, <2>1, ScrollOK DEF ScrollNext
<1>5. CASE ReInit
  <2> DEFINE p == IF car.pos > car.children - 1 THEN car.children - 1 ELSE car.pos
             c == [car EXCEPT !.slides = car.children, !.pos = p]
  <2>1. car' = Emit(c, "reInit") /\ car.api
    BY <1>5 DEF ReInit
  <2>2. p \in Int
    BY DEF CarouselType
  <2> HIDE DEF p
  <2>3. c \in CarouselType /\ c.on = car.on /\ c.api = car.api
    BY <2>2 DEF CarouselType
  <2> HIDE DEF c
  <2> QED
    BY <2>1, <2>3, EmitType DEF CarouselOK
<1>6. ASSUME NEW n \in 1..MaxSlides, NewChildren(n) PROVE CarouselOK'
  <2>1. /\ car' \in CarouselType /\ car'.api = car.api /\ car'.on = car.on
        /\ car'.slides = car.slides /\ car'.loop = car.loop
        /\ car'.pos = car.pos /\ car'.can = car.can
    BY <1>6, PartsAssumption DEF NewChildren, CarouselType
  <2> QED
    BY <2>1 DEF CarouselOK, CanScroll
<1>7. ASSUME NEW n \in 1..MaxSlides, Drag(n - 1) PROVE CarouselOK'
  <2>1. n - 1 \in Int
    BY PartsAssumption
  <2> QED
    BY <1>7, <2>1, ScrollOK DEF Drag
<1> QED
  BY <1>1, <1>2, <1>3, <1>4, <1>5, <1>6, <1>7
  DEF CarouselAction, CarouselPrevious, CarouselNext, ArrowKey

\* Whatever the number of slides, and though embla hears of new ones late: once the carousel
\* listens, each button is enabled exactly when embla can scroll that way.
THEOREM ButtonsMatchAlways == KitSpec => []ButtonsMatch
<1>1. KitInit => CarouselOK
  <2>1. ASSUME NEW n \in 1..MaxSlides, NEW l \in BOOLEAN
        PROVE  FreshCarousel(n, l) \in CarouselType /\ FreshCarousel(n, l).on = {}
    BY <2>1, PartsAssumption DEF FreshCarousel, CarouselType
  <2> QED
    BY <2>1 DEF KitInit, Page, Carousels, CarouselOK
<1>2. CarouselOK /\ [KitNext]_kitVars => CarouselOK'
  <2>1. CASE CarouselAction
    BY <2>1, CarouselStep
  <2>2. CASE UNCHANGED car
    BY <2>2 DEF CarouselOK, CanScroll
  <2> QED
    BY <2>1, <2>2
    DEF KitNext, kitVars, NotSidebar, NotForm, NotBox, NotChart, NotOverlays
<1>3. CarouselOK => ButtonsMatch
  BY DEF CarouselOK, ButtonsMatch
<1> QED
  BY <1>1, <1>2, <1>3, PTL DEF KitSpec

-----------------------------------------------------------------------------
(* Form.                                                                   *)

FormOK ==
  form = Absent \/
  form \in [items : SUBSET Fields, described : SUBSET Fields, hinted : SUBSET Fields,
           error : [Fields -> Errors]]

\* Whatever fields a form has, whichever are described and whatever is found wrong with
\* them: every error text is announced with the control it is about and with no other.
THEOREM ErrorsAnnouncedAlways == KitSpec => []ErrorsAnnounced
<1>1. KitInit => FormOK
  <2>1. [f \in Fields |-> "none"] \in [Fields -> Errors]
    BY DEF Errors
  <2> QED
    BY <2>1 DEF KitInit, Page, Forms, FreshForm, FormOK
<1>2. FormOK /\ [KitNext]_kitVars => FormOK'
  <2>1. ASSUME FormOK, FormAction PROVE FormOK'
    BY <2>1 DEF FormOK, FormAction, Validate, Mend, Errors
  <2>2. CASE UNCHANGED form
    BY <2>2 DEF FormOK
  <2> QED
    BY <2>1, <2>2
    DEF KitNext, kitVars, NotSidebar, NotCarousel, NotBox, NotChart, NotOverlays
<1>3. FormOK => ErrorsAnnounced
  <2> SUFFICES ASSUME FormOK, form # Absent, form.items = Fields, NEW f \in Fields, NEW g \in Fields
               PROVE  /\ FormLabel(f).htmlFor = FormControl(g).id <=> f = g
                      /\ (FormMessage(f) # {} /\ FormMessage(f) \subseteq FormControl(g).describedBy)
                           <=> (f = g /\ form.error[f] = "text")
                      /\ FormMessage(f) \cap FormDescription(g) = {}
    BY DEF ErrorsAnnounced
  <2>1. FormItem(f) = f /\ FormItem(g) = g
    BY DEF FormItem
  <2>3. FormLabel(f).htmlFor = <<f, "item">> /\ FormControl(g).id = <<g, "item">>
    BY <2>1 DEF FormLabel, FormControl, UseFormField
  <2>4. /\ FormMessage(f) = IF HasBody(f) THEN {<<f, "message">>} ELSE {}
        /\ form.error[f] = "text" => HasBody(f)
        /\ HasBody(f) => form.error[f] \in {"text", "none"}
    BY <2>1 DEF FormMessage, UseFormField, HasBody
  <2>5. FormControl(g).describedBy = IF form.error[g] = "none" THEN {<<g, "description">>}
                                     ELSE {<<g, "description">>, <<g, "message">>}
    BY <2>1 DEF FormControl, UseFormField
  <2>6. FormDescription(g) \subseteq {<<g, "description">>}
    BY <2>1 DEF FormDescription, UseFormField
  <2>7. FormLabel(f).htmlFor = FormControl(g).id <=> f = g
    BY <2>3
  <2>8. FormMessage(f) \cap FormDescription(g) = {}
    BY <2>4, <2>6
  <2>9. (FormMessage(f) # {} /\ FormMessage(f) \subseteq FormControl(g).describedBy)
          <=> (f = g /\ form.error[f] = "text")
    <3>1. <<f, "message">> # <<g, "description">>
      OBVIOUS
    <3>2. <<f, "message">> = <<g, "message">> <=> f = g
      OBVIOUS
    <3>3. CASE f = g /\ form.error[f] = "text"
      BY <2>4, <2>5, <3>3
    <3>4. CASE f = g /\ form.error[f] # "text"
      BY <2>4, <2>5, <3>1, <3>4
    <3>5. CASE f # g
      BY <2>4, <2>5, <3>1, <3>2, <3>5
    <3> QED
      BY <3>3, <3>4, <3>5
  <2> QED
    BY <2>7, <2>8, <2>9
<1> QED
  BY <1>1, <1>2, <1>3, PTL DEF KitSpec

-----------------------------------------------------------------------------
(* Chart.                                                                  *)

\* A chart has these fields, and the heading it remembers is the one for what it shows.
ChartFields ==
  {"config", "indicator", "nameKey", "labelKey", "formatter", "labelFormatter", "hideLabel",
   "active", "payload", "label", "memo", "deps"}

IsChart(c) == c = [x \in ChartFields |-> c[x]] /\ c.payload \in Seq(Items)

ChartOK ==
  chart = Absent \/ (/\ IsChart(chart)
                     /\ chart.deps = LabelDeps(chart) /\ chart.memo = TooltipLabel(chart))

\* What useMemo leaves is up to date, when what it has was for the deps it has.
LEMMA MemoOK ==
  ASSUME NEW c, IsChart(c),
         NEW d, d.deps = LabelDeps(d), d.memo = TooltipLabel(d),
         c.deps = d.deps, c.memo = d.memo,
         c.hideLabel = d.hideLabel, c.labelFormatter = d.labelFormatter
  PROVE  IsChart(Memo(c)) /\ Memo(c).deps = LabelDeps(Memo(c)) /\ Memo(c).memo = TooltipLabel(Memo(c))
<1>1. CASE LabelDeps(c) = c.deps
  <2>1. c.label = d.label /\ c.payload = d.payload /\ c.config = d.config /\ c.labelKey = d.labelKey
    BY <1>1 DEF LabelDeps
  <2>2. TooltipLabel(c) = TooltipLabel(d)
    BY <2>1 DEF TooltipLabel
  <2> QED
    BY <1>1, <2>2 DEF Memo
<1>2. CASE LabelDeps(c) # c.deps
  <2> DEFINE n == [c EXCEPT !.memo = TooltipLabel(c), !.deps = LabelDeps(c)]
  <2>1. Memo(c) = n
    BY <1>2 DEF Memo
  <2>2. DOMAIN c = ChartFields
    BY DEF IsChart
  <2>3. /\ n.label = c.label /\ n.payload = c.payload /\ n.config = c.config
        /\ n.labelKey = c.labelKey /\ n.hideLabel = c.hideLabel
        /\ n.labelFormatter = c.labelFormatter
        /\ n.memo = TooltipLabel(c) /\ n.deps = LabelDeps(c)
    BY <2>2 DEF ChartFields
  <2>4. IsChart(n)
    BY <2>2, <2>3 DEF IsChart
  <2>5. TooltipLabel(n) = TooltipLabel(c) /\ LabelDeps(n) = LabelDeps(c)
    BY <2>3 DEF TooltipLabel, LabelDeps
  <2> QED
    BY <2>1, <2>3, <2>4, <2>5
<1> QED
  BY <1>1, <1>2

\* A chart that changes what it shows is a chart still.
LEMMA ChartStep == ASSUME ChartOK, ChartAction PROVE ChartOK'
<1> USE DEF ChartFields
<1>1. /\ IsChart(chart) /\ DOMAIN chart = ChartFields
      /\ chart.deps = LabelDeps(chart) /\ chart.memo = TooltipLabel(chart)
  BY DEF ChartOK, ChartAction, IsChart
<1>2. ASSUME NEW p \in Payloads, NEW l, Hover(p, l) PROVE ChartOK'
  <2> DEFINE c == [chart EXCEPT !.active = TRUE, !.payload = p, !.label = l]
  <2>1. /\ c.payload = p /\ c.deps = chart.deps /\ c.memo = chart.memo
        /\ c.hideLabel = chart.hideLabel /\ c.labelFormatter = chart.labelFormatter
        /\ DOMAIN c = ChartFields
    BY <1>1
  <2>2. IsChart(c)
    BY <2>1, ChartAssumption DEF IsChart
  <2>3. chart' = Memo(c)
    BY <1>2 DEF Hover
  <2> HIDE DEF c
  <2> QED
    BY <1>1, <2>1, <2>2, <2>3, MemoOK DEF ChartOK
<1>3. CASE Leave
  <2>1. /\ chart'.payload = chart.payload /\ chart'.label = chart.label
        /\ chart'.config = chart.config /\ chart'.labelKey = chart.labelKey
        /\ chart'.hideLabel = chart.hideLabel /\ chart'.labelFormatter = chart.labelFormatter
        /\ chart'.deps = chart.deps /\ chart'.memo = chart.memo /\ DOMAIN chart' = ChartFields
    BY <1>1, <1>3 DEF Leave
  <2>2. IsChart(chart')
    BY <1>1, <1>3, <2>1 DEF IsChart, Leave
  <2>3. LabelDeps(chart') = LabelDeps(chart) /\ TooltipLabel(chart') = TooltipLabel(chart)
    BY <2>1 DEF LabelDeps, TooltipLabel
  <2> QED
    BY <1>1, <2>1, <2>2, <2>3 DEF ChartOK
<1>4. ASSUME NEW g \in Configs, Reconfigure(g) PROVE ChartOK'
  <2> DEFINE c == [chart EXCEPT !.config = g]
  <2>1. /\ c.payload = chart.payload /\ c.deps = chart.deps /\ c.memo = chart.memo
        /\ c.hideLabel = chart.hideLabel /\ c.labelFormatter = chart.labelFormatter
        /\ DOMAIN c = ChartFields
    BY <1>1
  <2>2. IsChart(c)
    BY <1>1, <2>1 DEF IsChart
  <2>3. chart' = Memo(c)
    BY <1>4 DEF Reconfigure
  <2> HIDE DEF c
  <2> QED
    BY <1>1, <2>1, <2>2, <2>3, MemoOK DEF ChartOK
<1> QED
  BY <1>2, <1>3, <1>4 DEF ChartAction

\* The chart's invariant holds on every page.
LEMMA ChartAlways == KitSpec => []ChartOK
<1>1. KitInit => ChartOK
  <2>1. ASSUME NEW g, NEW i, NEW n, NEW l, NEW s
        PROVE  LET c == FreshChart(g, i, n, l, s)
               IN  IsChart(c) /\ c.deps = LabelDeps(c) /\ c.memo = TooltipLabel(c)
    <3> DEFINE c == FreshChart(g, i, n, l, s)
    <3>1. /\ c.payload = <<>> /\ c.deps = LabelDeps(c) /\ c.memo = Absent
          /\ DOMAIN c = ChartFields
      BY DEF FreshChart, LabelDeps, ChartFields
    <3>2. IsChart(c)
      BY <3>1 DEF FreshChart, IsChart, ChartFields
    <3>3. TooltipLabel(c) = Absent
      BY <3>1 DEF TooltipLabel
    <3> QED
      BY <3>1, <3>2, <3>3
  <2> QED
    BY <2>1 DEF KitInit, Page, Charts, ChartOK
<1>2. ChartOK /\ [KitNext]_kitVars => ChartOK'
  <2>1. CASE ChartAction
    BY <2>1, ChartStep
  <2>2. CASE UNCHANGED chart
    BY <2>2 DEF ChartOK, IsChart, LabelDeps, TooltipLabel
  <2> QED
    BY <2>1, <2>2
    DEF KitNext, kitVars, NotSidebar, NotCarousel, NotForm, NotBox, NotOverlays
<1> QED
  BY <1>1, <1>2, PTL DEF KitSpec

\* For every config, payload and way of using the chart: a tooltip without a formatter shows
\* its heading once, and though useMemo remembers it, the one for what is under the pointer.
THEOREM HeadingOnceAlways == KitSpec => []HeadingOnce
<1>1. ChartOK => HeadingOnce
  <2> SUFFICES ASSUME ChartOK, chart # Absent, ~chart.formatter,
                      ChartTooltipContent(chart) # Absent
               PROVE  HeadingOnce
    BY DEF HeadingOnce
  <2> DEFINE t == ChartTooltipContent(chart)
             h == [i \in {0} \cup DOMAIN t.rows |-> IF i = 0 THEN t.heading ELSE t.rows[i].heading]
             shown == {i \in DOMAIN h : h[i] # Absent}
  <2>1. chart.memo = TooltipLabel(chart) /\ chart.payload \in Seq(Items)
    BY DEF ChartOK, IsChart
  <2>2. /\ t.heading = IF NestLabel(chart) THEN Absent ELSE chart.memo
        /\ DOMAIN t.rows = DOMAIN chart.payload
        /\ \A i \in DOMAIN chart.payload : t.rows[i] = TooltipRow(chart, chart.payload[i])
    BY DEF ChartTooltipContent
  <2>3. \A i \in DOMAIN chart.payload :
          t.rows[i].heading = IF NestLabel(chart) THEN chart.memo ELSE Absent
    <3>1. ASSUME NEW item
          PROVE  TooltipRow(chart, item).heading = IF NestLabel(chart) THEN chart.memo ELSE Absent
      BY DEF TooltipRow
    <3> HIDE DEF t
    <3> QED
      BY <2>2, <3>1
  <2> HIDE DEF t
  <2>4. 0 \notin DOMAIN chart.payload
    BY <2>1
  <2>5. /\ DOMAIN h = {0} \cup DOMAIN chart.payload
        /\ h[0] = IF NestLabel(chart) THEN Absent ELSE chart.memo
        /\ \A i \in DOMAIN chart.payload : h[i] = IF NestLabel(chart) THEN chart.memo ELSE Absent
    BY <2>2, <2>3, <2>4
  <2> HIDE DEF h
  <2>6. IF TooltipLabel(chart) = Absent THEN shown = {}
        ELSE \E i \in DOMAIN h : shown = {i} /\ h[i] = TooltipLabel(chart)
    <3>1. CASE NestLabel(chart)
      <4>1. DOMAIN chart.payload = {1}
        BY <2>1, <3>1 DEF NestLabel
      <4> QED
        BY <2>1, <2>5, <3>1, <4>1
    <3>2. CASE ~NestLabel(chart)
      BY <2>1, <2>5, <3>2
    <3> QED
      BY <3>1, <3>2
  <2> QED
    BY <2>6 DEF HeadingOnce, h, t
<1> QED
  BY <1>1, ChartAlways, PTL

-----------------------------------------------------------------------------
(* Overlays.                                                               *)

\* The open components are in one order, and each came after what it is inside of.
Stack(layout, open, order) ==
  /\ open \subseteq DOMAIN layout /\ order \subseteq open \X open
  /\ \A c \in open : <<c, c>> \notin order
  /\ \A c, d \in open : c = d \/ <<c, d>> \in order \/ <<d, c>> \in order
  /\ \A c, d, e \in open : <<c, d>> \in order /\ <<d, e>> \in order => <<c, e>> \in order
  /\ \A c \in open : layout[c].inside = 0 \/ (layout[c].inside \in open /\ <<layout[c].inside, c>> \in order)

Hows == {"none", "press", "key", "hover", "leave", "escape", "answer", "pick"}

PopType ==
  [at : Layouts, open : SUBSET Nat, order : SUBSET (Nat \X Nat), last : Hows]

PopOK == pop = Absent \/ (pop \in PopType /\ Stack(pop.at, pop.open, pop.order))

\* What is inside a component: itself; what is inside what is inside it; and no more.
LEMMA WithinSelf == ASSUME NEW c \in DOMAIN pop.at PROVE c \in Within(c)
BY DEF Within

LEMMA WithinUp ==
  ASSUME NEW c, NEW n \in DOMAIN pop.at, pop.at[n].inside \in Within(c)
  PROVE  n \in Within(c)
BY DEF Within, HoldsInside

LEMMA WithinDown ==
  ASSUME NEW c \in DOMAIN pop.at, NEW n \in Within(c), n # c
  PROVE  pop.at[n].inside \in Within(c)
<1> SUFFICES ASSUME pop.at[n].inside \notin Within(c) PROVE FALSE
  OBVIOUS
<1> DEFINE S == Within(c) \ {n}
<1>1. S \in SUBSET DOMAIN pop.at
  BY DEF Within
<1>2. c \in S
  BY WithinSelf
<1>3. HoldsInside(S)
  BY WithinUp DEF HoldsInside
<1>4. n \notin S
  OBVIOUS
<1> HIDE DEF S
<1> QED
  BY <1>1, <1>2, <1>3, <1>4 DEF Within

\* What is open inside an open component opened after it.
LEMMA WithinAbove ==
  ASSUME Stack(pop.at, pop.open, pop.order), 0 \notin DOMAIN pop.at,
         NEW c \in pop.open, NEW n \in pop.open, n \in Within(c)
  PROVE  n = c \/ <<c, n>> \in pop.order
<1> DEFINE S == {m \in DOMAIN pop.at : m \notin pop.open \/ m = c \/ <<c, m>> \in pop.order}
<1>1. S \in SUBSET DOMAIN pop.at /\ c \in S
  BY DEF Stack
<1>2. HoldsInside(S)
  <2> SUFFICES ASSUME NEW m \in DOMAIN pop.at, pop.at[m].inside \in S, m \in pop.open
               PROVE  m = c \/ <<c, m>> \in pop.order
    BY DEF HoldsInside
  <2>1. pop.at[m].inside \in pop.open /\ <<pop.at[m].inside, m>> \in pop.order
    BY DEF Stack
  <2> QED
    BY <2>1 DEF Stack
<1>3. n \in S
  <2> HIDE DEF S
  <2> QED
    BY <1>1, <1>2 DEF Within
<1> QED
  BY <1>3

\* What stays open when components close is a stack, with a new one on top too.
LEMMA StaysStack ==
  ASSUME NEW cs, Stack(pop.at, pop.open, pop.order)
  PROVE  Stack(pop.at, Stays(cs), pop.order \cap (Stays(cs) \X Stays(cs)))
<1>1. Stays(cs) \subseteq pop.open
  BY DEF Stays
<1>2. ASSUME NEW n \in Stays(cs), pop.at[n].inside # 0
      PROVE  pop.at[n].inside \in Stays(cs) /\ <<pop.at[n].inside, n>> \in pop.order
  <2>1. n \in DOMAIN pop.at /\ pop.at[n].inside \in pop.open
        /\ <<pop.at[n].inside, n>> \in pop.order
    BY <1>1, <1>2 DEF Stack
  <2>2. ASSUME NEW x \in cs, pop.at[n].inside \in Within(x) PROVE FALSE
    BY <2>1, <2>2, WithinUp DEF Stays
  <2> QED
    BY <2>1, <2>2 DEF Stays
<1> QED
  BY <1>1, <1>2 DEF Stack

LEMMA OpenStack ==
  ASSUME NEW cs, Stack(pop.at, pop.open, pop.order),
         NEW c \in DOMAIN pop.at, c \notin pop.open,
         pop.at[c].inside \in Stays(cs) \cup {0}
  PROVE  Stack(pop.at, Stays(cs) \cup {c},
               (pop.order \cap (Stays(cs) \X Stays(cs))) \cup (Stays(cs) \X {c}))
<1> DEFINE R == Stays(cs)
           o == pop.order \cap (R \X R)
<1>1. Stack(pop.at, R, o) /\ c \notin R
  BY StaysStack DEF Stays
<1> HIDE DEF R, o
<1>2. Stack(pop.at, R \cup {c}, o \cup (R \X {c}))
  <2>1. R \cup {c} \subseteq DOMAIN pop.at
        /\ o \cup (R \X {c}) \subseteq (R \cup {c}) \X (R \cup {c})
    BY <1>1 DEF Stack
  <2>2. \A x \in R \cup {c} : <<c, x>> \notin o \cup (R \X {c})
    BY <1>1 DEF Stack
  <2>3. \A x \in R : <<x, c>> \in o \cup (R \X {c})
    OBVIOUS
  <2>4. \A x, y \in R : <<x, y>> \in o \cup (R \X {c}) <=> <<x, y>> \in o
    BY <1>1
  <2>5. pop.at[c].inside = 0 \/ pop.at[c].inside \in R
    BY DEF R
  <2> DEFINE w == o \cup (R \X {c})
  <2> HIDE DEF w
  <2>6. Stack(pop.at, R \cup {c}, w)
    BY <1>1, <2>1, <2>2, <2>3, <2>4, <2>5 DEF Stack, w
  <2> QED
    BY <2>6 DEF w
<1> QED
  BY <1>2 DEF R, o

\* The page and its layout, for a page with overlays on it.
LEMMA PopFacts ==
  ASSUME PopOK, pop # Absent
  PROVE  /\ pop \in PopType /\ Stack(pop.at, pop.open, pop.order) /\ LayoutOK(pop.at)
         /\ 0 \notin DOMAIN pop.at
<1>1. pop \in PopType /\ Stack(pop.at, pop.open, pop.order)
  BY DEF PopOK
<1>2. LayoutOK(pop.at)
  BY <1>1, OverlaysAssumption DEF PopType
<1>3. DOMAIN pop.at = 1..Len(pop.at) /\ Len(pop.at) \in Nat
  BY <1>2 DEF LayoutOK
<1> QED
  BY <1>1, <1>2, <1>3

\* What the kinds that the properties speak of are made of.
LEMMA Kinds ==
  ASSUME NEW c
  PROVE  /\ pop.at[c].kind \in {"Select", "DropdownMenu", "ContextMenu"} => Primitive(c) = "menu"
         /\ pop.at[c].kind \in {"Dialog", "Sheet", "Drawer", "CommandDialog"}
              => Primitive(c) = "dialog"
BY DEF Primitive, Contents, Content, DialogContent, SheetDialog, CommandDialog,
       DrawerContent, SelectContent, DropdownMenuContent, ContextMenuContent

\* Components close.
LEMMA CloseOK ==
  ASSUME PopOK, pop # Absent, NEW cs, NEW how \in Hows, Close(cs, how)
  PROVE  /\ PopOK' /\ pop'.last = how /\ pop'.open = Stays(cs)
<1>1. pop \in PopType /\ Stack(pop.at, pop.open, pop.order)
  BY PopFacts
<1>2. /\ pop'.at = pop.at /\ pop'.open = Stays(cs) /\ pop'.last = how
      /\ pop'.order = pop.order \cap (Stays(cs) \X Stays(cs))
  BY <1>1 DEF Close, PopType
<1>3. pop' \in PopType
  <2>1. Stays(cs) \in SUBSET Nat
    BY <1>1 DEF Stays, PopType
  <2>2. pop.order \cap (Stays(cs) \X Stays(cs)) \in SUBSET (Nat \X Nat)
    BY <1>1 DEF PopType
  <2> QED
    BY <1>1, <2>1, <2>2 DEF Close, PopType
<1> QED
  BY <1>1, <1>2, <1>3, StaysStack DEF PopOK

\* Components close and one opens.
LEMMA OpenOK ==
  ASSUME PopOK, pop # Absent, NEW cs, NEW how \in Hows,
         NEW c \in DOMAIN pop.at, c \notin pop.open, OpenLayer(c, cs, how),
         pop.at[c].inside \in Stays(cs) \cup {0}
  PROVE  /\ PopOK' /\ pop'.last = how /\ pop'.open = Stays(cs) \cup {c}
<1>1. pop \in PopType /\ Stack(pop.at, pop.open, pop.order)
  BY PopFacts
<1> DEFINE w == (pop.order \cap (Stays(cs) \X Stays(cs))) \cup (Stays(cs) \X {c})
<1>2. /\ pop'.at = pop.at /\ pop'.open = Stays(cs) \cup {c} /\ pop'.last = how
      /\ pop'.order = w
  BY <1>1 DEF OpenLayer, PopType
<1>3. pop' \in PopType
  <2>1. Stays(cs) \cup {c} \in SUBSET Nat
    <3>1. DOMAIN pop.at \subseteq Nat
      BY PopFacts DEF LayoutOK
    <3> QED
      BY <1>1, <3>1 DEF Stays, PopType
  <2>2. w \in SUBSET (Nat \X Nat)
    BY <1>1, <2>1 DEF PopType
  <2>3. pop' = [pop EXCEPT !.open = Stays(cs) \cup {c}, !.order = w, !.last = how]
    BY DEF OpenLayer
  <2> HIDE DEF w
  <2> QED
    BY <1>1, <2>1, <2>2, <2>3 DEF PopType
<1>4. Stack(pop.at, Stays(cs) \cup {c}, w)
  BY <1>1, OpenStack
<1> HIDE DEF w
<1> QED
  BY <1>2, <1>3, <1>4 DEF PopOK

\* What may never happen to the overlays in a step.
MenuStep ==
  pop'.last = "press" /\ Closes({"Select", "DropdownMenu", "ContextMenu"})
    => ~Closes({"Dialog", "Sheet", "Drawer", "CommandDialog"})

\* Of what a press away closes, only the layer that blocks was opened last of those that do.
LEMMA PressMenu ==
  ASSUME PopOK, pop # Absent, NEW p,
         \A m \in Gone : Blocks(m) => m \notin Stays(PressedAway(p))
  PROVE  MenuStep
<1>1. ASSUME NEW m \in Gone, Blocks(m) PROVE m \in PressedAway(p)
  <2>1. m \in pop.open /\ m \notin Stays(PressedAway(p))
    BY <1>1 DEF Gone
  <2>2. PICK x \in PressedAway(p) : m \in Within(x)
    BY <2>1 DEF Stays
  <2>3. x \in pop.open /\ Free(x)
    BY DEF PressedAway
  <2>4. x # 0
    BY <2>3, PopFacts DEF Stack
  <2>5. m = x \/ <<x, m>> \in pop.order
    BY <2>1, <2>2, <2>3, WithinAbove, PopFacts
  <2> QED
    BY <1>1, <2>1, <2>3, <2>4, <2>5 DEF Free, Above
<1>2. ASSUME NEW m \in Gone, NEW d \in Gone, Blocks(m), Blocks(d) PROVE m = d
  <2>1. m \in pop.open /\ d \in pop.open /\ Free(m) /\ Free(d)
    BY <1>1, <1>2 DEF PressedAway
  <2>2. m # 0 /\ d # 0
    BY <2>1, PopFacts DEF Stack
  <2>3. m = d \/ <<m, d>> \in pop.order \/ <<d, m>> \in pop.order
    BY <2>1, PopFacts DEF Stack
  <2> QED
    BY <1>2, <2>1, <2>2, <2>3 DEF Free, Above
<1>3. ASSUME NEW m \in Gone, pop.at[m].kind \in {"Select", "DropdownMenu", "ContextMenu"},
             NEW d \in Gone, pop.at[d].kind \in {"Dialog", "Sheet", "Drawer", "CommandDialog"}
      PROVE  FALSE
  <2>1. Blocks(m) /\ Blocks(d)
    BY <1>3, Kinds DEF Blocks
  <2>2. m = d
    BY <1>2, <2>1
  <2> QED
    BY <1>3, <2>2
<1> QED
  BY <1>3 DEF MenuStep, Closes

\* What is inside a component whose trigger can be reached does not block.
LEMMA ReachedInside ==
  ASSUME PopOK, pop # Absent, NEW c \in pop.open, Reached(pop.at[c].inside),
         NEW m \in pop.open, m \in Within(c)
  PROVE  ~Blocks(m)
<1>1. m = c \/ <<c, m>> \in pop.order
  BY WithinAbove, PopFacts
<1>2. m \in Above(pop.at[c].inside)
  <2>1. CASE pop.at[c].inside = 0
    BY <2>1 DEF Above
  <2>2. CASE pop.at[c].inside # 0
    <3>1. pop.at[c].inside \in pop.open /\ <<pop.at[c].inside, c>> \in pop.order
      BY <2>2, PopFacts DEF Stack
    <3>2. <<pop.at[c].inside, m>> \in pop.order
      BY <1>1, <3>1, PopFacts DEF Stack
    <3> QED
      BY <2>2, <3>2 DEF Above
  <2> QED
    BY <2>1, <2>2
<1> QED
  BY <1>2 DEF Reached, Free

\* A press or a key on a trigger.  What the key closes is no menu's press.
LEMMA TriggerStep ==
  ASSUME PopOK, pop # Absent, NEW c \in DOMAIN pop.at, NEW away \in SUBSET pop.open,
         NEW how \in Hows, Trigger(c, away, how),
         \A x \in away : pop.at[c].inside \notin Within(x),
         how # "press" \/ away = PressedAway(pop.at[c].inside)
  PROVE  PopOK' /\ MenuStep
<1>0. away \subseteq DOMAIN pop.at
  BY PopFacts DEF Stack
<1>1. CASE c \in pop.open
  <2>1. Close({c} \cup away, how)
    BY <1>1 DEF Trigger, IsOpen
  <2>2. PopOK' /\ pop'.last = how /\ pop'.open = Stays({c} \cup away)
    BY <2>1, CloseOK
  <2>3. ASSUME NEW m \in pop.open, m \in Within(c) PROVE ~Blocks(m)
    BY <1>1, <2>3, ReachedInside DEF Trigger
  <2>4. MenuStep
    <3>1. CASE how # "press"
      BY <2>2, <3>1 DEF MenuStep
    <3>2. CASE away = PressedAway(pop.at[c].inside)
      <4>1. ASSUME NEW m \in Gone, Blocks(m) PROVE m \notin Stays(away)
        <5>1. m \in pop.open /\ m \notin Stays({c} \cup away)
          BY <2>2 DEF Gone
        <5>2. m \notin Within(c)
          BY <4>1, <5>1, <2>3
        <5> QED
          BY <5>1, <5>2 DEF Stays
      <4> QED
        BY <3>2, <4>1, PressMenu
    <3> QED
      BY <3>1, <3>2
  <2> QED
    BY <2>2, <2>4
<1>2. CASE c \notin pop.open
  <2>1. OpenLayer(c, away, how) /\ Reached(pop.at[c].inside)
    BY <1>2 DEF Trigger, IsOpen
  <2>2. pop.at[c].inside \in Stays(away) \cup {0}
    BY <2>1 DEF Reached, IsOpen, Stays
  <2>3. PopOK' /\ pop'.last = how /\ pop'.open = Stays(away) \cup {c}
    BY <1>2, <2>1, <2>2, OpenOK
  <2>4. MenuStep
    <3>1. CASE how # "press"
      BY <2>3, <3>1 DEF MenuStep
    <3>2. CASE away = PressedAway(pop.at[c].inside)
      BY <2>3, <3>2, PressMenu DEF Gone
    <3> QED
      BY <3>1, <3>2
  <2> QED
    BY <2>3, <2>4
<1> QED
  BY <1>1, <1>2

\* The pointer opens a card, a tooltip or a submenu: what closes holds neither it nor what
\* it is inside of.
LEMMA HoverStep ==
  ASSUME PopOK, pop # Absent, NEW c \in DOMAIN pop.at, HoverTrigger(c)
  PROVE  PopOK' /\ MenuStep
<1> DEFINE others == IF Primitive(c) = "sub" THEN FocusedAway(c)
                     ELSE {d \in pop.open : {pop.at[c].kind, pop.at[d].kind} = {"Tooltip"}}
<1>1. OpenLayer(c, others, "hover") /\ Reached(pop.at[c].inside) /\ c \notin pop.open
  BY DEF HoverTrigger, IsOpen
<1>2. others \subseteq pop.open /\ pop.open \subseteq DOMAIN pop.at
  BY PopFacts DEF FocusedAway, Stack
<1>4. ASSUME NEW x \in others, pop.at[c].inside \in Within(x) PROVE FALSE
  <2>1. CASE Primitive(c) = "sub"
    BY <1>4, <2>1, WithinUp DEF FocusedAway
  <2>2. CASE Primitive(c) # "sub"
    <3>1. pop.at[x].kind = "Tooltip" /\ x \in DOMAIN pop.at
      BY <1>2, <2>2
    <3>2. ASSUME NEW n \in DOMAIN pop.at PROVE pop.at[n].inside # x
      <4>1. pop.at[n].inside # 0 => pop.at[pop.at[n].inside].kind # "Tooltip"
        BY PopFacts DEF LayoutOK
      <4> QED
        BY <3>1, <4>1, PopFacts
    <3>3. Within(x) \subseteq {x}
      <4>1. HoldsInside({x})
        BY <3>2 DEF HoldsInside
      <4>2. {x} \in SUBSET DOMAIN pop.at
        BY <3>1
      <4> QED
        BY <4>1, <4>2 DEF Within
    <3> QED
      BY <1>4, <3>2, <3>3
  <2> QED
    BY <2>1, <2>2
<1> HIDE DEF others
<1>5. pop.at[c].inside \in Stays(others) \cup {0}
  BY <1>1, <1>4 DEF Reached, IsOpen, Stays
<1>6. PopOK' /\ pop'.last = "hover" /\ pop'.open = Stays(others) \cup {c}
  BY <1>1, <1>5, OpenOK DEF Hows
<1> QED
  BY <1>6 DEF MenuStep

\* Every action keeps the stack and does what the properties allow.
LEMMA OverlayStep ==
  ASSUME PopOK, OverlayAction
  PROVE  PopOK' /\ MenuStep
<1> pop # Absent
  BY DEF OverlayAction
<1>0. /\ pop.open \subseteq DOMAIN pop.at /\ LayoutOK(pop.at) /\ 0 \notin DOMAIN pop.at
  BY PopFacts DEF Stack
<1>1. CASE Escape
  <2>1. PICK c \in pop.open : Close({RootMenu(c)}, "escape")
    BY <1>1 DEF Escape
  <2>2. PopOK' /\ pop'.last = "escape"
    BY <2>1, CloseOK DEF Hows
  <2> QED
    BY <2>2 DEF MenuStep
<1>2. ASSUME NEW p, PressAt(p) PROVE PopOK' /\ MenuStep
  <2>1. Close(PressedAway(p), "press")
    BY <1>2 DEF PressAt
  <2>2. PopOK' /\ pop'.open = Stays(PressedAway(p))
    BY <2>1, CloseOK DEF Hows
  <2>3. MenuStep
    BY <2>2, PressMenu DEF Gone
  <2> QED
    BY <2>2, <2>3
<1>3. ASSUME NEW c \in DOMAIN pop.at, PressTrigger(c) PROVE PopOK' /\ MenuStep
  <2> DEFINE away == PressedAway(pop.at[c].inside)
  <2>1. /\ away \in SUBSET pop.open
        /\ \A x \in away : pop.at[c].inside \notin Within(x)
    BY DEF PressedAway
  <2>2. Trigger(c, away, "press")
    BY <1>3 DEF PressTrigger
  <2> QED
    BY <2>1, <2>2, TriggerStep DEF Hows
<1>4. ASSUME NEW c \in DOMAIN pop.at, KeyTrigger(c) PROVE PopOK' /\ MenuStep
  <2> DEFINE away == FocusedAway(c)
  <2>1. /\ away \in SUBSET pop.open
        /\ \A x \in away : c \notin Within(x)
    BY DEF FocusedAway
  <2>2. \A x \in away : pop.at[c].inside \notin Within(x)
    BY <2>1, WithinUp
  <2>3. Trigger(c, away, "key")
    BY <1>4 DEF KeyTrigger
  <2> HIDE DEF away
  <2> QED
    BY <2>1, <2>2, <2>3, TriggerStep DEF Hows
<1>5. ASSUME NEW c \in DOMAIN pop.at, HoverTrigger(c) PROVE PopOK' /\ MenuStep
  BY <1>5, HoverStep
<1>6. ASSUME NEW c \in DOMAIN pop.at, LeaveLayer(c) PROVE PopOK' /\ MenuStep
  <2>1. Close({c}, "leave")
    BY <1>6 DEF LeaveLayer
  <2>2. PopOK' /\ pop'.last = "leave"
    BY <2>1, CloseOK DEF Hows
  <2> QED
    BY <2>2 DEF MenuStep
<1>7. ASSUME NEW c \in DOMAIN pop.at, Answer(c) PROVE PopOK' /\ MenuStep
  <2>1. Close({c}, "answer")
    BY <1>7 DEF Answer
  <2>2. PopOK' /\ pop'.last = "answer"
    BY <2>1, CloseOK DEF Hows
  <2> QED
    BY <2>2 DEF MenuStep
<1>8. ASSUME NEW c \in DOMAIN pop.at, Pick(c) PROVE PopOK' /\ MenuStep
  <2>1. Close({RootMenu(c)}, "pick")
    BY <1>8 DEF Pick
  <2>2. PopOK' /\ pop'.last = "pick"
    BY <2>1, CloseOK DEF Hows
  <2> QED
    BY <2>2 DEF MenuStep
<1> QED
  BY <1>1, <1>2, <1>3, <1>4, <1>5, <1>6, <1>7, <1>8 DEF OverlayAction

\* What is open on a page is a stack, always.
LEMMA PopAlways == KitSpec => []PopOK
<1>1. KitInit => PopOK
  <2>1. ASSUME NEW layout \in Layouts
        PROVE  LET p == [at |-> layout, open |-> {}, order |-> {}, last |-> "none"]
               IN  p \in PopType /\ Stack(p.at, p.open, p.order)
    BY DEF PopType, Stack, Hows
  <2> QED
    BY <2>1 DEF KitInit, Page, Overlays, PopOK
<1>2. PopOK /\ [KitNext]_kitVars => PopOK'
  <2>1. CASE OverlayAction
    BY <2>1, OverlayStep
  <2>2. CASE UNCHANGED pop
    BY <2>2 DEF PopOK, Stack
  <2> QED
    BY <2>1, <2>2
    DEF KitNext, kitVars, NotSidebar, NotCarousel, NotForm, NotBox, NotChart
<1> QED
  BY <1>1, <1>2, PTL DEF KitSpec

\* A step of the page does to its overlays what the properties allow.
LEMMA NextOverlays ==
  ASSUME PopOK, pop # Absent, [KitNext]_kitVars
  PROVE  MenuStep
<1>1. CASE OverlayAction
  BY <1>1, OverlayStep
<1>2. CASE UNCHANGED pop
  BY <1>2 DEF MenuStep, Gone, Closes
<1> QED
  BY <1>1, <1>2 DEF KitNext, kitVars, NotSidebar, NotCarousel, NotForm, NotBox, NotChart

\* On every page, a press that closes a menu or a select closes no dialog along with it.
THEOREM MenuKeepsDialogAlways == KitSpec => MenuKeepsDialog
<1> DEFINE A == pop # Absent /\ pop'.last = "press"
                /\ Closes({"Select", "DropdownMenu", "ContextMenu"})
                  => ~Closes({"Dialog", "Sheet", "Drawer", "CommandDialog"})
<1>1. PopOK /\ [KitNext]_kitVars => [A]_kitVars
  BY NextOverlays DEF MenuStep
<1>2. KitSpec => [][A]_kitVars
  BY <1>1, PopAlways, PTL DEF KitSpec
<1> QED
  BY <1>2 DEF MenuKeepsDialog
=============================================================================
