------------------------------- MODULE UiKit -------------------------------
(***************************************************************************)
(* A page with one component of the kit on it.  The kit is there twice, in *)
(* figmadesighn and in the Android prototype, file by file the same.       *)
(***************************************************************************)
EXTENDS KitSidebar, KitParts, KitChart, KitOverlays

\* All but the component named.
NotSidebar  == <<car, form, box, chart, pop>>
NotCarousel == <<sb, form, box, chart, pop>>
NotForm     == <<sb, car, box, chart, pop>>
NotBox      == <<sb, car, form, chart, pop>>
NotChart    == <<sb, car, form, box, pop>>
NotOverlays == <<sb, car, form, box, chart>>

kitVars == <<sb, car, form, box, chart, pop>>

Page(sbs, cars, forms, boxes, charts, pops) ==
  /\ sb \in sbs /\ car \in cars /\ form \in forms /\ box \in boxes
  /\ chart \in charts /\ pop \in pops

KitInit ==
  LET no == {Absent}
  IN  \/ Page(Sidebars, no, no, no, no, no) \/ Page(no, Carousels, no, no, no, no)
      \/ Page(no, no, Forms, no, no, no) \/ Page(no, no, no, {FreshBox}, no, no)
      \/ Page(no, no, no, no, Charts, no) \/ Page(no, no, no, no, no, Overlays)

KitNext ==
  \/ SidebarAction /\ UNCHANGED NotSidebar
  \/ CarouselAction /\ UNCHANGED NotCarousel
  \/ FormAction /\ UNCHANGED NotForm
  \/ SearchAction /\ UNCHANGED NotBox
  \/ ChartAction /\ UNCHANGED NotChart
  \/ OverlayAction /\ UNCHANGED NotOverlays

\* React renders what has changed and runs effects, and the browser delivers the media
\* query's event, however long each may take.
Browser(step) == sb # Absent /\ step /\ UNCHANGED NotSidebar

KitFairness ==
  WF_kitVars(Browser(Render)) /\ WF_kitVars(Browser(Effects)) /\ WF_kitVars(Browser(OnChange))

KitSpec == KitInit /\ [][KitNext]_kitVars /\ KitFairness

-----------------------------------------------------------------------------
(* Properties.                                                             *)

\* With no render and no effect outstanding, a shortcut does what the buttons do, whatever
\* was pressed and resized before.
ShortcutAgrees ==
  /\ sb # Absent /\ ~sb.effects /\ sb.shown = ContextValue(sb)
       => ToggleSidebar(sb, sb.listener) = ToggleSidebar(sb, sb.shown)
  /\ box # Absent /\ ~box.effects /\ box.shown = box.open
       => box.listener = box.shown

\* Once it listens to embla, the carousel's buttons are enabled as embla can scroll,
\* through scrolling, dragging and slides that come and go.
ButtonsMatch == car # Absent /\ car.on # {} => car.can = CanScroll(car)

\* In a form whose fields are in items of their own, every error text is announced with
\* its control and no other.
ErrorsAnnounced ==
  form # Absent /\ form.items = Fields =>
    \A f, g \in Fields :
      /\ FormLabel(f).htmlFor = FormControl(g).id <=> f = g
      /\ (FormMessage(f) # {} /\ FormMessage(f) \subseteq FormControl(g).describedBy)
           <=> (f = g /\ form.error[f] = "text")
      /\ FormMessage(f) \cap FormDescription(g) = {}

\* A tooltip without a formatter shows one heading, above the lines or in the only one: the
\* one for what is under the pointer, though it is remembered between renders.
HeadingOnce ==
  chart # Absent /\ ~chart.formatter /\ ChartTooltipContent(chart) # Absent =>
    LET t == ChartTooltipContent(chart)
        headings == [i \in {0} \cup DOMAIN t.rows |->
                       IF i = 0 THEN t.heading ELSE t.rows[i].heading]
        shown == {i \in DOMAIN headings : headings[i] # Absent}
    IN  IF TooltipLabel(chart) = Absent THEN shown = {}
        ELSE \E i \in DOMAIN headings : shown = {i} /\ headings[i] = TooltipLabel(chart)

\* The components that a step closes.
Gone == pop.open \ pop'.open
Closes(kinds) == \E c \in Gone : pop.at[c].kind \in kinds

\* A press that closes a menu or a select closes no dialog along with it.
MenuKeepsDialog ==
  [][pop # Absent /\ pop'.last = "press" /\ Closes({"Select", "DropdownMenu", "ContextMenu"})
       => ~Closes({"Dialog", "Sheet", "Drawer", "CommandDialog"})]_kitVars

\* The sidebar comes to have the form for the window.
LayoutSettles == sb # Absent ~> [](sb # Absent /\ (sb.shown.isMobile = sb.narrow))
=============================================================================
