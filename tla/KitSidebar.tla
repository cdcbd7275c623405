----------------------------- MODULE KitSidebar -----------------------------
(***************************************************************************)
(* The collapsible sidebar of the component kit (components/ui/sidebar.tsx *)
(* with use-mobile.ts, sheet.tsx and tooltip.tsx): a column on a wide      *)
(* window, a sheet over the page on a narrow one, toggled by buttons and   *)
(* by a shortcut.                                                          *)
(***************************************************************************)
EXTENDS KitCore

CONSTANT
  MaxResizes    \* bound: times the window crosses the breakpoint

ASSUME SidebarAssumption == MaxResizes \in Nat

VARIABLE
  sb            \* the sidebar, or Absent when the page has none

\* How the page uses SidebarProvider: with neither open nor onOpenChange, with both, with
\* the callback only, or with open only.
Uses == {"own", "parent", "callback", "fixed"}

Collapsible == {"offcanvas", "icon", "none"}

\* use, collapsible: the page's choice; narrow: the window; inner, openProp, isMobile,
\* openMobile: state; cookie; shown: the last render; effects: whether its effects are
\* outstanding; listener: what the shortcut acts on.
FreshSidebar(use, collapsible, narrow) ==
  [use |-> use, collapsible |-> collapsible, narrow |-> narrow, resizes |-> 0,
   inner |-> TRUE, openProp |-> TRUE, isMobile |-> Absent, openMobile |-> FALSE,
   cookie |-> Absent,
   shown |-> [open |-> TRUE, isMobile |-> FALSE, openMobile |-> FALSE],
   effects |-> TRUE, listener |-> Absent]

Sidebars == {FreshSidebar(u, c, n) : u \in Uses, c \in Collapsible, n \in BOOLEAN}

Open(s) == IF s.use \in {"parent", "fixed"} THEN s.openProp ELSE s.inner

\* useIsMobile's answer: false until its effect has run.
UseIsMobile(s) == s.isMobile = TRUE

\* What SidebarProvider hands to the components below it.
ContextValue(s) ==
  [open |-> Open(s), isMobile |-> UseIsMobile(s), openMobile |-> s.openMobile]

State(s) == IF s.shown.open THEN "expanded" ELSE "collapsed"

-----------------------------------------------------------------------------
(* What is on the screen.                                                  *)

\* The form the sidebar takes: a plain column whatever the state, the sheet, or the
\* column that collapses.
Sidebar(s) ==
  IF s.collapsible = "none" THEN "plain"
  ELSE IF s.shown.isMobile THEN "sheet" ELSE "column"

\* The overlay and the content are there while the sheet is open; the sidebar hides the
\* sheet's own close button.
SheetContent(s) == Sidebar(s) = "sheet" /\ s.shown.openMobile

\* data-collapsible="icon" on the column.
IconMode(s) == Sidebar(s) = "column" /\ State(s) = "collapsed" /\ s.collapsible = "icon"

OnScreen(s) ==
  CASE Sidebar(s) = "plain"  -> TRUE
    [] Sidebar(s) = "sheet"  -> SheetContent(s)
    [] Sidebar(s) = "column" -> State(s) = "expanded" \/ IconMode(s)

\* The trigger is the page's and lies under the sheet's overlay; the rail is the column's
\* edge and stays when the column is off the canvas.
SidebarTrigger(s) == ~SheetContent(s)
SidebarRail(s) == Sidebar(s) = "column" \/ OnScreen(s)

-----------------------------------------------------------------------------
(* Events.                                                                 *)

\* The parent's callback or the state of one's own, and the cookie in any case.
SetOpen(s, open) ==
  [s EXCEPT !.inner = IF s.use \in {"parent", "callback"} THEN @ ELSE open,
            !.cookie = open]

\* c holds the values the caller was made with.  The sheet's state is flipped as it is by
\* then, the column's as it was when the caller was made.
ToggleSidebar(s, c) ==
  IF c.isMobile THEN [s EXCEPT !.openMobile = ~@] ELSE SetOpen(s, ~c.open)

Press ==
  /\ SidebarTrigger(sb) \/ SidebarRail(sb)
  /\ sb' = ToggleSidebar(sb, sb.shown)

HandleKeyDown ==
  /\ sb.listener # Absent
  /\ sb' = ToggleSidebar(sb, sb.listener)

\* The overlay is pressed, or Escape.
CloseSheet == SheetContent(sb) /\ sb' = [sb EXCEPT !.openMobile = FALSE]

\* A parent that passes open sets it, asked or not.
ParentSets(open) == sb.use \in {"parent", "fixed"} /\ sb' = [sb EXCEPT !.openProp = open]

Resize ==
  /\ sb.resizes < MaxResizes
  /\ sb' = [sb EXCEPT !.narrow = ~@, !.resizes = @ + 1]

\* The media query's event, which the first effect subscribes to.
OnChange ==
  /\ sb.isMobile # Absent /\ sb.isMobile # sb.narrow
  /\ sb' = [sb EXCEPT !.isMobile = sb.narrow]

-----------------------------------------------------------------------------
(* React.                                                                  *)

Render ==
  /\ sb.shown # ContextValue(sb)
  /\ sb' = [sb EXCEPT !.shown = ContextValue(sb), !.effects = TRUE]

\* What toggleSidebar depends on.
Deps(v) == [open |-> v.open, isMobile |-> v.isMobile]

(* Mutant of Effects: the listener is made once. *)
EffectsOnce ==
  /\ sb.effects
  /\ sb' = [sb EXCEPT !.effects = FALSE,
                      !.listener = IF @ = Absent THEN Deps(sb.shown) ELSE @,
                      !.isMobile = IF @ = Absent THEN sb.narrow ELSE @]

(* Mutant of Effects: the window is not looked at before it changes. *)
EffectsNoRead ==
  /\ sb.effects
  /\ sb' = [sb EXCEPT !.effects = FALSE, !.listener = Deps(sb.shown)]

\* The listener is made anew when toggleSidebar has changed; useIsMobile's effect runs the
\* first time only and reads the window.
Effects ==
  /\ sb.effects
  /\ sb' = [sb EXCEPT !.effects = FALSE,
                      !.listener = Deps(sb.shown),
                      !.isMobile = IF @ = Absent THEN sb.narrow ELSE @]

SidebarAction ==
  /\ sb # Absent
  /\ \/ Press \/ HandleKeyDown \/ CloseSheet \/ Resize \/ OnChange \/ Render \/ Effects
     \/ \E open \in BOOLEAN : ParentSets(open)
=============================================================================
