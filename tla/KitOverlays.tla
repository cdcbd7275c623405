---------------------------- MODULE KitOverlays ----------------------------
(***************************************************************************)
(* What opens above the page: dialogs, sheets, drawers, menus, popovers    *)
(* and tooltips (components/ui).  The kit's files say which primitive of   *)
(* Radix each is made of and which buttons close it; what the primitives   *)
(* do is Radix' (and for the drawer vaul's).  Everything is drawn in the   *)
(* order of opening: all layers have one z-index and all but submenus a    *)
(* portal.                                                                 *)
(*                                                                         *)
(* A page is a sequence of components, each with its trigger on the page   *)
(* (place 0) or inside the content of an earlier one.                      *)
(***************************************************************************)
EXTENDS KitCore

CONSTANT Layouts  \* the pages: sequences of [kind, inside]

VARIABLE pop      \* at: the page; open: the open components; order: <<c, d>> when d is open
                  \* and opened after c; last: how the last one opened or closed, or pop is
                  \* Absent

Content(primitive, closers) == [primitive |-> primitive, closers |-> closers]

DialogContent == Content("dialog", {"x"})
SheetDialog   == Content("dialog", {"x"})

\* The palette's title and description are outside its content, in the document while it
\* is closed too.
CommandDialog == DialogContent

\* The buttons a page puts into an alert.
AlertDialogButtons == {"action", "cancel"}

AlertDialogContent == Content("alert", AlertDialogButtons)

\* A drawer has a handle and no button of its own.
DrawerContent == Content("dialog", {"handle"})

PopoverContent   == Content("popover", {})
HoverCardContent == Content("hover", {})
TooltipContent   == Content("hover", {})
SelectContent    == Content("menu", {})

(* Mutant of DropdownMenuContent: modal={false}. *)
DropdownMenuContentFree == Content("popover", {})

DropdownMenuContent == Content("menu", {})
ContextMenuContent  == Content("menu", {})
MenubarContent      == Content("menubar", {})

\* A submenu is part of its menu's content.
DropdownMenuSubContent == Content("sub", {})
ContextMenuSubContent  == Content("sub", {})
MenubarSubContent      == Content("sub", {})

Contents ==
  [Dialog |-> DialogContent, Sheet |-> SheetDialog, CommandDialog |-> CommandDialog,
   AlertDialog |-> AlertDialogContent, Drawer |-> DrawerContent, Popover |-> PopoverContent,
   HoverCard |-> HoverCardContent, Tooltip |-> TooltipContent, Select |-> SelectContent,
   DropdownMenu |-> DropdownMenuContent, ContextMenu |-> ContextMenuContent,
   Menubar |-> MenubarContent, DropdownMenuSub |-> DropdownMenuSubContent,
   ContextMenuSub |-> ContextMenuSubContent, MenubarSub |-> MenubarSubContent]

Sub == [DropdownMenu |-> "DropdownMenuSub", ContextMenu |-> "ContextMenuSub",
        Menubar |-> "MenubarSub"]

\* Submenus are in menus of their own file, nothing else is inside a menu,
\* and nothing is inside a tooltip.
LayoutOK(layout) ==
  /\ layout \in Seq([kind : DOMAIN Contents, inside : Nat])
  /\ \A c \in DOMAIN layout :
       /\ layout[c].inside < c
       /\ LET outer == IF layout[c].inside = 0 THEN "page" ELSE layout[layout[c].inside].kind
              kind == Contents[layout[c].kind].primitive
          IN  /\ kind = "sub" <=> outer \in DOMAIN Sub /\ layout[c].kind = Sub[outer]
              /\ outer # "Tooltip"
              /\ outer # "page" /\ kind # "sub"
                   => Contents[outer].primitive \notin {"menu", "menubar", "sub"}

ASSUME OverlaysAssumption == \A layout \in Layouts : LayoutOK(layout)

Overlays == {[at |-> layout, open |-> {}, order |-> {}, last |-> "none"] : layout \in Layouts}

-----------------------------------------------------------------------------
(* Radix.  A layer that blocks takes the pointer from all that opened before it.           *)

Primitive(c) == Contents[pop.at[c].kind].primitive
Blocks(c) == Primitive(c) \in {"dialog", "alert", "menu"}

IsOpen(c) == c \in pop.open

\* What opened after c, everything for the page.
Above(c) == IF c = 0 THEN pop.open ELSE {d \in pop.open : <<c, d>> \in pop.order}
Free(c)  == \A d \in Above(c) : ~Blocks(d)

\* The pointer and the keyboard reach the content of c, or the page.
Reached(c) == (c = 0 \/ IsOpen(c)) /\ Free(c)

\* c and what is inside it, however deep: the least set with c and what is inside a member.
HoldsInside(S) == \A n \in DOMAIN pop.at : pop.at[n].inside \in S => n \in S
Within(c) ==
  {n \in DOMAIN pop.at : \A S \in SUBSET DOMAIN pop.at : c \in S /\ HoldsInside(S) => n \in S}

\* What stays when the components cs go, and with them what is inside them.
Stays(cs) == pop.open \ UNION {Within(c) : c \in cs}

\* The layers that a press at place p closes.
PressedAway(p) ==
  {c \in pop.open : Free(c) /\ p \notin Within(c) /\ Primitive(c) # "alert"}

\* Those that close when the focus goes to place p.
FocusedAway(p) ==
  {c \in pop.open : p \notin Within(c) /\ Primitive(c) \in {"popover", "menubar", "sub"}}

\* The menu that submenu c belongs to.
RootMenu(c) == IF Primitive(c) = "sub" THEN pop.at[c].inside ELSE c

\* The components cs close.
Close(cs, how) ==
  pop' = [pop EXCEPT !.open = Stays(cs), !.order = @ \cap (Stays(cs) \X Stays(cs)),
                     !.last = how]

\* The components cs close and c opens above what stays.
OpenLayer(c, cs, how) ==
  pop' = [pop EXCEPT !.open = Stays(cs) \cup {c},
                     !.order = (@ \cap (Stays(cs) \X Stays(cs))) \cup (Stays(cs) \X {c}),
                     !.last = how]

\* A press inside an open content that the pointer reaches, or (place 0) elsewhere: on the
\* page, or on the overlay that a layer that blocks puts before it.
PressAt(p) ==
  /\ p = 0 \/ Reached(p)
  /\ PressedAway(p) # {} /\ Close(PressedAway(p), "press")

\* The trigger of c is pressed, or chosen with the keyboard: an open popover or menu of a
\* bar closes.
Trigger(c, away, how) ==
  /\ Primitive(c) \notin {"hover", "sub"} /\ Reached(pop.at[c].inside)
  /\ IF IsOpen(c) THEN Close({c} \cup away, how) ELSE OpenLayer(c, away, how)

PressTrigger(c) == Trigger(c, PressedAway(pop.at[c].inside), "press")
KeyTrigger(c)   == Trigger(c, FocusedAway(c), "key")

\* The pointer comes upon the trigger of a card or tooltip, or of a submenu.
HoverTrigger(c) ==
  /\ Primitive(c) \in {"hover", "sub"} /\ ~IsOpen(c)
  /\ Reached(pop.at[c].inside)
  /\ LET others == IF Primitive(c) = "sub" THEN FocusedAway(c)
                   ELSE {d \in pop.open : {pop.at[c].kind, pop.at[d].kind} = {"Tooltip"}}
     IN  OpenLayer(c, others, "hover")

\* The pointer or the focus leaves.
LeaveLayer(c) ==
  IsOpen(c) /\ ~Blocks(c) /\ Reached(c) /\ Close({c}, "leave")

\* Escape goes to the layer that opened last; from a submenu it closes the menu.
Escape ==
  \E c \in pop.open : Above(c) = {} /\ Close({RootMenu(c)}, "escape")

\* One of the content's own buttons, or its handle.
Answer(c) ==
  /\ IsOpen(c) /\ Reached(c) /\ Contents[pop.at[c].kind].closers # {}
  /\ Close({c}, "answer")

\* An item of a menu, a submenu or a select.
Pick(c) ==
  /\ IsOpen(c) /\ Reached(c) /\ Primitive(c) \in {"menu", "menubar", "sub"}
  /\ Close({RootMenu(c)}, "pick")

OverlayAction ==
  /\ pop # Absent
  /\ \/ Escape \/ PressAt(0)
     \/ \E c \in DOMAIN pop.at :
          \/ PressAt(c) \/ PressTrigger(c) \/ KeyTrigger(c) \/ HoverTrigger(c) \/ LeaveLayer(c)
          \/ Answer(c) \/ Pick(c)

=============================================================================
