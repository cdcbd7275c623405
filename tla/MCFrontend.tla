----------------------------- MODULE MCFrontend -----------------------------
(***************************************************************************)
(* A browser page: the phone application's prototype, or a page with one   *)
(* component of the kit, which no page of either application uses yet.     *)
(***************************************************************************)
EXTENDS MobileApp, UiKit

NoKit ==
  /\ sb = Absent /\ car = Absent /\ form = Absent
  /\ box = Absent /\ chart = Absent /\ pop = Absent

FrontendInit == Init /\ (NoKit \/ (KitInit /\ screen = "home" /\ key = None))

FrontendNext ==
  \/ NoKit /\ Next /\ UNCHANGED kitVars
  \/ KitNext /\ UNCHANGED vars

\* The fairness of the application where it is the page, and that of the kit.
FrontendFairness ==
  /\ WF_vars(NoKit /\ SplashTimer) /\ WF_vars(NoKit /\ ActivateTimer)
  /\ WF_vars(NoKit /\ ConnectTimer) /\ WF_vars(NoKit /\ OrphanTimer)
  /\ WF_vars(NoKit /\ PickTimer)
  /\ KitFairness

FrontendSpec == FrontendInit /\ [][FrontendNext]_<<vars, kitVars>> /\ FrontendFairness

-----------------------------------------------------------------------------
(* Values for the kit's constants.                                         *)

Samples == {i \in Items : i.name # "b" /\ i.row \in {<<>>, "a" :> "b"}}

SamplePayloads ==
  {<<i>> : i \in Samples} \cup {<<i, j>> : i, j \in {s \in Samples : s.row = <<>>}}

\* Every component alone, every pair, on one page or one inside the other, and threes of
\* some that differ in what they do.
Part(k, n) == [kind |-> k, inside |-> n]

Pairs == {<<Part(k, 0), Part(l, n)>> : k, l \in DOMAIN Contents, n \in 0..1}

Few == {"Dialog", "AlertDialog", "Popover", "HoverCard", "DropdownMenu", "DropdownMenuSub", "Menubar"}

Threes == {<<Part(k, 0), Part(l, n), Part(x, o)>> : k, l, x \in Few, n \in 0..1, o \in 0..2}

SampleLayouts == {layout \in Pairs \cup Threes : LayoutOK(layout)}
=============================================================================
