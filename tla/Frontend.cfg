\* The phone application: two servers, two apps, a short history; every timer may be late.
\* The kit: the window crosses the breakpoint twice, three slides, two fields, two keys.
CONSTANTS
  Servers = {s1, s2}
  First = s1
  Apps = {a1, a2}
  DefaultOn = {a1}
  MaxHist = 3
  MaxTimers = 2
  MaxTicks = 2
  None = None
  Absent = Absent
  MaxResizes = 2
  MaxSlides = 3
  Fields = {"f", "g"}
  Keys = {"a", "b"}
  Payloads <- SamplePayloads
  Layouts <- SampleLayouts
SPECIFICATION FrontendSpec
INVARIANTS ConnectionIsOwn GreenMeansStored
           ShortcutAgrees ButtonsMatch ErrorsAnnounced HeadingOnce
PROPERTIES ConnectingEnds LayoutSettles MenuKeepsDialog
