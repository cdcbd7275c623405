------------------------------ MODULE KitParts ------------------------------
(***************************************************************************)
(* Other components with behaviour of their own: the carousel              *)
(* (components/ui/carousel.tsx) over the library embla, the form's fields  *)
(* (form.tsx) over react-hook-form, and the admin panel's search box       *)
(* (GlobalSearch.tsx in Layout.tsx).                                       *)
(***************************************************************************)
EXTENDS KitCore, TLC

CONSTANTS
  MaxSlides,    \* bound: slides of the carousel
  Fields        \* names of the form's fields

ASSUME PartsAssumption == MaxSlides \in Nat \ {0}

VARIABLES
  car,          \* the carousel, or Absent
  form,         \* the form, or Absent
  box           \* the search box, or Absent

-----------------------------------------------------------------------------
(* Carousel.  children: the slides in the document; slides, pos: embla's view of them;    *)
(* on: the events embla calls onSelect for; can: the state behind the two buttons.         *)

FreshCarousel(children, loop) ==
  [children |-> children, loop |-> loop, api |-> FALSE, slides |-> 0, pos |-> 0, on |-> {},
   can |-> [prev |-> FALSE, next |-> FALSE]]

Carousels == {FreshCarousel(n, l) : n \in 1..MaxSlides, l \in BOOLEAN}

\* embla: with loop every slide has a neighbour.
CanScroll(c) ==
  [prev |-> c.slides > 1 /\ (c.loop \/ c.pos > 0),
   next |-> c.slides > 1 /\ (c.loop \/ c.pos < c.slides - 1)]

OnSelect(c) == [c EXCEPT !.can = CanScroll(c)]

\* embla emits event e.
Emit(c, e) == IF e \in c.on THEN OnSelect(c) ELSE c

\* useEmblaCarousel's effect makes the api for the slides that are there.
CreateApi ==
  /\ ~car.api
  /\ car' = [car EXCEPT !.api = TRUE, !.slides = car.children]

(* Mutant of Subscribe: new slides are not heard of. *)
SubscribeSelect ==
  /\ car.api /\ car.on = {}
  /\ car' = [OnSelect(car) EXCEPT !.on = {"select"}]

Subscribe ==
  /\ car.api /\ car.on = {}
  /\ car' = [OnSelect(car) EXCEPT !.on = {"reInit", "select"}]

\* embla goes to slide p and says so if that is another one.
ScrollTo(p) ==
  car' = IF p = car.pos THEN car ELSE Emit([car EXCEPT !.pos = p], "select")

ScrollPrev ==
  /\ car.api
  /\ ScrollTo(IF car.pos > 0 THEN car.pos - 1 ELSE IF car.loop THEN car.slides - 1 ELSE 0)

ScrollNext ==
  /\ car.api
  /\ ScrollTo(IF car.pos < car.slides - 1 THEN car.pos + 1
              ELSE IF car.loop THEN 0 ELSE car.pos)

\* The buttons, while enabled, and the arrow keys, at any time.
CarouselPrevious == car.can.prev /\ ScrollPrev
CarouselNext == car.can.next /\ ScrollNext
ArrowKey == ScrollPrev \/ ScrollNext

\* Slides are dragged.
Drag(p) == car.api /\ p < car.slides /\ ScrollTo(p)

\* The page renders other slides, which embla notices later.
NewChildren(n) == n # car.children /\ car' = [car EXCEPT !.children = n]

ReInit ==
  /\ car.api /\ car.slides # car.children
  /\ LET last == car.children - 1
     IN  car' = Emit([car EXCEPT !.slides = car.children,
                                 !.pos = IF @ > last THEN last ELSE @], "reInit")

CarouselAction ==
  /\ car # Absent
  /\ \/ CreateApi \/ Subscribe \/ CarouselPrevious \/ CarouselNext \/ ArrowKey \/ ReInit
     \/ \E n \in 1..MaxSlides : NewChildren(n) \/ Drag(n - 1)

-----------------------------------------------------------------------------
(* Form fields.  error: what react-hook-form holds against a field: nothing, an error with *)
(* a text or one without; described: the fields that have a FormDescription; hinted: those  *)
(* whose FormMessage has a text of its own; items: the fields inside a FormItem.             *)

Errors == {"none", "text", "blank"}

FreshForm(items, described, hinted) ==
  [items |-> items, described |-> described, hinted |-> hinted,
   error |-> [f \in Fields |-> "none"]]

Forms ==
  {FreshForm(i, d, h) : i \in SUBSET Fields, d \in SUBSET Fields, h \in SUBSET Fields}

\* FormItem gives every field inside it an id of its own; outside the id is undefined,
\* which is one and the same text for every field.
FormItem(f) == IF f \in form.items THEN f ELSE Absent

UseFormField(f) ==
  [formItemId |-> <<FormItem(f), "item">>,
   formDescriptionId |-> <<FormItem(f), "description">>,
   formMessageId |-> <<FormItem(f), "message">>,
   error |-> form.error[f]]

FormLabel(f) == [htmlFor |-> UseFormField(f).formItemId, red |-> form.error[f] # "none"]

FormDescription(f) ==
  IF f \in form.described THEN {UseFormField(f).formDescriptionId} ELSE {}

\* The error's text, or the message's own when there is no error.
HasBody(f) == form.error[f] = "text" \/ (form.error[f] = "none" /\ f \in form.hinted)

(* Mutant of FormMessage: the message has the description's id. *)
FormMessageAsDescription(f) ==
  IF HasBody(f) THEN {UseFormField(f).formDescriptionId} ELSE {}

\* The paragraphs shown: none without a text, though there is an error.
FormMessage(f) == IF HasBody(f) THEN {UseFormField(f).formMessageId} ELSE {}

FormControl(f) ==
  LET x == UseFormField(f)
  IN  [id |-> x.formItemId, invalid |-> x.error # "none",
       describedBy |-> IF x.error = "none" THEN {x.formDescriptionId}
                       ELSE {x.formDescriptionId, x.formMessageId}]

\* The form is validated, or the admin mends field f.
Validate(errors) == form' = [form EXCEPT !.error = errors]
Mend(f) == form.error[f] # "none" /\ form' = [form EXCEPT !.error[f] = "none"]

FormAction ==
  /\ form # Absent
  /\ \/ \E e \in [Fields -> Errors] : Validate(e)
     \/ \E f \in Fields : Mend(f)

-----------------------------------------------------------------------------
(* Search box.  open: Layout's state; shown: as last rendered; listener: as the shortcut's *)
(* listener was made with.                                                                  *)

FreshBox == [open |-> FALSE, shown |-> FALSE, effects |-> TRUE, listener |-> Absent]

\* The header's button, which the box covers; the box's own.
HeaderSearch == ~box.shown /\ box' = [box EXCEPT !.open = TRUE]
CloseSearch == box.shown /\ box' = [box EXCEPT !.open = FALSE]

SearchKey == box.listener # Absent /\ box' = [box EXCEPT !.open = ~box.listener]

RenderSearch ==
  box.shown # box.open /\ box' = [box EXCEPT !.shown = box.open, !.effects = TRUE]

SearchEffect ==
  box.effects /\ box' = [box EXCEPT !.effects = FALSE, !.listener = box.shown]

SearchAction ==
  /\ box # Absent
  /\ HeaderSearch \/ CloseSearch \/ SearchKey \/ RenderSearch \/ SearchEffect

=============================================================================
