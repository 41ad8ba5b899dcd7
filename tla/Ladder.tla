------------------------------- MODULE Ladder -------------------------------
(***************************************************************************)
(* The roster's screen (PeopleScreen.tsx, usePeopleKeyboardMap.ts,         *)
(* ProfileCard.tsx): the columns of cards, a card's hovercard, opened by   *)
(* resting the pointer on the card or pinned by a press or Enter, and the  *)
(* drag of a card to another column.                                       *)
(*                                                                         *)
(* The handlers share refs and two timers.  measureInWindow answers after  *)
(* the handler has returned: a card that is to open, or to be picked up,   *)
(* is first measured, in the order asked.  An element that is taken away   *)
(* under the pointer fires no leave event.                                 *)
(***************************************************************************)
EXTENDS Roster

VARIABLES
    at,         \* what the pointer is over: a person's card, "popover" or None
    card,       \* the hovercard and its ref: None or [p, pinned]
    measuring,  \* the measurements under way: Seq of [what, p, row]
    hover,      \* the hover handlers' refs: [open, close, overCard, overPop]
    suppress,   \* suppressHoverRef: a drop was made and the pointer has not moved
    drag,       \* None or [p, from, allowed, hit, springing]
    moved,      \* dragMovedRef
    sel,        \* the selected person
    \* History only
    cause,      \* what last closed or replaced the hovercard
    slipped     \* the pointer left the hovercard in a way the timers do not see

ladderVars == <<at, card, measuring, hover, suppress, drag, moved, sel, cause, slipped>>
screenVars == <<rosterVars, ladderVars>>

ASSUME LadderAssumption ==
    /\ None # "popover" /\ None \notin [p : People, timer : {"on", "early"}]
    /\ "popover" \notin People

MaxMeasuring == 2  \* bound: cards being measured at once

Pinned   == card # None /\ card.pinned
Drawn(p) == BodyUp /\ list[p].rung \in Columns
\* The popover shows a person who is still on the list.
Popover  == card # None /\ BodyUp /\ OnList(card.p)

(***************************************************************************)
(* Opening and closing                                                     *)
(***************************************************************************)
\* A timer; an early one was started while something was still being measured.
Timer == IF measuring = <<>> THEN "on" ELSE "early"
NoHover == [open |-> None, close |-> "off", overCard |-> None, overPop |-> FALSE]

ClearHoverTimers(h) == [h EXCEPT !.open = None, !.close = "off"]

CloseHovercard(why) ==
    /\ hover' = NoHover
    /\ card' = None /\ slipped' = FALSE
    /\ cause' = IF card = None THEN cause ELSE why
    /\ at' = IF at = "popover" THEN None ELSE at

Measure(what, p) ==
    measuring' = IF Drawn(p) THEN Append(measuring, [what |-> what, p |-> p,
                                                     row |-> IF what = "pick" THEN list[p] ELSE Off])
                 ELSE measuring

Select(p) == sel' = p

\* Mutant: a pin leaves the hover timers running.
PinTimersOn(h, p) ==
    IF drag = None THEN hover' = h /\ Select(p) /\ Measure("pin", p)
    ELSE UNCHANGED <<hover, sel, measuring>>

\* openHovercard for a press or a key: the pending hover must not fire later.
Pin(h, p) ==
    IF drag = None THEN hover' = ClearHoverTimers(h) /\ Select(p) /\ Measure("pin", p)
    ELSE UNCHANGED <<hover, sel, measuring>>

\* startDrag and openHovercard go on when the card has been measured.
Measured ==
    /\ measuring # <<>>
    /\ measuring' = Tail(measuring)
    /\ LET m == Head(measuring) IN
       IF m.what = "pick"
       THEN /\ drag' = [p |-> m.p, from |-> m.row.rung, allowed |-> RungsFor(m.p, m.row), hit |-> None,
                        springing |-> FALSE]
            /\ moved' = FALSE
            /\ UNCHANGED <<card, cause, slipped>>
       ELSE /\ card' = [p |-> m.p, pinned |-> m.what = "pin"]
            /\ cause' = IF card = None THEN "none" ELSE m.what
            /\ slipped' = (slipped \/ (m.what # "pin" /\ at # m.p))
            /\ UNCHANGED <<drag, moved>>
    /\ UNCHANGED <<rosterVars, at, hover, suppress, sel>>

(***************************************************************************)
(* The pointer over cards and popover                                      *)
(***************************************************************************)
CardHoverIn(h, p) ==
    IF drag # None \/ Pinned \/ suppress THEN h
    ELSE [h EXCEPT !.overCard = p, !.close = "off",
                   !.open = IF card # None /\ card.p = p THEN @ ELSE [p |-> p, timer |-> Timer]]

CardHoverOut(h, p) ==
    [h EXCEPT !.overCard = IF @ = p THEN None ELSE @,
              !.open     = None,
              !.close    = IF card = [p |-> p, pinned |-> FALSE] THEN Timer ELSE @]

HovercardHoverIn(h) == [h EXCEPT !.overPop = TRUE, !.close = "off"]

\* Mutant: leaving the popover starts no timer.
HovercardHoverOutUntimed(h) == [h EXCEPT !.overPop = FALSE]

HovercardHoverOut(h) ==
    [h EXCEPT !.overPop = FALSE,
              !.close = IF card # None /\ ~Pinned THEN Timer ELSE @]

\* The pointer goes from what it is over to x, or the cards move under it.  While
\* a drag is on, the overlay is over everything.
HoverTo(x) ==
    /\ Offered("hover") /\ BodyUp /\ x # at
    /\ CASE x = None      -> TRUE
         [] x = "popover" -> Popover /\ drag = None
         [] OTHER         -> Drawn(x) /\ drag = None
    /\ LET out == CASE at = None -> hover
                    [] at = "popover" -> HovercardHoverOut(hover)
                    [] OTHER -> CardHoverOut(hover, at)
       IN  hover' = CASE x = None -> out
                      [] x = "popover" -> HovercardHoverIn(out)
                      [] OTHER -> CardHoverIn(out, x)
    /\ at' = x
    \* Leaving another card than the one shown starts no timer.
    /\ slipped' = (slipped \/ /\ card # None /\ ~Pinned /\ hover.close = "off"
                              /\ at \in People \ {card.p}
                              /\ x = None \/ (suppress /\ x \notin {card.p, "popover"}))
    /\ UNCHANGED <<rosterVars, card, measuring, suppress, drag, moved, sel, cause>>

OpenTimerFires ==
    /\ hover.open # None /\ (hover.open.timer = "early" => measuring = <<>>)
    /\ Len(measuring) < MaxMeasuring
    /\ hover' = [hover EXCEPT !.open = None]
    /\ IF hover.overCard = hover.open.p
       THEN Measure(IF hover.open.timer = "early" THEN "early" ELSE "hover", hover.open.p)
       ELSE UNCHANGED measuring
    /\ UNCHANGED <<rosterVars, at, card, suppress, drag, moved, sel, cause, slipped>>

CloseTimerFires ==
    /\ hover.close # "off" /\ (hover.close = "early" => measuring = <<>>)
    /\ IF hover.overCard = None /\ ~hover.overPop
       THEN CloseHovercard(IF hover.close = "early" THEN "early" ELSE "hover")
       ELSE /\ hover' = [hover EXCEPT !.close = "off"]
            /\ UNCHANGED <<at, card, cause, slipped>>
    /\ UNCHANGED <<rosterVars, measuring, suppress, drag, moved, sel>>

\* After a drop the pointer has moved a click's worth.  The hover that was
\* reported meanwhile (pendingHoverRef, left out) is handed to the
\* handleCardHoverIn of the render the drop was made in, which has `dragging`
\* set and returns.
PointerMovesAfterDrop ==
    /\ suppress /\ suppress' = FALSE
    /\ UNCHANGED <<rosterVars, at, card, measuring, hover, drag, moved, sel, cause, slipped>>

(***************************************************************************)
(* Presses and keys                                                        *)
(***************************************************************************)
\* The first press after a drag that moved is taken for the drag's own.
HandleCardPress(h, p) == IF moved THEN hover' = h /\ UNCHANGED <<measuring, sel>> ELSE Pin(h, p)

\* The press outside a pinned hovercard is heard before the press on the card.
Outside(x) == Pinned /\ x \notin {card.p, "popover"}

CardPress(p) ==
    /\ Offered("hover") /\ at = p /\ Drawn(p) /\ drag = None
    /\ Len(measuring) < MaxMeasuring
    /\ LET outside == Outside(p)
           h       == IF outside THEN NoHover ELSE hover
       IN  /\ card' = IF outside THEN None ELSE card
           /\ cause' = IF outside THEN "outside" ELSE cause
           /\ slipped' = IF outside THEN FALSE ELSE slipped
           /\ HandleCardPress(h, p)
    /\ moved' = FALSE
    /\ UNCHANGED <<rosterVars, at, suppress, drag>>

PressOutside ==
    /\ Offered("hover") /\ at = None /\ Outside(at)
    /\ CloseHovercard("outside")
    /\ UNCHANGED <<rosterVars, measuring, suppress, drag, moved, sel>>

\* j, k and the arrows: the pin, or the selection, goes to a neighbour.
KeyMove(p) ==
    /\ Offered("keys") /\ BodyUp /\ panel = None /\ Drawn(p)
    /\ Len(measuring) < MaxMeasuring
    /\ IF Pinned THEN Pin(hover, p) ELSE Select(p) /\ UNCHANGED <<hover, measuring>>
    /\ UNCHANGED <<rosterVars, at, card, suppress, drag, moved, cause, slipped>>

\* A selected card that is not drawn any more has its timers cleared and is
\* not measured.
KeyEnter ==
    /\ Offered("keys") /\ BodyUp /\ panel = None /\ sel # None
    /\ Len(measuring) < MaxMeasuring
    /\ Pin(hover, sel)
    /\ slipped' = (slipped \/ (drag = None /\ ~Drawn(sel)))
    /\ UNCHANGED <<rosterVars, at, card, suppress, drag, moved, cause>>

\* Esc: the panel first, then the pinned hovercard, then the selection.
KeyEscape ==
    /\ Offered("keys") /\ BodyUp
    /\ \/ ClosePanel /\ UNCHANGED ladderVars
       \/ /\ panel = None /\ Pinned
          /\ CloseHovercard("esc")
          /\ UNCHANGED <<rosterVars, measuring, suppress, drag, moved, sel>>
       \/ /\ panel = None /\ ~Pinned /\ sel # None
          /\ Select(None)
          /\ UNCHANGED <<rosterVars, at, card, measuring, hover, suppress, drag, moved, cause, slipped>>

(***************************************************************************)
(* The drag                                                                *)
(***************************************************************************)
StartDrag(p) ==
    /\ Offered("drag") /\ (Offered("hover") => at = p)
    /\ Drawn(p) /\ drag = None
    /\ RungsFor(p, list[p]) # {}
    /\ Len(measuring) < MaxMeasuring
    /\ CloseHovercard("drag")
    /\ Measure("pick", p)
    /\ UNCHANGED <<rosterVars, suppress, drag, moved, sel>>

\* A move ends the spring of an earlier drop without its callback.
OnDragMove(c) ==
    /\ drag # None
    /\ drag' = [drag EXCEPT !.hit = c, !.springing = FALSE]
    /\ moved' = TRUE
    /\ UNCHANGED <<rosterVars, at, card, measuring, hover, suppress, sel, cause, slipped>>

ValidTarget == drag.hit \in drag.allowed \ {drag.from}

\* The drop on a column the ceiling allows: the write, with no animation.
DropCommitted ==
    /\ drag # None /\ ValidTarget
    /\ SetRole(drag.p, drag.hit)
    /\ drag' = None /\ suppress' = TRUE
    /\ UNCHANGED <<at, card, measuring, hover, moved, sel, cause, slipped>>

\* Any other drop, or a cancelled drag: back at once, or on a spring.
DropReturned ==
    /\ drag # None
    /\ drag' \in {None, [drag EXCEPT !.springing = TRUE]}
    /\ UNCHANGED <<rosterVars, at, card, measuring, hover, suppress, moved, sel, cause, slipped>>

SpringEnds ==
    /\ drag # None /\ drag.springing
    /\ drag' = None
    /\ UNCHANGED <<rosterVars, at, card, measuring, hover, suppress, moved, sel, cause, slipped>>

(***************************************************************************)
(* Writes and redraws                                                      *)
(***************************************************************************)
\* The list is drawn again: a card that left its column, and the popover of a
\* person who left the list, are gone from under the pointer.
Redrawn ==
    /\ at' = CASE at \in People /\ list'[at].rung # list[at].rung -> None
               [] at = "popover" /\ list'[card.p] = Off -> None
               [] OTHER -> at
    /\ slipped' = (slipped \/ at' # at)
    /\ UNCHANGED <<card, measuring, hover, suppress, drag, moved, sel, cause>>

\* The "Move to" menu of a card.
MoveMenu(p, rung) ==
    /\ Offered("role") /\ Drawn(p) /\ rung \in RungsFor(p, list[p])
    /\ SetRole(p, rung) /\ Redrawn

\* The role menu of the profile in the popover.
RoleMenu(rung) ==
    /\ Popover /\ at = "popover" /\ rung \in RungsFor(card.p, list[card.p])
    /\ SetRole(card.p, rung) /\ Redrawn

\* "Remove from event", confirmed: not present, or ejected.
DoRemove ==
    /\ Popover /\ at = "popover" /\ MayRemove(card.p, list[card.p])
    /\ SetRole(card.p, "gone") /\ Redrawn

\* A side panel takes the hovercard with it.
PanelOpens(which) ==
    /\ OpenPanel(which)
    /\ CloseHovercard("panel")
    /\ UNCHANGED <<measuring, suppress, drag, moved, sel>>

\* The list's error takes the Ladder away; only the selection is in the URL.
BodyLost(how) ==
    /\ ReadFails(how)
    /\ at' = None /\ card' = None /\ measuring' = <<>> /\ hover' = NoHover
    /\ suppress' = FALSE /\ drag' = None /\ moved' = FALSE
    /\ cause' = (IF card = None THEN cause ELSE "unmount") /\ slipped' = FALSE
    /\ UNCHANGED sel

\* The first read finds no Ladder to draw again.
Loaded == ReadLands /\ IF list = None THEN UNCHANGED ladderVars ELSE Redrawn

LadderInit ==
    /\ RosterInit
    /\ at = None /\ card = None /\ measuring = <<>> /\ hover = NoHover
    /\ suppress = FALSE /\ drag = None /\ moved = FALSE /\ sel = None
    /\ cause = "none" /\ slipped = FALSE

AddPersonNext ==
    \/ SearchAgain \/ CreateNew \/ AddAnother \/ BackToSearch
    \/ \E p \in People, rung \in Columns : Enrol(p, rung) \/ Create(p, rung)

ServerNext ==
    \/ \E i \in DOMAIN writes : Serve(i) \/ Refuse(i) \/ Answer(i) \/ Return(i)
    \/ \E p \in People : \/ OtherGivesBand(p) \/ OtherRemoves(p)
                         \/ \E rung \in {"reporter", "gone"} : OtherSetsRole(p, rung)

RosterNext ==
    \/ Retry \/ Refocus \/ ClosePanel \/ AddPersonNext \/ ServerNext
    \/ \E p \in People : AddToCrew(p) \/ RemoveFromCrew(p)

PointerNext ==
    \/ Measured \/ OpenTimerFires \/ CloseTimerFires \/ PointerMovesAfterDrop \/ PressOutside
    \/ \E x \in People \cup {"popover", None} : HoverTo(x)
    \/ \E p \in People : CardPress(p) \/ StartDrag(p)
    \/ \E c \in Columns \cup {None} : OnDragMove(c)
    \/ DropCommitted \/ DropReturned \/ SpringEnds

WriteNext ==
    \/ \E p \in People, rung \in Columns : MoveMenu(p, rung)
    \/ \E rung \in Columns : RoleMenu(rung)
    \/ DoRemove

LadderNext ==
    \/ Loaded
    \/ RosterNext /\ IF list = None THEN UNCHANGED ladderVars ELSE Redrawn
    \/ \E how \in {"failed", "denied"} : BodyLost(how)
    \/ \E which \in {"addPerson", "myCrews"} : PanelOpens(which)
    \/ PointerNext \/ WriteNext
    \/ KeyEnter \/ KeyEscape \/ \E p \in People : KeyMove(p)

LadderSpec == LadderInit /\ [][LadderNext]_screenVars

(***************************************************************************)
(* Properties                                                              *)
(***************************************************************************)
LadderTypeOK ==
    /\ at \in People \cup {"popover", None} /\ sel \in People \cup {None}
    /\ card = None \/ card \in [p : People, pinned : BOOLEAN]
    /\ Len(measuring) <= MaxMeasuring
    /\ \A m \in Range(measuring) : m.what \in {"pin", "hover", "pick", "early"} /\ m.p \in People
    /\ hover.close \in {"off", "on", "early"} /\ hover.overPop \in BOOLEAN
    /\ hover.overCard \in People \cup {None}
    /\ drag # None => drag.p \in People /\ drag.allowed \subseteq Columns
    /\ {suppress, moved, slipped} \subseteq BOOLEAN

(* A pinned hovercard stays until the user closes it (Esc, a press        *)
(* outside, a panel, a drag) or pins another: no pending hover downgrades *)
(* or closes it (PeopleScreen.tsx, openHovercard).  Excepted is a hover   *)
(* that began, or ended, while the pin was still being measured.          *)
PinStays ==
    [][Pinned => card' = card \/ cause' \in {"esc", "outside", "panel", "drag", "pin", "early", "unmount"}]_screenVars

(* A hovercard that was opened by hovering does not stay behind: the      *)
(* pointer is on its card or on the popover, or a timer is running that   *)
(* closes or replaces it (PeopleScreen.tsx, the hover handlers).          *)
(* Excepted, and left open by the code: the pointer leaves while the card *)
(* is being measured, leaves another card it had gone on to (for a third  *)
(* one only while the hover is suppressed after a drop), what it was over *)
(* is taken away, or Enter clears the timers for a selected person whose  *)
(* card is gone.  (And the state keeps its types.)                        *)
HoverCloses ==
    /\ LadderTypeOK
    /\ card # None /\ ~Pinned /\ ~slipped =>
        \/ at \in {card.p, "popover"}
        \/ hover.close # "off" \/ hover.open # None
        \/ measuring # <<>>
=============================================================================
