---------------------------- MODULE ClickOutside ----------------------------
(***************************************************************************)
(* clickOutside.js: one handler in a variable of the module tells the      *)
(* owner of an open dropdown of clicks outside its element.  A second      *)
(* dropdown takes the place of the first.  No component of the client uses *)
(* the module yet: the dropdowns here call it as its two functions and the *)
(* method CloseDropdown suggest.                                           *)
(***************************************************************************)
EXTENDS Naturals

Dropdowns == {"city", "product"}
Nobody == "nobody"

VARIABLE clicks  \* clickOutsideHandler, by the dropdown it tells; the listeners
                 \* on the document; the dropdowns open; those whose handler
                 \* was taken or removed by the other

ClickTypeOK ==
    clicks \in [handler : Dropdowns \cup {Nobody}, listeners : SUBSET Dropdowns,
                open : SUBSET Dropdowns, displaced : SUBSET Dropdowns]

ClickInit == clicks = [handler |-> Nobody, listeners |-> {}, open |-> {}, displaced |-> {}]

\* Mutant: the variable is reset, the listener stays on the document.
ForgetClickListener(s) == [s EXCEPT !.handler = Nobody]

RemoveClickListener(s) == [s EXCEPT !.listeners = @ \ {s.handler}, !.handler = Nobody]

AddClickListener(s, d) ==
    LET removed == IF s.handler = Nobody THEN s ELSE RemoveClickListener(s)
    IN  [removed EXCEPT !.handler = d, !.listeners = @ \cup {d}]

ClickOpen(d) ==
    /\ d \notin clicks.open
    /\ clicks' = [AddClickListener(clicks, d) EXCEPT
                    !.open = @ \cup {d},
                    !.displaced = (@ \ {d}) \cup (clicks.open \ {d})]

\* A dropdown that closes removes whatever handler there is.
Closes(s, d) ==
    [RemoveClickListener(s) EXCEPT !.open = @ \ {d},
                                   !.displaced = (@ \cup s.open) \ {d}]

ClickClose(d) ==
    /\ d \in clicks.open
    /\ clicks' = Closes(clicks, d)

\* A click outside the element of the dropdown that has the handler.
ClickElsewhere(d) ==
    /\ d \in clicks.listeners
    /\ clicks' = IF d \in clicks.open THEN Closes(clicks, d) ELSE clicks

ClickNext == \E d \in Dropdowns : ClickOpen(d) \/ ClickClose(d) \/ ClickElsewhere(d)

\* The document has the listener of the variable and no other, so each opening has
\* its one removal; and an open dropdown is told of clicks, unless the other one
\* displaced it: then it stays open (addClickListener, clickOutside.js:4).
ClickToldIfOpen ==
    /\ clicks.listeners = IF clicks.handler = Nobody THEN {} ELSE {clicks.handler}
    /\ \A d \in clicks.open \ clicks.displaced : clicks.handler = d

\* Handler, listener and open dropdowns agree (clickOutside.js).
ClickSafe ==
    /\ ClickTypeOK
    /\ ClickToldIfOpen
=============================================================================
