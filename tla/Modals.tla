------------------------------- MODULE Modals -------------------------------
(***************************************************************************)
(* The dialogs: ModalService, which every page and dialog shares, and the  *)
(* component Modal, which shows them.  The service has one field for the   *)
(* task that the opener of a dialog awaits, _tcs, and one for the dialog   *)
(* that a call of Close means, _currentModalId; but a dialog may open      *)
(* another (a list, a calendar), a save may end after its dialog was       *)
(* closed, and the cross and the backdrop close a dialog without the       *)
(* service.  A dialog has the number of its call of Show, and a task the   *)
(* number of its dialog.                                                   *)
(***************************************************************************)
EXTENDS Naturals

CONSTANT MaxDialogs  \* bound on the dialogs opened

ASSUME DialogsAssumption == MaxDialogs \in Nat

Dialogs == 1..MaxDialogs
NoDialog == 0

VARIABLE modals  \* the dialogs asked for, how far the call of each is and the
                 \* task it awaits; _tcs and _currentModalId; who answered each
                 \* task; the dialogs on the page, those fading out, those
                 \* saving; history: those whose button called Close, those
                 \* that were not alone

ShowSteps == {"none", "asked", "shown", "waiting", "returned"}

ModalTypeOK ==
    modals \in [asked : 0..MaxDialogs, step : [Dialogs -> ShowSteps],
                awaits : [Dialogs -> Dialogs \cup {NoDialog}],
                tcs : Dialogs \cup {NoDialog}, current : Dialogs \cup {NoDialog},
                answer : [Dialogs -> Dialogs \cup {NoDialog}],
                active : SUBSET Dialogs, fading : SUBSET Dialogs, saving : SUBSET Dialogs,
                closed : SUBSET Dialogs, mixed : SUBSET Dialogs]

ModalInit ==
    LET none == [d \in Dialogs |-> NoDialog]
    IN  modals = [asked |-> 0, step |-> [d \in Dialogs |-> "none"], awaits |-> none,
                  tcs |-> NoDialog, current |-> NoDialog, answer |-> none, active |-> {},
                  fading |-> {}, saving |-> {}, closed |-> {}, mixed |-> {}]

\* Dialogs that may still call the service, or be seen.
ModalBusy == {d \in Dialogs : modals.step[d] \in {"asked", "shown"}}
                \cup modals.active \cup modals.saving
-----------------------------------------------------------------------------
(* Show. *)

\* A page or a dialog asks for a dialog.
ModalAsk ==
    LET n == modals.asked + 1
    IN  /\ modals.asked < MaxDialogs
        /\ modals' = [modals EXCEPT !.asked = n, !.step[n] = "asked",
                        !.mixed = IF ModalBusy = {} THEN @ ELSE @ \cup ModalBusy \cup {n}]

\* Mutant: a task that is there is used again.
ModalShowAgain(n) ==
    /\ modals.step[n] = "asked"
    /\ modals' = [modals EXCEPT !.step[n] = "shown", !.current = n, !.active = @ \cup {n},
                                !.tcs = IF @ = NoDialog THEN n ELSE @]

\* Mutant: the dialog that Close means is not set.
ModalShowUnset(n) ==
    /\ modals.step[n] = "asked"
    /\ modals' = [modals EXCEPT !.step[n] = "shown", !.tcs = n, !.active = @ \cup {n}]

\* The console is answered: a new task, the current dialog, the event OnShow.  The
\* await of the console before that event (ModalService.cs:125) is part of this step:
\* a dialog that meets it is not alone, and of such dialogs nothing is claimed.
ModalShow(n) ==
    /\ modals.step[n] = "asked"
    /\ modals' = [modals EXCEPT !.step[n] = "shown", !.tcs = n, !.current = n,
                                !.active = @ \cup {n}]

\* After a delay it awaits the task that is in the field by then.
ModalWait(n) ==
    /\ modals.step[n] = "shown"
    /\ modals' = [modals EXCEPT !.step[n] = "waiting", !.awaits[n] = modals.tcs]

\* Mutant: the field is read again when the task is done.
ModalReturnCurrent(n) ==
    /\ modals.step[n] = "waiting"
    /\ modals.awaits[n] = modals.tcs
    /\ modals.answer[modals.awaits[n]] # NoDialog
    /\ modals' = [modals EXCEPT !.step[n] = "returned"]

ModalReturn(n) ==
    /\ modals.step[n] = "waiting"
    /\ modals.answer[modals.awaits[n]] # NoDialog
    /\ modals' = [modals EXCEPT !.step[n] = "returned"]
-----------------------------------------------------------------------------
(* Close. *)

\* Dialogs that are on the page begin to fade out.
Fade(s, dialogs) == [s EXCEPT !.fading = @ \cup (dialogs \cap s.active)]

\* Close(result) of a dialog: it answers the task in the field, if that has no
\* answer, and closes the current dialog, if there is one.
CloseCall(s, d) ==
    LET t == s.tcs
    IN  [Fade(s, {s.current}) EXCEPT
           !.answer = IF @[t] = NoDialog THEN [@ EXCEPT ![t] = d] ELSE @,
           !.current = NoDialog, !.closed = @ \cup {d}]

\* A button of the dialog, which closes at once, or saves first.
ModalPress(d) == d \in modals.active /\ modals' = CloseCall(modals, d)

ModalSave(d) ==
    /\ d \in modals.active
    /\ modals' = [modals EXCEPT !.saving = @ \cup {d}]

\* The server answers; a save that failed closes nothing.
ModalSaved(d) ==
    /\ d \in modals.saving
    /\ \E succeeded \in BOOLEAN :
         LET s == [modals EXCEPT !.saving = @ \ {d}]
         IN  modals' = IF succeeded THEN CloseCall(s, d) ELSE s

\* The cross or the backdrop: OnClose, and nothing for the opener.
ModalCross(d) == d \in modals.active /\ modals' = Fade(modals, {d})

\* The dialog has faded out.
ModalGone(d) ==
    /\ d \in modals.fading
    /\ modals' = [modals EXCEPT !.active = @ \ {d}, !.fading = @ \ {d}]

ModalNext ==
    \/ ModalAsk
    \/ \E d \in Dialogs : \/ ModalShow(d)
                          \/ ModalWait(d)
                          \/ ModalReturn(d)
                          \/ ModalPress(d)
                          \/ ModalSave(d)
                          \/ ModalSaved(d)
                          \/ ModalCross(d)
                          \/ ModalGone(d)

\* Delays end and tasks that are done go on.
ModalFair ==
    \A d \in Dialogs : /\ WF_modals(ModalShow(d))
                       /\ WF_modals(ModalWait(d))
                       /\ WF_modals(ModalReturn(d))
                       /\ WF_modals(ModalGone(d))

ModalSpec == ModalInit /\ [][ModalNext]_modals /\ ModalFair
-----------------------------------------------------------------------------
(* Properties. *)

\* The opener of a dialog gets that dialog's answer, unless another dialog was
\* opened, shown or saving at the same time.
ModalOwnAnswer ==
    \A d \in Dialogs \ modals.mixed : {modals.awaits[d], modals.answer[d]} \subseteq {NoDialog, d}

\* A button of a dialog that was alone closes it and answers its opener; one that
\* opened a list or a calendar is not closed by its own buttons any more
\* (ModalService.cs:179-185), nor need the dialog that Close hits be its own.
ModalButtonsWork ==
    \A d \in modals.closed \ modals.mixed :
        /\ d \in modals.active => d \in modals.fading
        /\ modals.answer[d] = d

\* And then its opener goes on and the dialog leaves the page.
ModalEnds ==
    \A d \in Dialogs :
        d \in modals.closed ~> \/ d \in modals.mixed
                               \/ modals.step[d] = "returned" /\ d \notin modals.active

\* A dialog that is alone is answered by its own buttons and closed by them.
ModalSafe ==
    /\ ModalTypeOK
    /\ ModalOwnAnswer
    /\ ModalButtonsWork
=============================================================================
