------------------------------ MODULE Editors -------------------------------
(***************************************************************************)
(* The text editors of the dialogs: the component CKEditorBlazor, the      *)
(* script CKEditorInterop.js and the uploads of images.  A component loads *)
(* the library and then the script in steps of its own, and appends the    *)
(* script again even if window.CKEditorInterop is there: when that copy    *)
(* runs it puts a new object, with no editors, in its place.  The copies   *)
(* that have run are numbered, the last is the one in use.                 *)
(*                                                                         *)
(* A component has the number of its dialog; one dialog is open at a time, *)
(* and what an earlier one began goes on.  CKEditor itself is external: an *)
(* editor is created or fails to be, and its loader aborts an upload.      *)
(***************************************************************************)
EXTENDS Naturals

CONSTANT MaxEditors  \* bound on the dialogs opened

ASSUME EditorsAssumption == MaxEditors \in Nat

Editors == 1..MaxEditors
NoEditor == 0

VARIABLES
    dialog,   \* dialogs so far, the one open, what each component waits for;
              \* history: how each was when it was closed
    interop,  \* the copies of the script still to run, those that have run, the
              \* components that may go on, and for each editor the copy it
              \* was asked of
    editors,  \* those being created, alive, and in the map of their copy
    upload    \* the upload of each editor; those the user aborted

editorVars == <<dialog, interop, editors, upload>>

EditorSteps == {"none", "library", "script", "done", "failed"}
Closings == {"open", "early", "outdated", "known"}
UploadSteps == {"none", "reading", "sent", "inserted", "rejected"}

EditorTypeOK ==
    /\ dialog \in [opened : 0..MaxEditors, open : Editors \cup {NoEditor},
                   step : [Editors -> EditorSteps], closed : [Editors -> Closings]]
    /\ interop \in [waiting : SUBSET Editors, copies : 0..MaxEditors,
                    ready : SUBSET Editors, copy : [Editors -> 0..MaxEditors]]
    /\ editors \in [creating : SUBSET Editors, live : SUBSET Editors, map : SUBSET Editors]
    /\ upload \in [step : [Editors -> UploadSteps], aborted : SUBSET Editors]

EditorInit ==
    /\ dialog = [opened |-> 0, open |-> NoEditor, step |-> [e \in Editors |-> "none"],
                 closed |-> [e \in Editors |-> "open"]]
    /\ interop = [waiting |-> {}, copies |-> 0, ready |-> {}, copy |-> [e \in Editors |-> 0]]
    /\ editors = [creating |-> {}, live |-> {}, map |-> {}]
    /\ upload = [step |-> [e \in Editors |-> "none"], aborted |-> {}]
-----------------------------------------------------------------------------
(* The component. *)

\* A dialog is opened and its component appends the library.
EditorOpen ==
    LET e == dialog.opened + 1
    IN  /\ dialog.open = NoEditor
        /\ dialog.opened < MaxEditors
        /\ dialog' = [dialog EXCEPT !.opened = e, !.open = e, !.step[e] = "library"]
        /\ UNCHANGED <<interop, editors, upload>>

\* Mutant: a script that is there is not waited for, nor taken as loaded.
EditorLibraryRunsOnly(e) ==
    /\ dialog.step[e] = "library"
    /\ dialog' = [dialog EXCEPT !.step[e] = "script"]
    /\ interop' = IF interop.copies > 0 THEN interop
                  ELSE [interop EXCEPT !.waiting = @ \cup {e}]
    /\ UNCHANGED <<editors, upload>>

\* The library is there; the script is appended in any case, and waited for if
\* there is none.
EditorLibraryRuns(e) ==
    /\ dialog.step[e] = "library"
    /\ dialog' = [dialog EXCEPT !.step[e] = "script"]
    /\ interop' = [interop EXCEPT !.waiting = @ \cup {e},
                                  !.ready = IF interop.copies > 0 THEN @ \cup {e} ELSE @]
    /\ UNCHANGED <<editors, upload>>

EditorLibraryFails(e) ==
    /\ dialog.step[e] = "library"
    /\ dialog' = [dialog EXCEPT !.step[e] = "failed"]
    /\ UNCHANGED <<interop, editors, upload>>

\* A copy of the script runs.
EditorScriptRuns(e) ==
    /\ e \in interop.waiting
    /\ interop' = [interop EXCEPT !.waiting = @ \ {e}, !.copies = @ + 1, !.ready = @ \cup {e}]
    /\ UNCHANGED <<dialog, editors, upload>>

\* It cannot be loaded: a promise that is kept already does not mind.
EditorScriptFails(e) ==
    /\ e \in interop.waiting
    /\ interop' = [interop EXCEPT !.waiting = @ \ {e}]
    /\ dialog' = IF e \in interop.ready THEN dialog ELSE [dialog EXCEPT !.step[e] = "failed"]
    /\ UNCHANGED <<editors, upload>>

\* init: the creation begins; without the element it fails.
EditorAsked(e) ==
    /\ dialog.step[e] = "script"
    /\ e \in interop.ready
    /\ dialog' = [dialog EXCEPT !.step[e] = "done"]
    /\ interop' = [interop EXCEPT !.copy[e] = interop.copies]
    /\ editors' = IF e = dialog.open THEN [editors EXCEPT !.creating = @ \cup {e}] ELSE editors
    /\ UNCHANGED upload

\* The editor is created, whether or not its dialog is still open, or is not.
EditorCreated(e) ==
    /\ e \in editors.creating
    /\ \E created \in BOOLEAN :
         /\ editors' = [creating |-> editors.creating \ {e},
                        live |-> IF created THEN editors.live \cup {e} ELSE editors.live,
                        map |-> IF created THEN editors.map \cup {e} ELSE editors.map]
         /\ dialog' = IF created THEN dialog ELSE [dialog EXCEPT !.step[e] = "failed"]
    /\ UNCHANGED <<interop, upload>>

\* Mutant: the editor is only forgotten.
EditorForget(e) == [editors EXCEPT !.map = @ \ {e}]

\* destroy, of the copy in use: it throws if that copy does not know the editor.
EditorDestroy(e) ==
    IF e \in editors.map /\ interop.copy[e] = interop.copies
    THEN [editors EXCEPT !.live = @ \ {e}, !.map = @ \ {e}]
    ELSE editors

\* The dialog is closed; Dispose.
EditorClose(e) ==
    /\ e = dialog.open
    /\ dialog' = [dialog EXCEPT !.open = NoEditor,
                    !.closed[e] = IF e \notin editors.live THEN "early"
                                  ELSE IF interop.copy[e] # interop.copies THEN "outdated"
                                  ELSE "known"]
    /\ editors' = EditorDestroy(e)
    /\ UNCHANGED <<interop, upload>>
-----------------------------------------------------------------------------
(* Uploads. *)

UploadStep(e, from, to) ==
    /\ upload.step[e] = from
    /\ upload' = [upload EXCEPT !.step[e] = to]
    /\ UNCHANGED <<dialog, interop, editors>>

UploadStart(e) == e = dialog.open /\ e \in editors.live /\ UploadStep(e, "none", "reading")

\* upload(): the file is read and the request sent, or the reading fails.
UploadRead(e) == \E step \in {"sent", "rejected"} : UploadStep(e, "reading", step)

\* Mutant: an answer that comes after the editor was destroyed is not heard.
UploadAnsweredLive(e) ==
    /\ e \in editors.live
    /\ \E step \in {"inserted", "rejected"} : UploadStep(e, "sent", step)

\* The answer: an address, or an error of the server or the network.
UploadAnswered(e) == \E step \in {"inserted", "rejected"} : UploadStep(e, "sent", step)

\* Mutant: the request of an upload that is aborted goes on.
UploadAbortReading(e) ==
    /\ upload.step[e] \in {"reading", "sent"}
    /\ upload' = [upload EXCEPT !.aborted = @ \cup {e},
                                !.step[e] = IF @ = "reading" THEN "rejected" ELSE @]
    /\ UNCHANGED <<dialog, interop, editors>>

\* The user aborts the upload: CKEditor rejects the file that is being read, or
\* abort() ends the request, which rejects the upload.
UploadAbort(e) ==
    /\ upload.step[e] \in {"reading", "sent"}
    /\ upload' = [upload EXCEPT !.aborted = @ \cup {e}, !.step[e] = "rejected"]
    /\ UNCHANGED <<dialog, interop, editors>>

EditorNext ==
    \/ EditorOpen
    \/ \E e \in Editors : \/ EditorLibraryRuns(e)
                          \/ EditorLibraryFails(e)
                          \/ EditorScriptRuns(e)
                          \/ EditorScriptFails(e)
                          \/ EditorAsked(e)
                          \/ EditorCreated(e)
                          \/ EditorClose(e)
                          \/ UploadStart(e)
                          \/ UploadRead(e)
                          \/ UploadAnswered(e)
                          \/ UploadAbort(e)

\* The browser loads scripts or reports an error, the promises go on, and requests
\* are answered or fail.
EditorFair ==
    \A e \in Editors : /\ WF_editorVars(EditorLibraryRuns(e) \/ EditorLibraryFails(e))
                       /\ WF_editorVars(EditorScriptRuns(e) \/ EditorScriptFails(e))
                       /\ WF_editorVars(EditorAsked(e))
                       /\ WF_editorVars(EditorCreated(e))
                       /\ WF_editorVars(UploadRead(e))
                       /\ WF_editorVars(UploadAnswered(e))

EditorSpec == EditorInit /\ [][EditorNext]_editorVars /\ EditorFair
-----------------------------------------------------------------------------
(* Properties. *)

\* The editor of a closed dialog is gone, unless it was closed before the editor
\* was there, or after another copy of the script replaced the one that knows
\* it: then nothing will ever destroy it (CKEditorBlazor.razor:46, 67).
EditorsDestroyed ==
    \A e \in editors.live : e = dialog.open \/ dialog.closed[e] \in {"early", "outdated"}

\* The editor of the open dialog gets ready, however the scripts of earlier dialogs
\* come in, unless a script or the creation fails.
EditorComes ==
    \A e \in Editors :
        e = dialog.open ~> \/ e # dialog.open
                           \/ e \in editors.live
                           \/ dialog.step[e] = "failed"

\* An image whose upload was aborted is never inserted.
UploadAbortHolds == \A e \in upload.aborted : upload.step[e] = "rejected"

\* An upload settles.
UploadSettles ==
    \A e \in Editors :
        upload.step[e] = "reading" ~> upload.step[e] \in {"inserted", "rejected"}

\* What the user ended stays ended: the editor of a closed dialog and an upload that
\* was aborted.
EditorSafe ==
    /\ EditorTypeOK
    /\ EditorsDestroyed
    /\ UploadAbortHolds
=============================================================================
