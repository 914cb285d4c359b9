----------------------------- MODULE ClientPage -----------------------------
(***************************************************************************)
(* The page of the client: the scripts of wwwroot/js and the components    *)
(* that call them, each specified in a module of its own.  They share no   *)
(* variable, so a step of one is no step of another, and nothing that a    *)
(* module says of its component depends on the others.  A behaviour here   *)
(* is therefore one of a single component, the focus, with the others at   *)
(* rest: any property of one component that an interleaving of all could   *)
(* violate is violated by a behaviour with that focus.                     *)
(***************************************************************************)
EXTENDS StartScreen, Translations, Appearance, HomeEffects, HomeSlider,
        ScrollEffects, SmoothScroll, PointerEffects, Editors, Alerts, ClickOutside, Modals

VARIABLE focus  \* the component whose behaviour this is

Components ==
    {"start", "texts", "look", "home", "slider", "scroll", "smooth", "pointer", "editors",
     "alerts", "clicks", "modals"}

homeAndSlider == <<homeVars, slider>>
scrolling == <<scrollVars, smooth>>
dialogs == <<editorVars, alertVars, clicks, modals>>
settings == <<langVars, look>>

pageVars == <<focus, startScreen, settings, homeAndSlider, scrolling, pointer, dialogs>>

\* Components without focus begin in one state of theirs.
PageInit ==
    /\ focus \in Components
    /\ StartInit
    /\ LangInit
    /\ focus # "texts" => saved = NoTexts
    /\ LookInit
    /\ focus # "look" => look.shown = "dark"
    /\ HomeInit
    /\ SliderInit
    /\ ScrollInit
    /\ focus # "scroll" => gsap
    /\ SmoothInit
    /\ focus # "smooth" => smooth.gsap
    /\ PointerInit
    /\ focus # "pointer" => pointer.effect = "tilt"
    /\ EditorInit
    /\ AlertInit
    /\ ClickInit
    /\ ModalInit

PageNext ==
    /\ UNCHANGED focus
    /\ \/ focus = "start" /\ StartNext
          /\ UNCHANGED <<settings, homeAndSlider, scrolling, pointer, dialogs>>
       \/ focus = "texts" /\ LangNext
          /\ UNCHANGED <<startScreen, look, homeAndSlider, scrolling, pointer, dialogs>>
       \/ focus = "look" /\ LookNext
          /\ UNCHANGED <<startScreen, langVars, homeAndSlider, scrolling, pointer, dialogs>>
       \/ focus = "home" /\ HomeNext
          /\ UNCHANGED <<startScreen, settings, slider, scrolling, pointer, dialogs>>
       \/ focus = "slider" /\ SliderNext
          /\ UNCHANGED <<startScreen, settings, homeVars, scrolling, pointer, dialogs>>
       \/ focus = "scroll" /\ ScrollNext
          /\ UNCHANGED <<startScreen, settings, homeAndSlider, smooth, pointer, dialogs>>
       \/ focus = "smooth" /\ SmoothNext
          /\ UNCHANGED <<startScreen, settings, homeAndSlider, scrollVars, pointer, dialogs>>
       \/ focus = "pointer" /\ PointerNext
          /\ UNCHANGED <<startScreen, settings, homeAndSlider, scrolling, dialogs>>
       \/ focus = "editors" /\ EditorNext
          /\ UNCHANGED <<startScreen, settings, homeAndSlider, scrolling, pointer, alertVars, clicks, modals>>
       \/ focus = "alerts" /\ AlertNext
          /\ UNCHANGED <<startScreen, settings, homeAndSlider, scrolling,
                         pointer, editorVars, clicks, modals>>
       \/ focus = "clicks" /\ ClickNext
          /\ UNCHANGED <<startScreen, settings, homeAndSlider, scrolling,
                         pointer, editorVars, alertVars, modals>>
       \/ focus = "modals" /\ ModalNext
          /\ UNCHANGED <<startScreen, settings, homeAndSlider, scrolling,
                         pointer, editorVars, alertVars, clicks>>

\* What each component assumes of the browser, the timers and the server.
PageFair ==
    /\ StartFair
    /\ LangFair
    /\ HomeFair
    /\ SliderFair
    /\ EditorFair
    /\ AlertFair
    /\ ModalFair

PageSpec == PageInit /\ [][PageNext]_pageVars /\ PageFair

\* What the page began by itself comes to its end: the start screen goes, and loops of
\* frames end with their page; the slider goes on meanwhile.
EffectsEnd ==
    /\ StartScreenGoes
    /\ HomeLoopsEnd
    /\ SliderMoves

\* What the user asked for is done or fails: the language is loaded, the editor
\* comes, the upload settles, the alert goes, the dialog answers and closes.
RequestsEnd ==
    /\ LangLoadsEnd
    /\ EditorComes
    /\ UploadSettles
    /\ AlertGoes
    /\ ModalEnds
=============================================================================
