-------------------------- MODULE ClientPageProofs --------------------------
(***************************************************************************)
(* The components of the page keep what they promise for any number of     *)
(* loads, visits, dialogs and calls.  Each component has an inductive      *)
(* invariant of its own; the steps of the others do not touch it.          *)
(***************************************************************************)
EXTENDS ClientPage, FiniteSetTheorems, TLAPS

----------------------------------------------------------------------------
(* The start screen. *)

\* A timer that will hide the screen has given the page its scrolling back.
StartInv ==
    /\ StartSafe
    /\ "dismiss" \in startScreen.timers => startScreen.scrolls

LEMMA StartInvInit == StartInit => StartInv
BY DEF StartInit, StartInv, StartSafe, StartTypeOK, StartScrolls, StartTimers

LEMMA StartInvStep == StartInv /\ [StartNext]_startScreen => StartInv'
<1> SUFFICES ASSUME StartInv, [StartNext]_startScreen PROVE StartInv'
  OBVIOUS
<1> USE DEF StartInv, StartSafe, StartTypeOK, StartScrolls, StartTimers
<1>1. CASE StartShow
  BY <1>1 DEF StartShow
<1>2. CASE StartPageLoaded
  BY <1>2 DEF StartPageLoaded
<1>3. CASE StartBlazorFails
  BY <1>3 DEF StartBlazorFails, StartDismiss
<1>4. CASE StartRendered
  BY <1>4 DEF StartRendered, StartDismiss
<1>5. CASE StartFallback
  BY <1>5 DEF StartFallback, StartDismiss
<1>6. CASE StartForce
  BY <1>6 DEF StartForce
<1>7. CASE StartDismissTimer
  BY <1>7 DEF StartDismissTimer
<1>8. CASE \E timer \in {"fade", "cut"} : StartRemove(timer)
  BY <1>8, ZenonT(60) DEF StartRemove
<1>9. CASE UNCHANGED startScreen
  BY <1>9
<1> QED
  BY <1>1, <1>2, <1>3, <1>4, <1>5, <1>6, <1>7, <1>8, <1>9 DEF StartNext

----------------------------------------------------------------------------
(* The flags of the layout and of the home page. *)

\* Between two pages of the administration the sidebar is closed, or the layout is
\* known to be mistaken.
LookInv ==
    /\ LookSafe
    /\ look.page # "admin" /\ ~look.rebuilt => ~look.open

LEMMA Opposites == \A t \in Themes : Opposite(t) \in Themes
<1> SUFFICES ASSUME NEW t \in Themes PROVE Opposite(t) \in Themes
  OBVIOUS
<1>1. \E u \in Themes : u # t
  BY DEF Themes
<1> QED
  BY <1>1 DEF Opposite

LEMMA LookInvInit == LookInit => LookInv
<1> SUFFICES ASSUME NEW theme \in Themes,
                    look = [shown |-> theme, stored |-> theme, layoutIcon |-> theme,
                            homeIcon |-> "dark", page |-> "landing", open |-> FALSE,
                            class |-> FALSE, otherTab |-> FALSE, stale |-> {}, rebuilt |-> FALSE]
             PROVE  LookInv
  BY DEF LookInit
<1>1. LookTypeOK
  BY DEF LookTypeOK, Themes
<1>2. LookAgrees /\ LookSidebarKnown
  BY DEF LookAgrees, LookSidebarKnown
<1> QED
  BY <1>1, <1>2 DEF LookInv, LookSafe

LEMMA LookInvStep == LookInv /\ [LookNext]_look => LookInv'
<1> SUFFICES ASSUME LookInv, [LookNext]_look PROVE LookInv'
  OBVIOUS
<1> USE DEF LookInv, LookSafe, LookTypeOK, LookAgrees, LookSidebarKnown
<1>1. ASSUME NEW page \in {"home", "landing", "admin"}, LookOpen(page) PROVE LookInv'
  <2>1. /\ look'.page = page /\ look'.class = FALSE
        /\ look'.open = look.open
        /\ look'.rebuilt <=> look.rebuilt \/ (look.page = "admin" /\ look.open)
        /\ look'.layoutIcon = look.layoutIcon
        /\ look'.stored = look.stored
        /\ page # look.page
    BY <1>1 DEF LookOpen, SetTheme
  <2>2. CASE page = "home"
    <3>1. /\ look'.shown = look.stored /\ look'.homeIcon = look.stored
          /\ look'.otherTab = FALSE
          /\ look'.stale = (IF look.stored = look.shown THEN look.stale ELSE {"layout", "home"})
                              \ {"home"}
      BY <1>1, <2>2 DEF LookOpen, SetTheme
    <3> QED
      BY <1>1, <2>1, <2>2, <3>1, ZenonT(60) DEF LookOpen, SetTheme
  <2>3. CASE page # "home"
    <3>1. /\ look'.shown = look.shown /\ look'.homeIcon = look.homeIcon
          /\ look'.otherTab = look.otherTab
          /\ look'.stale = look.stale
      BY <1>1, <2>3 DEF LookOpen
    <3> QED
      BY <1>1, <2>1, <2>3, <3>1 DEF LookOpen
  <2> QED
    BY <2>2, <2>3
<1>2. ASSUME NEW who \in {"layout", "home"}, LookToggle(who) PROVE LookInv'
  BY <1>2, Opposites, ZenonT(60) DEF LookToggle, ToggleTheme, SetTheme
<1>3. CASE LookOtherTab
  BY <1>3, Opposites DEF LookOtherTab
<1>4. CASE LookSidebar
  BY <1>4 DEF LookSidebar
<1>5. CASE UNCHANGED look
  BY <1>5
<1> QED
  BY <1>1, <1>2, <1>3, <1>4, <1>5 DEF LookNext

----------------------------------------------------------------------------
(* Clicks outside a dropdown: the invariant is inductive as it stands. *)

LEMMA ClickInvInit == ClickInit => ClickSafe
BY DEF ClickInit, ClickSafe, ClickTypeOK, ClickToldIfOpen, Nobody, Dropdowns

LEMMA ClickInvStep == ClickSafe /\ [ClickNext]_clicks => ClickSafe'
<1> SUFFICES ASSUME ClickSafe, [ClickNext]_clicks PROVE ClickSafe'
  OBVIOUS
<1> USE DEF ClickSafe, ClickTypeOK, ClickToldIfOpen, Dropdowns, Nobody
<1>1. ASSUME NEW d \in Dropdowns, ClickOpen(d) PROVE ClickSafe'
  BY <1>1, ZenonT(60) DEF ClickOpen, AddClickListener, RemoveClickListener
<1>2. ASSUME NEW d \in Dropdowns, clicks' = Closes(clicks, d) PROVE ClickSafe'
  BY <1>2 DEF Closes, RemoveClickListener
<1>3. CASE UNCHANGED clicks
  BY <1>3
<1> QED
  BY <1>1, <1>2, <1>3 DEF ClickNext, ClickClose, ClickElsewhere

----------------------------------------------------------------------------
(* Smooth scrolling. *)

\* Who scrolls smoothly, and how often the clock calls: the instance kept is the
\* only one unless another was made over it, and callbacks are left over only
\* from an instance that was disposed.
SmoothKept ==
    /\ ~smooth.again => smooth.live = IF smooth.lenis = 0 THEN {} ELSE {smooth.lenis}
    /\ smooth.gsap /\ smooth.lenis # 0 => smooth.ticks >= 1
    /\ smooth.lenis = 0 /\ smooth.ticks > 0 => smooth.disposed
    /\ smooth.ticks > 1 => smooth.disposed \/ smooth.again
    /\ smooth.ticks <= smooth.made

SmoothInv == SmoothSafe /\ SmoothKept

LEMMA SmoothInvInit == SmoothInit => SmoothInv
BY LenisAssumption DEF SmoothInit, SmoothInv, SmoothSafe, SmoothTypeOK, SmoothDriven, SmoothKept

LEMMA SmoothInvStep == SmoothInv /\ [SmoothNext]_smooth => SmoothInv'
<1> SUFFICES ASSUME SmoothInv, [SmoothNext]_smooth PROVE SmoothInv'
  OBVIOUS
<1> USE LenisAssumption DEF SmoothInv, SmoothSafe, SmoothTypeOK, SmoothDriven, SmoothKept
<1>1. CASE InitSmoothScroll
  <2>1. /\ smooth'.gsap = smooth.gsap /\ smooth'.disposed = smooth.disposed
        /\ smooth'.failed = smooth.failed
        /\ smooth.made < MaxLenis /\ smooth'.made = smooth.made + 1
        /\ smooth'.lenis = smooth.made + 1
        /\ smooth'.live = smooth.live \cup {smooth.made + 1}
        /\ smooth'.ticks = IF smooth.gsap THEN smooth.ticks + 1 ELSE smooth.ticks
        /\ smooth'.again <=> smooth.again \/ smooth.lenis # 0
    BY <1>1 DEF InitSmoothScroll
  <2>2. SmoothTypeOK'
    <3>1. PICK ticks \in 0..MaxLenis, again \in BOOLEAN :
             smooth' = [smooth EXCEPT !.lenis = smooth.made + 1, !.made = smooth.made + 1,
                          !.live = smooth.live \cup {smooth.made + 1},
                          !.ticks = ticks, !.again = again]
      <4>1. (IF smooth.gsap THEN smooth.ticks + 1 ELSE smooth.ticks) \in 0..MaxLenis
        BY <2>1
      <4>2. (smooth.again \/ smooth.lenis # 0) \in BOOLEAN
        OBVIOUS
      <4> QED
        BY <1>1, <4>1, <4>2 DEF InitSmoothScroll
    <3>2. /\ smooth.made + 1 \in 0..MaxLenis
          /\ smooth.live \cup {smooth.made + 1} \in SUBSET (1..MaxLenis)
      BY <2>1
    <3> QED
      BY <3>1, <3>2
  <2>3. SmoothKept'
    BY <2>1
  <2>4. SmoothDriven'
    BY <2>1, <2>3
  <2> QED
    BY <2>2, <2>3, <2>4
<1>2. CASE DisposeSmoothScroll
  <2>1. /\ smooth'.gsap = smooth.gsap /\ smooth'.disposed = TRUE
        /\ smooth'.failed = smooth.failed
        /\ smooth'.made = smooth.made
        /\ smooth.lenis # 0 /\ smooth'.lenis = 0
        /\ smooth'.live = smooth.live \ {smooth.lenis}
        /\ smooth'.ticks = smooth.ticks
        /\ smooth'.again = smooth.again
    BY <1>2 DEF DisposeSmoothScroll
  <2>2. SmoothTypeOK'
    <3>1. 0 \in 0..MaxLenis /\ smooth.live \ {smooth.lenis} \in SUBSET (1..MaxLenis)
      OBVIOUS
    <3>2. smooth' = [smooth EXCEPT !.lenis = 0, !.live = smooth.live \ {smooth.lenis},
                                   !.disposed = TRUE]
      BY <1>2 DEF DisposeSmoothScroll
    <3> QED
      BY <3>1, <3>2
  <2>3. SmoothKept'
    BY <2>1
  <2>4. SmoothDriven'
    BY <2>1, <2>3
  <2> QED
    BY <2>2, <2>3, <2>4
<1>3. CASE SmoothTick
  BY <1>3 DEF SmoothTick
<1>4. CASE UNCHANGED smooth
  BY <1>4
<1> QED
  BY <1>1, <1>2, <1>3, <1>4 DEF SmoothNext

----------------------------------------------------------------------------
(* The slider. *)

\* There are no slides before they are loaded, and whoever leaves before the timers
\* are created leaves early.
SliderWaits ==
    /\ slider.awaits = "slides" => slider.count = 0
    /\ ~slider.shown /\ slider.awaits # "nothing" => slider.early

SliderInv == SliderSafe /\ SliderWaits

LEMMA SliderInvInit == SliderInit => SliderInv
BY SlidesAssumption
   DEF SliderInit, SliderInv, SliderSafe, SliderTypeOK, SliderShowsOne, SliderTimersEnd, SliderWaits

\* A step from slide to slide ends at a slide.
LEMMA SlideStays ==
    ASSUME SliderInv, NEW by \in {-1, 1}
    PROVE  \E i \in 0..MaxSlides :
               /\ i < slider.count \/ i = 0
               /\ Slide(slider, by) = [slider EXCEPT !.prev = slider.current, !.current = i]
<1> USE SlidesAssumption DEF SliderInv, SliderSafe, SliderTypeOK, SliderShowsOne
<1>1. CASE slider.count = 0
  <2>1. slider.current = 0 /\ 0 \in 0..MaxSlides
    BY <1>1
  <2>2. Slide(slider, by) = [slider EXCEPT !.prev = slider.current]
    BY <1>1 DEF Slide
  <2>3. [slider EXCEPT !.prev = slider.current]
          = [slider EXCEPT !.prev = slider.current, !.current = 0]
    BY <2>1
  <2> HIDE DEF SliderInv, SliderSafe, SliderTypeOK, SliderShowsOne
  <2> QED
    BY <2>1, <2>2, <2>3
<1>2. CASE slider.count # 0
  <2>1. (slider.current + by + slider.count) % slider.count \in 0..(slider.count - 1)
    <3> DEFINE a == slider.current + by + slider.count
               n == slider.count
    <3>1. a \in Int /\ n \in Nat \ {0}
      BY <1>2
    <3> HIDE DEF a, n
    <3>2. a % n \in 0..(n - 1)
      BY <3>1
    <3> QED
      BY <3>2 DEF a, n
  <2>2. Slide(slider, by) =
           [slider EXCEPT !.prev = slider.current,
                          !.current = (slider.current + by + slider.count) % slider.count]
    BY <1>2 DEF Slide
  <2>3. /\ slider.count - 1 < slider.count
        /\ 0..(slider.count - 1) \subseteq 0..MaxSlides
        /\ \A i \in 0..(slider.count - 1) : i < slider.count
    OBVIOUS
  <2> HIDE DEF SliderInv, SliderSafe, SliderTypeOK, SliderShowsOne
  <2> QED
    BY <2>1, <2>2, <2>3
<1> QED
  BY <1>1, <1>2

LEMMA SliderInvStep == SliderInv /\ [SliderNext]_slider => SliderInv'
<1> SUFFICES ASSUME SliderInv, [SliderNext]_slider PROVE SliderInv'
  OBVIOUS
<1> USE SlidesAssumption
    DEF SliderInv, SliderSafe, SliderTypeOK, SliderShowsOne, SliderTimersEnd, SliderWaits
<1>1. CASE SliderLoaded
  <2>1. PICK n \in 0..MaxSlides : slider' = [slider EXCEPT !.awaits = "others", !.count = n]
    BY <1>1 DEF SliderLoaded
  <2>2. /\ slider'.awaits = "others" /\ slider'.count = n
        /\ slider'.current = slider.current /\ slider'.prev = slider.prev
        /\ slider'.timers = slider.timers /\ slider'.shown = slider.shown
        /\ slider'.early = slider.early /\ slider.awaits = "slides"
    BY <1>1, <2>1 DEF SliderLoaded
  <2>3. SliderTypeOK'
    BY <2>1
  <2>4. slider.current = 0 /\ (slider.prev < 0 \/ slider.prev = 0)
    BY <2>2
  <2> QED
    BY <2>2, <2>3, <2>4
<1>2. CASE SliderStarts
  BY <1>2 DEF SliderStarts
<1>3. ASSUME NEW by \in {-1, 1}, slider' = Slide(slider, by)
      PROVE  SliderInv'
  <2>0. PICK i \in 0..MaxSlides :
           /\ i < slider.count \/ i = 0
           /\ slider' = [slider EXCEPT !.prev = slider.current, !.current = i]
    BY <1>3, SlideStays
  <2>1. /\ slider'.awaits = slider.awaits /\ slider'.count = slider.count
        /\ slider'.current \in 0..MaxSlides /\ slider'.prev = slider.current
        /\ slider'.timers = slider.timers /\ slider'.shown = slider.shown
        /\ slider'.early = slider.early
        /\ slider'.current < slider.count \/ slider'.current = 0
    BY <2>0
  <2>2. SliderTypeOK'
    <3>1. slider.current \in -1..MaxSlides
      OBVIOUS
    <3> QED
      BY <2>0, <3>1
  <2> QED
    BY <2>1, <2>2
<1>4. CASE SliderArrow
  BY <1>3, <1>4 DEF SliderArrow
<1>5. CASE SliderDot
  <2>1. PICK i \in 0..(slider.count - 1) :
           slider' = [slider EXCEPT !.prev = slider.current, !.current = i]
    BY <1>5 DEF SliderDot
  <2>2. i \in 0..MaxSlides /\ i < slider.count /\ slider.current \in -1..MaxSlides
    BY <2>1
  <2> QED
    BY <2>1, <2>2
<1>6. CASE SliderTick
  BY <1>3, <1>6 DEF SliderTick
<1>8. CASE SliderLeave
  <2>1. /\ slider'.awaits = slider.awaits /\ slider'.count = slider.count
        /\ slider'.current = slider.current /\ slider'.prev = slider.prev
        /\ slider'.timers = FALSE /\ slider'.shown = FALSE
        /\ slider'.early <=> slider.awaits # "nothing"
    BY <1>8 DEF SliderLeave
  <2>2. SliderTypeOK'
    <3>1. (slider.awaits # "nothing") \in BOOLEAN
      OBVIOUS
    <3> QED
      BY <1>8, <3>1 DEF SliderLeave
  <2> QED
    BY <2>1, <2>2
<1>7. CASE UNCHANGED slider
  BY <1>7
<1> QED
  BY <1>1, <1>2, <1>4, <1>5, <1>6, <1>7, <1>8 DEF SliderNext

----------------------------------------------------------------------------
(* The languages. *)

\* A load that is alone is the last one, of the current language, and each of its
\* steps leaves behind what the later ones build on.
LangInOrder ==
    /\ loads > 0 => culture[loads] = language
    /\ ~disturbed => \A n \in Loads : step[n] # "none" => n = loads
    /\ ~disturbed /\ loads > 0 =>
         /\ step[loads] # "fetch" => texts \in {language, NoTexts}
         /\ step[loads] \notin {"fetch", "save"} => saved = language
         /\ step[loads] \in {"none", "homeSave", "homeTurn"} => direction = language

LangInv == LangSafe /\ LangInOrder

LEMMA LangInvInit == LangInit => LangInv
<1> SUFFICES ASSUME LangInit PROVE LangInv
  OBVIOUS
<1> USE CulturesAssumption DEF LangInit, Loads
<1>1. LangTypeOK
  <2>1. culture \in [Loads -> Cultures] /\ step \in [Loads -> LangSteps]
    BY DEF LangSteps
  <2>2. loads \in 0..MaxLoads /\ fromHome \subseteq Loads
    OBVIOUS
  <2>4. disturbed \in BOOLEAN
    OBVIOUS
  <2>3. {language, direction} \subseteq Cultures /\ {texts, saved} \subseteq Cultures \cup {NoTexts}
    OBVIOUS
  <2> QED
    BY <2>1, <2>2, <2>3, <2>4 DEF LangTypeOK
<1>2. LangSettled /\ LangInOrder
  BY DEF LangSettled, LangInOrder
<1> QED
  BY <1>1, <1>2 DEF LangInv, LangSafe

LEMMA LangBeginKeeps ==
    ASSUME LangInv, NEW c \in Cultures, NEW mark \in BOOLEAN, LangBegin(c, mark)
    PROVE  LangInv'
<1> USE CulturesAssumption DEF Loads
<1>1. /\ loads' = loads + 1 /\ loads' \in Loads /\ loads' > 0
      /\ language' = c
      /\ culture' = [culture EXCEPT ![loads'] = c]
      /\ step' = [step EXCEPT ![loads'] = "fetch"]
      /\ UNCHANGED <<texts, saved, direction>>
  BY DEF LangBegin, LangInv, LangSafe, LangTypeOK
<1>2. /\ culture \in [Loads -> Cultures] /\ step \in [Loads -> LangSteps]
      /\ disturbed \in BOOLEAN
  BY DEF LangInv, LangSafe, LangTypeOK
<1>3. disturbed' \in BOOLEAN /\ (~disturbed' => LangUnderWay = {})
  BY <1>2 DEF LangBegin
<1>4. fromHome' \subseteq Loads
  BY <1>1 DEF LangBegin, LangInv, LangSafe, LangTypeOK
<1>5. LangTypeOK'
  <2>1. culture' \in [Loads -> Cultures] /\ step' \in [Loads -> LangSteps]
    BY <1>1, <1>2 DEF LangSteps
  <2>2. /\ {language', direction'} \subseteq Cultures
        /\ {texts', saved'} \subseteq Cultures \cup {NoTexts}
        /\ loads' \in 0..MaxLoads
    BY <1>1 DEF LangInv, LangSafe, LangTypeOK
  <2> QED
    BY <1>3, <1>4, <2>1, <2>2 DEF LangTypeOK
<1>6. step'[loads'] = "fetch" /\ culture'[loads'] = language'
  BY <1>1, <1>2
<1>7. ~disturbed' => \A n \in Loads : step'[n] # "none" => n = loads'
  BY <1>1, <1>2, <1>3 DEF LangUnderWay
<1>8. LangInOrder'
  BY <1>6, <1>7 DEF LangInOrder
<1>9. LangUnderWay' # {}
  BY <1>1, <1>6 DEF LangUnderWay
<1> QED
  BY <1>5, <1>8, <1>9 DEF LangInv, LangSafe, LangSettled

\* A step of one load.
LEMMA LangStepKeeps ==
    ASSUME LangInv, NEW n \in Loads,
           LangFetched(n) \/ LangSave(n) \/ LangSaveFails(n) \/ LangTurn(n)
    PROVE  LangInv'
<1> USE CulturesAssumption DEF Loads
<1>1. UNCHANGED <<language, loads, culture, fromHome>>
  BY DEF LangFetched, LangSave, LangSaveFails, LangTurn
<1>2. LangTypeOK /\ LangInOrder
  BY DEF LangInv, LangSafe
<1>3. PICK next \in LangSteps : step' = [step EXCEPT ![n] = next] /\ step[n] # "none"
  BY <1>2 DEF LangFetched, LangSave, LangSaveFails, LangTurn, LangTypeOK, LangSteps
<1>4. step' \in [Loads -> LangSteps] /\ step'[n] = next
  BY <1>2, <1>3 DEF LangTypeOK
<1>5. culture[n] \in Cultures
  BY <1>2 DEF LangTypeOK
<1>6. LangTypeOK'
  <2>1. /\ {language', direction'} \subseteq Cultures
        /\ {texts', saved'} \subseteq Cultures \cup {NoTexts}
        /\ disturbed' \in BOOLEAN
    BY <1>2, <1>5 DEF LangTypeOK, LangFetched, LangSave, LangSaveFails, LangTurn
  <2> QED
    BY <1>1, <1>2, <1>4, <2>1 DEF LangTypeOK
<1>7. ~disturbed' => ~disturbed /\ ~LangSaveFails(n)
  BY DEF LangFetched, LangSave, LangSaveFails, LangTurn
<1>8. ASSUME ~disturbed'
      PROVE  /\ n = loads /\ loads > 0 /\ culture[n] = language
             /\ \A m \in Loads : step'[m] # "none" => m = loads
  BY <1>2, <1>3, <1>7, <1>8 DEF LangInOrder, LangTypeOK
<1>9. ASSUME ~disturbed'
      PROVE  /\ step'[loads] # "fetch" => texts' \in {language, NoTexts}
             /\ step'[loads] \notin {"fetch", "save"} => saved' = language
             /\ step'[loads] \in {"none", "homeSave", "homeTurn"} => direction' = language
  <2>1. /\ step[loads] # "fetch" => texts \in {language, NoTexts}
        /\ step[loads] \notin {"fetch", "save"} => saved = language
        /\ step[loads] \in {"none", "homeSave", "homeTurn"} => direction = language
    BY <1>2, <1>7, <1>8, <1>9 DEF LangInOrder
  <2>2. CASE LangFetched(n)
    <3>1. step'[n] = "save"
      BY <1>2, <2>2 DEF LangFetched, LangTypeOK
    <3> QED
      BY <1>8, <1>9, <2>2, <3>1 DEF LangFetched
  <2>3. CASE LangSave(n)
    <3>1. /\ step[n] = "save" => step'[n] = "turn"
          /\ step[n] = "homeSave" => step'[n] = "homeTurn"
          /\ step[n] \in {"save", "homeSave"}
      BY <1>2, <2>3 DEF LangSave, LangTypeOK
    <3>2. saved' = language /\ texts' = texts /\ direction' = direction
      BY <1>8, <1>9, <2>3 DEF LangSave
    <3> QED
      BY <1>8, <1>9, <2>1, <3>1, <3>2
  <2>4. CASE LangTurn(n)
    <3>1. step[n] \in {"turn", "homeTurn"} /\ step'[n] \in {"homeSave", "none"}
      BY <1>2, <2>4 DEF LangTurn, LangTypeOK
    <3>2. saved' = saved /\ texts' = texts /\ direction' = language
      BY <1>8, <1>9, <2>4 DEF LangTurn
    <3> QED
      BY <1>8, <1>9, <2>1, <3>1, <3>2
  <2> QED
    BY <1>7, <1>9, <2>2, <2>3, <2>4
<1>10. LangInOrder'
  <2>1. loads' > 0 => culture'[loads'] = language'
    BY <1>1, <1>2 DEF LangInOrder
  <2> QED
    BY <1>1, <1>8, <1>9, <2>1 DEF LangInOrder
<1>11. LangSettled'
  <2> SUFFICES ASSUME LangUnderWay' = {}, loads' > 0, ~disturbed'
               PROVE  texts' \in {language', NoTexts} /\ saved' = language' /\ direction' = language'
    BY DEF LangSettled
  <2>1. loads \in Loads /\ step'[loads] = "none"
    BY <1>1, <1>8 DEF LangUnderWay
  <2> QED
    BY <1>1, <1>9, <2>1
<1> QED
  BY <1>6, <1>10, <1>11 DEF LangInv, LangSafe

LEMMA LangInvStep == LangInv /\ [LangNext]_langVars => LangInv'
<1> SUFFICES ASSUME LangInv, [LangNext]_langVars PROVE LangInv'
  OBVIOUS
<1>1. language \in Cultures /\ saved \in Cultures \cup {NoTexts}
  BY DEF LangInv, LangSafe, LangTypeOK
<1>2. CASE LangInitialize
  <2>1. (IF saved = NoTexts THEN language ELSE saved) \in Cultures
    BY <1>1
  <2> QED
    BY <1>2, <2>1, LangBeginKeeps DEF LangInitialize
<1>3. CASE LangToggle \/ LangToggleHome
  BY <1>3, LangBeginKeeps DEF LangToggle, LangToggleHome
<1>4. CASE \E n \in Loads : LangFetched(n) \/ LangSave(n) \/ LangSaveFails(n) \/ LangTurn(n)
  BY <1>4, LangStepKeeps
<1>5. CASE UNCHANGED langVars
  BY <1>5 DEF langVars, LangInv, LangSafe, LangTypeOK, LangSettled, LangInOrder, LangUnderWay
<1> QED
  BY <1>2, <1>3, <1>4, <1>5 DEF LangNext

----------------------------------------------------------------------------
(* The toasts. *)

\* What is on the page, or will be touched by a timer, is of a call that was made;
\* a duration is one that was asked for, and only what hides is removed.
AlertOrder ==
    \A n \in Calls :
        /\ n > alertService.calls => alertService.step[n] = "none"
        /\ n \in alertPage.alerts \cup alertPage.hide => alertService.step[n] = "done"
        /\ <<"duration", n>> \in alertPage.timers =>
             alertService.step[n] = "done" /\ alertService.kind[n] = "timed"
        /\ <<"remove", n>> \in alertPage.timers => n \in alertPage.hide

AlertInv == AlertSafe /\ AlertOrder

LEMMA AlertInvInit == AlertInit => AlertInv
<1> SUFFICES ASSUME AlertInit PROVE AlertInv
  OBVIOUS
<1> USE CallsAssumption DEF AlertInit, Calls
<1>1. AlertTypeOK
  <2>1. /\ [n \in Calls |-> "timed"] \in [Calls -> CallKinds]
        /\ [n \in Calls |-> "none"] \in [Calls -> CallSteps]
        /\ 0 \in 0..MaxCalls
    BY DEF CallKinds, CallSteps
  <2> QED
    BY <2>1 DEF AlertTypeOK
<1>2. AlertOneContainer /\ AlertLasts /\ AlertOrder
  BY DEF AlertOneContainer, AlertLasts, AlertOrder
<1> QED
  BY <1>1, <1>2 DEF AlertInv, AlertSafe

\* A call that begins is a new one, of which the page knows nothing.
LEMMA AlertCallKeeps ==
    ASSUME AlertInv, NEW kind \in CallKinds, AlertCall(kind)
    PROVE  AlertInv'
<1> USE CallsAssumption DEF Calls
<1> DEFINE n == alertService.calls + 1
<1>1. alertService.calls \in 0..MaxCalls /\ n \in Calls
  BY DEF AlertCall, AlertInv, AlertSafe, AlertTypeOK
<1>2. PICK next \in {"call", "import"} :
         alertService' = [alertService EXCEPT !.calls = n, !.kind[n] = kind, !.step[n] = next]
  BY DEF AlertCall
<1>3. UNCHANGED alertPage /\ next \in CallSteps
  BY DEF AlertCall, CallSteps
<1>4. AlertTypeOK /\ AlertOrder /\ AlertOneContainer /\ AlertLasts
  BY DEF AlertInv, AlertSafe
<1>5. /\ alertService'.calls = n
      /\ \A m \in Calls : m # n => /\ alertService'.kind[m] = alertService.kind[m]
                                   /\ alertService'.step[m] = alertService.step[m]
      /\ alertService'.step[n] = next
  BY <1>1, <1>2, <1>4 DEF AlertTypeOK
<1>6. /\ n \notin alertPage.alerts \cup alertPage.hide
      /\ <<"duration", n>> \notin alertPage.timers
  <2>1. n > alertService.calls
    BY <1>1
  <2>2. alertService.step[n] = "none"
    BY <1>1, <1>4, <2>1 DEF AlertOrder
  <2> QED
    BY <1>1, <1>4, <2>2 DEF AlertOrder
<1>7. AlertTypeOK'
  <2>1. /\ [alertService.kind EXCEPT ![n] = kind] \in [Calls -> CallKinds]
        /\ [alertService.step EXCEPT ![n] = next] \in [Calls -> CallSteps]
        /\ n \in 0..MaxCalls
    BY <1>1, <1>3, <1>4 DEF AlertTypeOK
  <2> QED
    BY <1>2, <1>3, <1>4, <2>1 DEF AlertTypeOK
<1>8. AlertOrder'
  <2>1. \A m \in Calls : m > alertService'.calls => m > alertService.calls /\ m # n
    BY <1>1, <1>5
  <2>2. \A m \in Calls : m # n =>
           /\ m > alertService.calls => alertService.step[m] = "none"
           /\ m \in alertPage.alerts \cup alertPage.hide => alertService.step[m] = "done"
           /\ <<"duration", m>> \in alertPage.timers =>
                alertService.step[m] = "done" /\ alertService.kind[m] = "timed"
    BY <1>4 DEF AlertOrder
  <2>3. \A m \in Calls : <<"remove", m>> \in alertPage.timers => m \in alertPage.hide
    BY <1>4 DEF AlertOrder
  <2> HIDE DEF n
  <2> QED
    BY <1>3, <1>5, <1>6, <2>1, <2>2, <2>3 DEF AlertOrder
<1>9. AlertOneContainer' /\ AlertLasts'
  BY <1>1, <1>3, <1>4, <1>5, <1>6 DEF AlertOneContainer, AlertLasts
<1> QED
  BY <1>7, <1>8, <1>9 DEF AlertInv, AlertSafe

\* A step of a call.
LEMMA AlertServiceKeeps ==
    ASSUME AlertInv, NEW n \in Calls, AlertImported(n) \/ AlertInitialized(n)
    PROVE  AlertInv'
<1> USE CallsAssumption DEF Calls
<1>1. AlertTypeOK /\ AlertOrder /\ AlertOneContainer /\ AlertLasts
  BY DEF AlertInv, AlertSafe
<1>2. PICK next \in {"initialize", "failed", "call"}, initialized \in BOOLEAN :
         alertService' = [alertService EXCEPT !.step[n] = next, !.initialized = initialized]
  <2>1. alertService.initialized \in BOOLEAN
    BY <1>1 DEF AlertTypeOK
  <2>2. CASE AlertInitialized(n)
    BY <2>2 DEF AlertInitialized
  <2>3. CASE AlertImported(n)
    <3>1. PICK next \in {"initialize", "failed"} :
             alertService' = [alertService EXCEPT !.step[n] = next]
      BY <2>3 DEF AlertImported
    <3>2. [alertService EXCEPT !.step[n] = next]
             = [alertService EXCEPT !.step[n] = next, !.initialized = alertService.initialized]
      BY <1>1 DEF AlertTypeOK
    <3> QED
      BY <2>1, <3>1, <3>2
  <2> QED
    BY <2>2, <2>3
<1>3. alertService.step[n] # "done" /\ alertService.step[n] # "none"
  BY DEF AlertImported, AlertInitialized
<1>4. alertPage' = alertPage \/ alertPage' = Initialize(alertPage)
  BY DEF AlertImported, AlertInitialized
<1>5. /\ UNCHANGED <<alertPage.alerts, alertPage.show, alertPage.hide, alertPage.timers,
                     alertPage.closed>>
      /\ alertPage'.containers \in {alertPage.containers, 1}
      /\ alertPage.containers > 0 => alertPage' = alertPage
  BY <1>1, <1>4 DEF Initialize, AlertTypeOK
<1>6. /\ alertService'.calls = alertService.calls
      /\ alertService'.kind = alertService.kind
      /\ \A m \in Calls : m # n => alertService'.step[m] = alertService.step[m]
      /\ alertService'.step[n] = next
  BY <1>1, <1>2 DEF AlertTypeOK
<1>7. AlertTypeOK'
  <2>1. next \in CallSteps
    BY DEF CallSteps
  <2>2. alertPage' = alertPage \/ alertPage' = [alertPage EXCEPT !.containers = 1]
    BY <1>4 DEF Initialize
  <2>3. [alertService.step EXCEPT ![n] = next] \in [Calls -> CallSteps]
    BY <1>1, <2>1 DEF AlertTypeOK
  <2>4. alertService' \in [initialized : BOOLEAN, calls : 0..MaxCalls,
                           kind : [Calls -> CallKinds], step : [Calls -> CallSteps]]
    BY <1>1, <1>2, <2>3 DEF AlertTypeOK
  <2>5. alertPage' \in [containers : Nat, alerts : SUBSET Calls, show : SUBSET Calls,
                        hide : SUBSET Calls, timers : SUBSET (AlertTimers \X Calls),
                        closed : SUBSET Calls]
    BY <1>1, <2>2, SMTT(30) DEF AlertTypeOK
  <2> QED
    BY <2>4, <2>5 DEF AlertTypeOK
<1>8. AlertOrder'
  BY <1>1, <1>3, <1>5, <1>6 DEF AlertOrder
<1>9. AlertOneContainer'
  BY <1>1, <1>5 DEF AlertOneContainer, AlertTypeOK
<1>10. AlertLasts'
  BY <1>1, <1>3, <1>5, <1>6 DEF AlertLasts
<1> QED
  BY <1>7, <1>8, <1>9, <1>10 DEF AlertInv, AlertSafe

\* The call reaches the script.
LEMMA AlertCalledKeeps ==
    ASSUME AlertInv, NEW n \in Calls, AlertCalled(n)
    PROVE  AlertInv'
<1> USE CallsAssumption DEF Calls
<1>1. AlertTypeOK /\ AlertOrder /\ AlertOneContainer /\ AlertLasts
  BY DEF AlertInv, AlertSafe
<1>2. alertService.step[n] = "call" /\ alertService' = [alertService EXCEPT !.step[n] = "done"]
  BY DEF AlertCalled
<1>3. /\ alertService'.calls = alertService.calls
      /\ alertService'.kind = alertService.kind
      /\ \A m \in Calls : m # n => alertService'.step[m] = alertService.step[m]
      /\ alertService'.step[n] = "done"
  BY <1>1, <1>2 DEF AlertTypeOK
<1>4. AlertTypeOK => alertService' \in [initialized : BOOLEAN, calls : 0..MaxCalls,
                         kind : [Calls -> CallKinds], step : [Calls -> CallSteps]]
  BY <1>2 DEF AlertTypeOK, CallSteps
<1>5. n \notin alertPage.hide /\ n <= alertService.calls
  <2>1. alertService.calls \in 0..MaxCalls /\ n \in 1..MaxCalls
    BY <1>1 DEF AlertTypeOK
  <2>2. ~(n > alertService.calls) /\ n \notin alertPage.hide
    BY <1>1, <1>2 DEF AlertOrder
  <2> QED
    BY <2>1, <2>2
<1>6. CASE alertService.kind[n] = "hideAll"
  <2>1. alertPage' = [alertPage EXCEPT !.closed = alertPage.closed \cup alertPage.alerts,
                                       !.alerts = {}]
    BY <1>6 DEF AlertCalled, HideAllAlerts
  <2>2. /\ UNCHANGED <<alertPage.containers, alertPage.hide, alertPage.timers>>
        /\ alertPage'.alerts = {}
        /\ alertPage'.closed = alertPage.closed \cup alertPage.alerts
    BY <1>1, <2>1 DEF AlertTypeOK
  <2>3. AlertTypeOK'
    BY <1>1, <1>4, <2>1 DEF AlertTypeOK
  <2>4. AlertOrder' /\ AlertOneContainer'
    BY <1>1, <1>2, <1>3, <1>5, <2>2 DEF AlertOrder, AlertOneContainer
  <2>5. AlertLasts'
    BY <1>1, <1>3, <1>6, <2>2 DEF AlertLasts
  <2> QED
    BY <2>3, <2>4, <2>5 DEF AlertInv, AlertSafe
<1>7. CASE alertService.kind[n] # "hideAll"
  <2>1. alertPage' = ShowAlert(alertPage, n)
    BY <1>7 DEF AlertCalled
  <2>2. /\ Initialize(alertPage) \in {alertPage, [alertPage EXCEPT !.containers = 1]}
        /\ Initialize(alertPage).containers = 1
    BY <1>1 DEF Initialize, AlertOneContainer, AlertTypeOK
  <2>3. /\ UNCHANGED <<alertPage.hide, alertPage.closed>>
        /\ alertPage'.containers = 1
        /\ alertPage'.alerts = alertPage.alerts \cup {n}
        /\ alertPage'.timers = alertPage.timers \cup AlertTimersOf(n)
    BY <1>1, <2>1, <2>2 DEF ShowAlert, AlertTypeOK
  <2>4. /\ AlertTimersOf(n) \subseteq AlertTimers \X Calls
        /\ \A m \in Calls : /\ <<"remove", m>> \notin AlertTimersOf(n)
                            /\ <<"duration", m>> \in AlertTimersOf(n) =>
                                 m = n /\ alertService.kind[n] = "timed"
    BY DEF AlertTimersOf, AlertTimers
  <2>5. AlertTypeOK'
    <3>1. /\ alertPage.alerts \cup {n} \in SUBSET Calls
          /\ alertPage.timers \cup AlertTimersOf(n) \in SUBSET (AlertTimers \X Calls)
      BY <1>1, <2>4 DEF AlertTypeOK
    <3>2. alertPage' = [Initialize(alertPage) EXCEPT
                          !.alerts = Initialize(alertPage).alerts \cup {n},
                          !.timers = Initialize(alertPage).timers \cup AlertTimersOf(n)]
      BY <2>1 DEF ShowAlert
    <3>3. alertPage' = [alertPage EXCEPT !.containers = 1,
                          !.alerts = alertPage.alerts \cup {n},
                          !.timers = alertPage.timers \cup AlertTimersOf(n)]
      BY <1>1, <2>2, <3>2 DEF AlertTypeOK
    <3> QED
      BY <1>1, <1>4, <3>1, <3>3 DEF AlertTypeOK
  <2>6. AlertOrder'
    BY <1>1, <1>2, <1>3, <1>5, <2>3, <2>4 DEF AlertOrder
  <2>7. AlertOneContainer'
    BY <2>3 DEF AlertOneContainer
  <2>8. AlertLasts'
    BY <1>1, <1>3, <1>5, <2>3 DEF AlertLasts
  <2> QED
    BY <2>5, <2>6, <2>7, <2>8 DEF AlertInv, AlertSafe
<1> QED
  BY <1>6, <1>7

\* A timer expires, or the user clicks.
LEMMA AlertPageKeeps ==
    ASSUME AlertInv, NEW n \in Calls,
           AlertFrame(n) \/ AlertExpires(n) \/ AlertRemoved(n) \/ AlertClicked(n)
    PROVE  AlertInv'
<1> USE CallsAssumption DEF Calls
<1>1. AlertTypeOK /\ AlertOrder /\ AlertOneContainer /\ AlertLasts
  BY DEF AlertInv, AlertSafe
<1>2. UNCHANGED alertService
  BY DEF AlertFrame, AlertExpires, AlertRemoved, AlertClicked
<1> USE DEF AlertTypeOK, AlertTimers
<1>3. CASE AlertFrame(n)
  BY <1>1, <1>2, <1>3 DEF AlertFrame, AlertInv, AlertSafe, AlertOrder, AlertOneContainer, AlertLasts
<1>4. CASE AlertExpires(n)
  <2>1. alertService.step[n] = "done" /\ alertService.kind[n] = "timed"
    BY <1>1, <1>4 DEF AlertExpires, AlertOrder
  <2>2. AlertTypeOK'
    <3>1. (alertPage.timers \ {<<"duration", n>>}) \cup {<<"remove", n>>}
             \in SUBSET (AlertTimers \X Calls)
      BY <1>1
    <3>2. alertPage.hide \cup {n} \in SUBSET Calls
      BY <1>1
    <3>3. alertPage' = [alertPage EXCEPT !.hide = alertPage.hide \cup {n},
                           !.timers = (alertPage.timers \ {<<"duration", n>>}) \cup {<<"remove", n>>}]
      BY <1>4 DEF AlertExpires
    <3> HIDE DEF AlertTimers, Calls
    <3> QED
      BY <1>1, <1>2, <3>1, <3>2, <3>3
  <2>3. AlertOrder' /\ AlertOneContainer'
    BY <1>1, <1>2, <1>4, <2>1 DEF AlertExpires, AlertOrder, AlertOneContainer
  <2>4. AlertLasts'
    BY <1>1, <1>2, <1>4, <2>1 DEF AlertExpires, AlertLasts
  <2> QED
    BY <2>2, <2>3, <2>4 DEF AlertInv, AlertSafe
<1>5. CASE AlertRemoved(n)
  <2>1. n \in alertPage.hide
    BY <1>1, <1>5 DEF AlertRemoved, AlertOrder
  <2> QED
    BY <1>1, <1>2, <1>5, <2>1
       DEF AlertRemoved, AlertInv, AlertSafe, AlertOrder, AlertOneContainer, AlertLasts
<1>6. CASE AlertClicked(n)
  <2>1. PICK alerts \in SUBSET Calls :
           /\ alertPage.alerts \ {n} \subseteq alerts /\ alerts \subseteq alertPage.alerts
           /\ alertPage' = [alertPage EXCEPT
                 !.alerts = alerts, !.hide = alertPage.hide \cup {n},
                 !.closed = alertPage.closed \cup {n},
                 !.timers = alertPage.timers \cup {<<"remove", n>>}]
    BY <1>1, <1>6 DEF AlertClicked
  <2>2. n \in alertPage.alerts
    BY <1>6 DEF AlertClicked
  <2>3. AlertTypeOK'
    <3>1. /\ alertPage.timers \cup {<<"remove", n>>} \in SUBSET (AlertTimers \X Calls)
          /\ alertPage.hide \cup {n} \in SUBSET Calls
          /\ alertPage.closed \cup {n} \in SUBSET Calls
      BY <1>1
    <3> HIDE DEF AlertTimers, Calls
    <3> QED
      BY <1>1, <1>2, <2>1, <3>1
  <2>4. AlertOrder' /\ AlertOneContainer'
    BY <1>1, <1>2, <2>1, <2>2 DEF AlertOrder, AlertOneContainer
  <2>5. AlertLasts'
    BY <1>1, <1>2, <2>1, <2>2 DEF AlertLasts
  <2> QED
    BY <2>3, <2>4, <2>5 DEF AlertInv, AlertSafe
<1> QED
  BY <1>3, <1>4, <1>5, <1>6

LEMMA AlertInvStep == AlertInv /\ [AlertNext]_alertVars => AlertInv'
<1> SUFFICES ASSUME AlertInv, [AlertNext]_alertVars PROVE AlertInv'
  OBVIOUS
<1>1. CASE UNCHANGED alertVars
  BY <1>1 DEF alertVars, AlertInv, AlertSafe, AlertTypeOK, AlertOrder, AlertOneContainer, AlertLasts
<1>2. CASE \E kind \in CallKinds : AlertCall(kind)
  BY <1>2, AlertCallKeeps
<1> QED
  BY <1>1, <1>2, AlertServiceKeeps, AlertCalledKeeps, AlertPageKeeps DEF AlertNext

----------------------------------------------------------------------------
(* The dialogs. *)

\* Only dialogs that were shown are on the page, save or close.
ModalShown ==
    /\ \A d \in Dialogs : d > modals.asked => modals.step[d] = "none"
    /\ \A d \in modals.active \cup modals.saving \cup modals.closed :
          modals.step[d] \notin {"none", "asked"}

\* A dialog that is alone is the only one that may still call the service; the
\* task in the field and the dialog to be closed are its own.
ModalAlone ==
    /\ \A d \in ModalBusy \ modals.mixed : \A e \in ModalBusy : e = d
    /\ \A d \in ModalBusy \ modals.mixed : modals.step[d] # "asked" => modals.tcs = d
    /\ \A d \in modals.active \ modals.mixed : modals.current = d \/ d \in modals.fading

\* A dialog that may still answer answers its own task, or that of one not alone.
ModalAnswers ==
    \A e \in ModalBusy :
        modals.step[e] # "asked" /\ modals.tcs \notin modals.mixed => modals.tcs = e

ModalInv == ModalSafe /\ ModalShown /\ ModalAlone /\ ModalAnswers

LEMMA ModalInvInit == ModalInit => ModalInv
<1> SUFFICES ASSUME ModalInit PROVE ModalInv
  OBVIOUS
<1> USE DialogsAssumption DEF ModalInit, Dialogs, NoDialog
<1>1. ModalTypeOK
  <2>1. /\ [d \in Dialogs |-> "none"] \in [Dialogs -> ShowSteps]
        /\ [d \in Dialogs |-> NoDialog] \in [Dialogs -> Dialogs \cup {NoDialog}]
        /\ 0 \in 0..MaxDialogs
    BY DEF ShowSteps
  <2> QED
    BY <2>1 DEF ModalTypeOK
<1>2. ModalBusy = {}
  BY DEF ModalBusy
<1>3. ModalOwnAnswer /\ ModalButtonsWork
  BY DEF ModalOwnAnswer, ModalButtonsWork
<1>4. ModalShown /\ ModalAlone /\ ModalAnswers
  BY <1>2 DEF ModalShown, ModalAlone, ModalAnswers
<1> QED
  BY <1>1, <1>3, <1>4 DEF ModalInv, ModalSafe

\* The fields of the record have their types.
LEMMA ModalFields ==
    ASSUME ModalTypeOK
    PROVE  /\ modals.asked \in 0..MaxDialogs
           /\ modals.step \in [Dialogs -> ShowSteps]
           /\ modals.awaits \in [Dialogs -> Dialogs \cup {NoDialog}]
           /\ modals.answer \in [Dialogs -> Dialogs \cup {NoDialog}]
           /\ {modals.tcs, modals.current} \subseteq Dialogs \cup {NoDialog}
           /\ modals.active \in SUBSET Dialogs /\ modals.fading \in SUBSET Dialogs
           /\ modals.saving \in SUBSET Dialogs /\ modals.closed \in SUBSET Dialogs
           /\ modals.mixed \in SUBSET Dialogs
           /\ ModalBusy \in SUBSET Dialogs
BY DEF ModalTypeOK, ModalBusy

\* A dialog asked for while none is busy is alone; otherwise all of them are not.
LEMMA ModalAskKeeps ==
    ASSUME ModalInv, ModalAsk
    PROVE  ModalInv'
<1> USE DialogsAssumption
<1> DEFINE n == modals.asked + 1
           mixed == IF ModalBusy = {} THEN modals.mixed ELSE modals.mixed \cup (ModalBusy \cup {n})
<1>1. ModalTypeOK /\ ModalShown /\ ModalAlone /\ ModalAnswers /\ ModalOwnAnswer /\ ModalButtonsWork
  BY DEF ModalInv, ModalSafe
<1>2. n \in Dialogs /\ n > modals.asked /\ n \in 0..MaxDialogs
  BY <1>1, ModalFields DEF ModalAsk, Dialogs
<1>3. modals' = [modals EXCEPT !.asked = n, !.step = [modals.step EXCEPT ![n] = "asked"],
                               !.mixed = mixed]
  BY DEF ModalAsk
<1>4. modals.step[n] = "none"
  BY <1>1, <1>2 DEF ModalShown
<1>5. mixed \in SUBSET Dialogs /\ modals.mixed \subseteq mixed
  BY <1>1, <1>2, ModalFields
<1>6. ModalTypeOK'
  <2>1. [modals.step EXCEPT ![n] = "asked"] \in [Dialogs -> ShowSteps]
    BY <1>1, <1>2, ModalFields DEF ShowSteps
  <2> HIDE DEF n, mixed
  <2> QED
    BY <1>1, <1>2, <1>3, <1>5, <2>1 DEF ModalTypeOK
<1>7. /\ UNCHANGED <<modals.awaits, modals.answer, modals.tcs, modals.current, modals.active,
                     modals.fading, modals.saving, modals.closed>>
      /\ modals'.asked = n /\ modals'.mixed = mixed
      /\ modals'.step[n] = "asked"
      /\ \A d \in Dialogs : d # n => modals'.step[d] = modals.step[d]
  BY <1>1, <1>2, <1>3 DEF ModalTypeOK
<1>8. n \notin modals.active \cup modals.saving \cup modals.closed
  BY <1>1, <1>4 DEF ModalShown
<1>9. ModalBusy' = ModalBusy \cup {n}
  BY <1>1, <1>2, <1>4, <1>7, ModalFields DEF ModalBusy
<1>10. ModalBusy \subseteq mixed /\ (ModalBusy # {} => n \in mixed)
  OBVIOUS
<1> HIDE DEF mixed
<1>11. ModalShown'
  <2>1. \A d \in Dialogs : d > modals'.asked => modals'.step[d] = "none"
    <3>1. \A d \in Dialogs : d > n => d > modals.asked /\ d # n
      BY <1>1, ModalFields DEF Dialogs
    <3> QED
      BY <1>1, <1>7, <3>1 DEF ModalShown
  <2>2. modals.active \cup modals.saving \cup modals.closed \subseteq Dialogs
    BY <1>1, ModalFields
  <2> QED
    BY <1>1, <1>7, <1>8, <2>1, <2>2 DEF ModalShown
<1>12. ModalAlone'
  <2>1. \A d \in ModalBusy' \ mixed : ModalBusy' = {d} /\ d = n
    BY <1>9, <1>10
  <2>2. \A d \in modals.active \ mixed : modals.current = d \/ d \in modals.fading
    BY <1>1, <1>5 DEF ModalAlone
  <2> QED
    BY <1>7, <2>1, <2>2 DEF ModalAlone
<1>13. ModalAnswers'
  <2> SUFFICES ASSUME NEW e \in ModalBusy', modals'.step[e] # "asked",
                      modals'.tcs \notin modals'.mixed
               PROVE  modals'.tcs = e
    BY DEF ModalAnswers
  <2>1. e \in ModalBusy /\ e # n /\ e \in Dialogs
    BY <1>1, <1>7, <1>9, ModalFields
  <2> QED
    BY <1>1, <1>5, <1>7, <2>1 DEF ModalAnswers
<1>14. ModalOwnAnswer' /\ ModalButtonsWork'
  BY <1>1, <1>5, <1>7 DEF ModalOwnAnswer, ModalButtonsWork
<1> QED
  BY <1>6, <1>11, <1>12, <1>13, <1>14 DEF ModalInv, ModalSafe

\* The three steps of a call of Show.
LEMMA ModalShowKeeps ==
    ASSUME ModalInv, NEW n \in Dialogs, ModalShow(n) \/ ModalWait(n) \/ ModalReturn(n)
    PROVE  ModalInv'
<1> USE DialogsAssumption
<1>1. ModalTypeOK /\ ModalShown /\ ModalAlone /\ ModalAnswers /\ ModalOwnAnswer /\ ModalButtonsWork
  BY DEF ModalInv, ModalSafe
<1>2. CASE ModalShow(n)
  <2>1. /\ modals.step[n] = "asked"
        /\ modals' = [modals EXCEPT !.step = [modals.step EXCEPT ![n] = "shown"], !.tcs = n,
                                    !.current = n, !.active = modals.active \cup {n}]
    BY <1>2 DEF ModalShow
  <2>2. ModalTypeOK'
    <3>1. /\ [modals.step EXCEPT ![n] = "shown"] \in [Dialogs -> ShowSteps]
          /\ modals.active \cup {n} \in SUBSET Dialogs
      BY <1>1, ModalFields DEF ShowSteps
    <3> QED
      BY <1>1, <2>1, <3>1 DEF ModalTypeOK
  <2>3. /\ UNCHANGED <<modals.asked, modals.awaits, modals.answer, modals.fading, modals.saving,
                       modals.closed, modals.mixed>>
        /\ modals'.tcs = n /\ modals'.current = n /\ modals'.active = modals.active \cup {n}
        /\ modals'.step[n] = "shown"
        /\ \A d \in Dialogs : d # n => modals'.step[d] = modals.step[d]
    BY <1>1, <2>1 DEF ModalTypeOK
  <2>4. n \in ModalBusy /\ ModalBusy' = ModalBusy
    BY <1>1, <2>1, <2>3, ModalFields DEF ModalBusy
  <2>5. n \notin modals.active \cup modals.saving \cup modals.closed
    BY <1>1, <2>1 DEF ModalShown
  <2>6. ModalShown'
    <3>1. modals.active \cup modals.saving \cup modals.closed \subseteq Dialogs
      BY <1>1, ModalFields
    <3> QED
      BY <1>1, <2>1, <2>3, <3>1 DEF ModalShown
  <2>7. ModalAlone'
    <3>1. \A d \in ModalBusy \ modals.mixed : d = n
      BY <1>1, <2>4 DEF ModalAlone
    <3>2. modals.active \subseteq ModalBusy
      BY DEF ModalBusy
    <3>3. \A d \in modals'.active \ modals.mixed : modals'.current = d \/ d \in modals.fading
      BY <2>3, <3>1, <3>2
    <3> QED
      BY <1>1, <2>3, <2>4, <3>1, <3>3 DEF ModalAlone
  <2>8. ModalAnswers'
    BY <1>1, <2>3, <2>4 DEF ModalAnswers, ModalAlone
  <2>9. ModalOwnAnswer' /\ ModalButtonsWork'
    BY <1>1, <2>3, <2>5 DEF ModalOwnAnswer, ModalButtonsWork
  <2> QED
    BY <2>2, <2>6, <2>7, <2>8, <2>9 DEF ModalInv, ModalSafe
<1>3. ASSUME NEW next \in {"waiting", "returned"},
             NEW awaits \in [Dialogs -> Dialogs \cup {NoDialog}],
             modals.step[n] \in {"shown", "waiting"},
             \A d \in Dialogs \ modals.mixed : awaits[d] \in {NoDialog, d},
             modals' = [modals EXCEPT !.step = [modals.step EXCEPT ![n] = next], !.awaits = awaits]
      PROVE  ModalInv'
  <2>1. ModalTypeOK'
    <3>1. [modals.step EXCEPT ![n] = next] \in [Dialogs -> ShowSteps]
      BY <1>1, ModalFields DEF ShowSteps
    <3> QED
      BY <1>1, <1>3, <3>1 DEF ModalTypeOK
  <2>2. /\ UNCHANGED <<modals.asked, modals.tcs, modals.current, modals.active, modals.answer,
                       modals.fading, modals.saving, modals.closed, modals.mixed>>
        /\ modals'.awaits = awaits
        /\ modals'.step[n] = next
        /\ \A d \in Dialogs : d # n => modals'.step[d] = modals.step[d]
    BY <1>1, <1>3 DEF ModalTypeOK
  <2>3. ModalBusy' \subseteq ModalBusy
    BY <1>1, <1>3, <2>2, ModalFields DEF ModalBusy
  <2>4. ModalShown'
    <3>1. modals.active \cup modals.saving \cup modals.closed \subseteq Dialogs
      BY <1>1, ModalFields
    <3> QED
      BY <1>1, <1>3, <2>2, <3>1 DEF ModalShown
  <2>5. \A d \in ModalBusy' : modals.step[d] # "asked" <=> modals'.step[d] # "asked"
    BY <1>1, <1>3, <2>2, <2>3, ModalFields
  <2>6. ModalAlone' /\ ModalAnswers'
    BY <1>1, <2>2, <2>3, <2>5 DEF ModalAlone, ModalAnswers
  <2>7. ModalOwnAnswer' /\ ModalButtonsWork'
    BY <1>1, <1>3, <2>2 DEF ModalOwnAnswer, ModalButtonsWork
  <2> QED
    BY <2>1, <2>4, <2>6, <2>7 DEF ModalInv, ModalSafe
<1>4. CASE ModalWait(n)
  <2> DEFINE awaits == [modals.awaits EXCEPT ![n] = modals.tcs]
  <2>1. awaits \in [Dialogs -> Dialogs \cup {NoDialog}]
    BY <1>1, ModalFields
  <2>2. n \in ModalBusy /\ modals.step[n] # "asked"
    BY <1>4 DEF ModalWait, ModalBusy
  <2>3. \A d \in Dialogs \ modals.mixed : awaits[d] \in {NoDialog, d}
    <3>1. n \notin modals.mixed => modals.tcs = n
      BY <1>1, <2>2 DEF ModalAlone
    <3>2. \A d \in Dialogs \ modals.mixed : modals.awaits[d] \in {NoDialog, d}
      BY <1>1 DEF ModalOwnAnswer
    <3> QED
      BY <1>1, <3>1, <3>2, ModalFields
  <2>4. modals' = [modals EXCEPT !.step = [modals.step EXCEPT ![n] = "waiting"], !.awaits = awaits]
    BY <1>4 DEF ModalWait
  <2> HIDE DEF awaits
  <2> QED
    BY <1>3, <1>4, <2>1, <2>3, <2>4 DEF ModalWait
<1>5. CASE ModalReturn(n)
  <2>1. modals' = [modals EXCEPT !.step = [modals.step EXCEPT ![n] = "returned"],
                                 !.awaits = modals.awaits]
    BY <1>1, <1>5 DEF ModalReturn, ModalTypeOK
  <2>2. \A d \in Dialogs \ modals.mixed : modals.awaits[d] \in {NoDialog, d}
    BY <1>1 DEF ModalOwnAnswer
  <2> QED
    BY <1>1, <1>3, <1>5, <2>1, <2>2, ModalFields DEF ModalReturn
<1> QED
  BY <1>2, <1>4, <1>5

\* A call of Close.
LEMMA ModalCloseKeeps ==
    ASSUME ModalInv, NEW d \in modals.active \cup modals.saving,
           NEW saving \in SUBSET modals.saving,
           modals' = CloseCall([modals EXCEPT !.saving = saving], d)
    PROVE  ModalInv'
<1> USE DialogsAssumption
<1> DEFINE t == modals.tcs
           fading == modals.fading \cup ({modals.current} \cap modals.active)
           answer == IF modals.answer[t] = NoDialog THEN [modals.answer EXCEPT ![t] = d]
                     ELSE modals.answer
           closed == modals.closed \cup {d}
<1>1. ModalTypeOK /\ ModalShown /\ ModalAlone /\ ModalAnswers /\ ModalOwnAnswer /\ ModalButtonsWork
  BY DEF ModalInv, ModalSafe
<1>2. modals' = [modals EXCEPT !.saving = saving, !.fading = fading, !.answer = answer,
                               !.current = NoDialog, !.closed = closed]
  <2>1. LET s == [modals EXCEPT !.saving = saving]
        IN  /\ s.tcs = t /\ s.fading = modals.fading /\ s.active = modals.active
            /\ s.answer = modals.answer /\ s.closed = modals.closed /\ s.current = modals.current
    BY <1>1 DEF ModalTypeOK
  <2> QED
    BY <1>1, <2>1 DEF CloseCall, Fade, ModalTypeOK
<1>3. d \in Dialogs /\ d \in ModalBusy /\ modals.step[d] \notin {"none", "asked"}
  BY <1>1, ModalFields DEF ModalShown, ModalBusy
<1>4. /\ answer \in [Dialogs -> Dialogs \cup {NoDialog}]
      /\ \A e \in Dialogs : answer[e] # modals.answer[e] =>
            e = t /\ answer[e] = d /\ modals.answer[e] = NoDialog
      /\ t \in Dialogs => answer[t] # NoDialog
  <2>1. d # NoDialog
    BY <1>3 DEF Dialogs, NoDialog
  <2> QED
    BY <1>1, <1>3, <2>1, ModalFields
<1>5. /\ fading \in SUBSET Dialogs /\ closed \in SUBSET Dialogs /\ saving \in SUBSET Dialogs
      /\ modals.fading \subseteq fading
      /\ modals.current \in modals.active => modals.current \in fading
  BY <1>1, <1>3, ModalFields
<1>6. t \notin modals.mixed => t = d
  BY <1>1, <1>3 DEF ModalAnswers
<1>7. d \notin modals.mixed => t = d
  BY <1>1, <1>3 DEF ModalAlone
<1> HIDE DEF answer, fading, t
<1>8. ModalTypeOK'
  BY <1>1, <1>2, <1>4, <1>5, ZenonT(60) DEF ModalTypeOK
<1>9. /\ UNCHANGED <<modals.asked, modals.step, modals.awaits, modals.tcs, modals.active, modals.mixed>>
      /\ modals'.saving = saving /\ modals'.fading = fading /\ modals'.answer = answer
      /\ modals'.current = NoDialog /\ modals'.closed = closed
  BY <1>1, <1>2 DEF ModalTypeOK
<1>10. ModalBusy' \subseteq ModalBusy
  BY <1>9 DEF ModalBusy
<1>11. ModalShown'
  BY <1>1, <1>3, <1>9 DEF ModalShown
<1>12. ModalAlone' /\ ModalAnswers'
  BY <1>1, <1>5, <1>9, <1>10 DEF ModalAlone, ModalAnswers
<1>13. ModalOwnAnswer'
  <2> SUFFICES ASSUME NEW e \in Dialogs \ modals.mixed
               PROVE  modals.awaits[e] \in {NoDialog, e} /\ answer[e] \in {NoDialog, e}
    BY <1>9 DEF ModalOwnAnswer
  <2>1. modals.awaits[e] \in {NoDialog, e} /\ modals.answer[e] \in {NoDialog, e}
    BY <1>1 DEF ModalOwnAnswer
  <2>2. answer[e] # modals.answer[e] => e = d /\ answer[e] = d
    BY <1>4, <1>6
  <2> QED
    BY <2>1, <2>2
<1>14. ModalButtonsWork'
  <2> SUFFICES ASSUME NEW e \in closed, e \notin modals.mixed
               PROVE  (e \in modals.active => e \in fading) /\ answer[e] = e
    BY <1>9 DEF ModalButtonsWork
  <2>1. e \in Dialogs
    BY <1>5
  <2>2. CASE e = d
    <3>1. answer[d] # NoDialog
      BY <1>3, <1>4, <1>7, <2>2
    <3>2. answer[d] \in {NoDialog, d}
      BY <1>3, <1>9, <1>13, <2>2 DEF ModalOwnAnswer
    <3>3. d \in modals.active => d \in fading
      BY <1>1, <1>5, <2>2 DEF ModalAlone
    <3> QED
      BY <2>2, <3>1, <3>2, <3>3
  <2>3. CASE e # d
    <3>1. (e \in modals.active => e \in modals.fading) /\ modals.answer[e] = e
      BY <1>1, <2>3 DEF ModalButtonsWork
    <3>2. e # NoDialog
      BY <2>1 DEF Dialogs, NoDialog
    <3> QED
      BY <1>4, <1>5, <2>1, <3>1, <3>2
  <2> QED
    BY <2>2, <2>3
<1> QED
  BY <1>8, <1>11, <1>12, <1>13, <1>14 DEF ModalInv, ModalSafe

\* What happens to a dialog on the page without the service.
LEMMA ModalPageKeeps ==
    ASSUME ModalInv,
           NEW active \in SUBSET modals.active,
           NEW fading \in SUBSET Dialogs, active \cap modals.fading \subseteq fading,
           NEW saving \in SUBSET (modals.active \cup modals.saving),
           modals' = [modals EXCEPT !.active = active, !.fading = fading, !.saving = saving]
    PROVE  ModalInv'
<1>1. ModalTypeOK /\ ModalShown /\ ModalAlone /\ ModalAnswers /\ ModalOwnAnswer /\ ModalButtonsWork
  BY DEF ModalInv, ModalSafe
<1>2. ModalTypeOK'
  <2>1. active \in SUBSET Dialogs /\ saving \in SUBSET Dialogs
    BY <1>1, ModalFields
  <2> QED
    BY <1>1, <2>1 DEF ModalTypeOK
<1>3. /\ UNCHANGED <<modals.asked, modals.step, modals.awaits, modals.answer, modals.tcs,
                     modals.current, modals.closed, modals.mixed>>
      /\ modals'.active = active /\ modals'.fading = fading /\ modals'.saving = saving
  BY <1>1 DEF ModalTypeOK
<1>4. ModalBusy' \subseteq ModalBusy
  BY <1>3 DEF ModalBusy
<1>5. ModalShown'
  BY <1>1, <1>3 DEF ModalShown
<1>6. ModalAlone' /\ ModalAnswers'
  BY <1>1, <1>3, <1>4 DEF ModalAlone, ModalAnswers
<1>7. ModalOwnAnswer' /\ ModalButtonsWork'
  BY <1>1, <1>3 DEF ModalOwnAnswer, ModalButtonsWork
<1> QED
  BY <1>2, <1>5, <1>6, <1>7 DEF ModalInv, ModalSafe

LEMMA ModalInvStep == ModalInv /\ [ModalNext]_modals => ModalInv'
<1> SUFFICES ASSUME ModalInv, [ModalNext]_modals PROVE ModalInv'
  OBVIOUS
<1>1. CASE UNCHANGED modals
  BY <1>1 DEF ModalInv, ModalSafe, ModalTypeOK, ModalShown, ModalAlone, ModalAnswers,
              ModalOwnAnswer, ModalButtonsWork, ModalBusy
<1>2. ModalTypeOK
  BY DEF ModalInv, ModalSafe
<1>3. /\ modals.active \in SUBSET Dialogs /\ modals.fading \in SUBSET Dialogs
      /\ modals.saving \in SUBSET Dialogs
  BY <1>2, ModalFields
<1>4. ASSUME NEW d \in Dialogs, ModalPress(d) PROVE ModalInv'
  <2>1. modals = [modals EXCEPT !.saving = modals.saving]
    BY <1>2 DEF ModalTypeOK
  <2> QED
    BY <1>4, <2>1, ModalCloseKeeps DEF ModalPress
<1>5. ASSUME NEW d \in Dialogs, ModalSave(d) PROVE ModalInv'
  <2>1. modals' = [modals EXCEPT !.active = modals.active, !.fading = modals.fading,
                                 !.saving = modals.saving \cup {d}]
    BY <1>2, <1>5 DEF ModalSave, ModalTypeOK
  <2>2. modals.saving \cup {d} \subseteq modals.active \cup modals.saving
    BY <1>5 DEF ModalSave
  <2> QED
    BY <1>3, <2>1, <2>2, ModalPageKeeps
<1>6. ASSUME NEW d \in Dialogs, ModalSaved(d) PROVE ModalInv'
  <2> DEFINE s == [modals EXCEPT !.saving = modals.saving \ {d}]
  <2>1. d \in modals.saving /\ modals' \in {CloseCall(s, d), s}
    BY <1>6 DEF ModalSaved
  <2>2. CASE modals' = CloseCall(s, d)
    <3>1. modals.saving \ {d} \in SUBSET modals.saving /\ d \in modals.active \cup modals.saving
      BY <2>1
    <3>2. modals' = CloseCall([modals EXCEPT !.saving = modals.saving \ {d}], d)
      BY <2>2
    <3> QED
      BY <3>1, <3>2, ModalCloseKeeps
  <2>3. CASE modals' = s
    <3>1. modals' = [modals EXCEPT !.active = modals.active, !.fading = modals.fading,
                                   !.saving = modals.saving \ {d}]
      BY <1>2, <2>3 DEF ModalTypeOK
    <3>2. modals.saving \ {d} \in SUBSET (modals.active \cup modals.saving)
      OBVIOUS
    <3> HIDE DEF s
    <3> QED
      BY <1>3, <3>1, <3>2, ModalPageKeeps
  <2> QED
    BY <2>1, <2>2, <2>3
<1>7. ASSUME NEW d \in Dialogs, ModalCross(d) PROVE ModalInv'
  <2>1. modals' = [modals EXCEPT !.active = modals.active,
                                 !.fading = modals.fading \cup ({d} \cap modals.active),
                                 !.saving = modals.saving]
    BY <1>2, <1>7 DEF ModalCross, Fade, ModalTypeOK
  <2> QED
    BY <1>3, <2>1, ModalPageKeeps
<1>8. ASSUME NEW d \in Dialogs, ModalGone(d) PROVE ModalInv'
  <2>1. modals' = [modals EXCEPT !.active = modals.active \ {d}, !.fading = modals.fading \ {d},
                                 !.saving = modals.saving]
    BY <1>2, <1>8 DEF ModalGone, ModalTypeOK
  <2> QED
    BY <1>3, <2>1, ModalPageKeeps
<1> QED
  BY <1>1, <1>4, <1>5, <1>6, <1>7, <1>8, ModalAskKeeps, ModalShowKeeps DEF ModalNext

----------------------------------------------------------------------------
(* The editors. *)

\* An editor exists once its creation was asked for; one that is being created
\* belongs to the dialog that is open, or was closed before it came.
EditorOrder ==
    /\ editors.live = editors.map
    /\ editors.creating \cap editors.live = {}
    /\ \A e \in Editors : e > dialog.opened => dialog.step[e] = "none"
    /\ \A e \in editors.creating \cup editors.live :
          dialog.step[e] \notin {"none", "library", "script"}
    /\ \A e \in editors.creating : e = dialog.open \/ dialog.closed[e] = "early"

EditorsBegun == {e \in Editors : dialog.step[e] \notin {"none", "library"}}

\* Each component appends the script once.
EditorCopies ==
    /\ interop.waiting \subseteq EditorsBegun
    /\ interop.copies + Cardinality(interop.waiting) <= Cardinality(EditorsBegun)

EditorInv == EditorSafe /\ EditorOrder /\ EditorCopies

LEMMA EditorsFinite ==
    ASSUME NEW S \in SUBSET Editors
    PROVE  IsFiniteSet(S) /\ Cardinality(S) \in Nat /\ Cardinality(S) <= MaxEditors
<1>1. IsFiniteSet(Editors) /\ Cardinality(Editors) = MaxEditors
  BY EditorsAssumption, FS_Interval DEF Editors
<1> QED
  BY <1>1, FS_Subset, FS_CardinalityType

LEMMA EditorFields ==
    ASSUME EditorTypeOK
    PROVE  /\ dialog.opened \in 0..MaxEditors /\ dialog.open \in Editors \cup {NoEditor}
           /\ dialog.step \in [Editors -> EditorSteps] /\ dialog.closed \in [Editors -> Closings]
           /\ interop.waiting \in SUBSET Editors /\ interop.ready \in SUBSET Editors
           /\ interop.copies \in 0..MaxEditors /\ interop.copy \in [Editors -> 0..MaxEditors]
           /\ editors.creating \in SUBSET Editors /\ editors.live \in SUBSET Editors
           /\ editors.map \in SUBSET Editors
           /\ upload.step \in [Editors -> UploadSteps] /\ upload.aborted \in SUBSET Editors
           /\ EditorsBegun \in SUBSET Editors
BY DEF EditorTypeOK, EditorsBegun

LEMMA EditorInvInit == EditorInit => EditorInv
<1> SUFFICES ASSUME EditorInit PROVE EditorInv
  OBVIOUS
<1> USE EditorsAssumption DEF EditorInit, Editors, NoEditor
<1>1. EditorTypeOK
  <2>1. /\ [e \in Editors |-> "none"] \in [Editors -> EditorSteps]
        /\ [e \in Editors |-> "none"] \in [Editors -> UploadSteps]
        /\ [e \in Editors |-> "open"] \in [Editors -> Closings]
        /\ [e \in Editors |-> 0] \in [Editors -> 0..MaxEditors]
        /\ 0 \in 0..MaxEditors
    BY DEF EditorSteps, UploadSteps, Closings
  <2> QED
    BY <2>1 DEF EditorTypeOK
<1>2. EditorsDestroyed /\ UploadAbortHolds /\ EditorOrder
  BY DEF EditorsDestroyed, UploadAbortHolds, EditorOrder
<1>3. EditorCopies
  <2>1. EditorsBegun = {} /\ interop.waiting = {} /\ interop.copies = 0
    BY DEF EditorsBegun
  <2> QED
    BY <2>1, FS_EmptySet DEF EditorCopies
<1> QED
  BY <1>1, <1>2, <1>3 DEF EditorInv, EditorSafe

LEMMA EditorOpenKeeps ==
    ASSUME EditorInv, EditorOpen
    PROVE  EditorInv'
<1> USE EditorsAssumption
<1> DEFINE e == dialog.opened + 1
<1>1. EditorTypeOK /\ EditorsDestroyed /\ UploadAbortHolds /\ EditorOrder /\ EditorCopies
  BY DEF EditorInv, EditorSafe
<1>2. e \in Editors /\ e \in 0..MaxEditors /\ e > dialog.opened /\ dialog.open = NoEditor
  BY <1>1, EditorFields DEF EditorOpen, Editors
<1>3. /\ dialog' = [dialog EXCEPT !.opened = e, !.open = e,
                                  !.step = [dialog.step EXCEPT ![e] = "library"]]
      /\ UNCHANGED <<interop, editors, upload>>
  BY DEF EditorOpen
<1>4. dialog.step[e] = "none"
  BY <1>1, <1>2 DEF EditorOrder
<1>5. \A x \in Editors : x > e => x > dialog.opened /\ x # e
  BY <1>1, EditorFields DEF Editors
<1> HIDE DEF e
<1>6. EditorTypeOK'
  <2>1. [dialog.step EXCEPT ![e] = "library"] \in [Editors -> EditorSteps]
    BY <1>1, EditorFields DEF EditorSteps
  <2> QED
    BY <1>1, <1>2, <1>3, <2>1 DEF EditorTypeOK
<1>7. /\ dialog'.opened = e /\ dialog'.open = e /\ dialog'.closed = dialog.closed
      /\ dialog'.step[e] = "library"
      /\ \A x \in Editors : x # e => dialog'.step[x] = dialog.step[x]
  BY <1>1, <1>2, <1>3 DEF EditorTypeOK
<1>8. EditorsBegun' = EditorsBegun
  BY <1>4, <1>7 DEF EditorsBegun
<1>9. NoEditor \notin editors.creating \cup editors.live
  BY <1>1, EditorFields DEF Editors, NoEditor
<1>10. EditorsDestroyed' /\ UploadAbortHolds'
  BY <1>1, <1>2, <1>3, <1>7, <1>9 DEF EditorsDestroyed, UploadAbortHolds
<1>11. EditorOrder'
  <2>1. editors.creating \cup editors.live \subseteq Editors \ {e}
    BY <1>1, <1>4, EditorFields DEF EditorOrder
  <2> QED
    BY <1>1, <1>2, <1>3, <1>5, <1>7, <1>9, <2>1 DEF EditorOrder
<1>12. EditorCopies'
  BY <1>1, <1>3, <1>8 DEF EditorCopies
<1> QED
  BY <1>6, <1>10, <1>11, <1>12 DEF EditorInv, EditorSafe

\* A component goes on: its dialog stays as it is, and the editor is at most asked for.
LEMMA EditorLoadKeeps ==
    ASSUME EditorInv, NEW e \in Editors, NEW next \in EditorSteps,
           dialog' = [dialog EXCEPT !.step = [dialog.step EXCEPT ![e] = next]],
           dialog.step[e] # "none", next \notin {"none", "library"},
           next = "script" => e \notin editors.creating \cup editors.live,
           NEW creating \in SUBSET (editors.creating \cup {e}),
           e \in creating \ editors.creating =>
               dialog.step[e] = "script" /\ e = dialog.open /\ next # "script",
           NEW live \in SUBSET (editors.live \cup editors.creating), live \cap creating = {},
           editors' = [creating |-> creating, live |-> live, map |-> live],
           UNCHANGED upload,
           interop' \in [waiting : SUBSET Editors, copies : 0..MaxEditors,
                         ready : SUBSET Editors, copy : [Editors -> 0..MaxEditors]],
           EditorCopies'
    PROVE  EditorInv'
<1> USE EditorsAssumption
<1>1. EditorTypeOK /\ EditorsDestroyed /\ UploadAbortHolds /\ EditorOrder
  BY DEF EditorInv, EditorSafe
<1>2. EditorTypeOK'
  <2>1. [dialog.step EXCEPT ![e] = next] \in [Editors -> EditorSteps]
    BY <1>1, EditorFields
  <2>2. creating \in SUBSET Editors /\ live \in SUBSET Editors
    BY <1>1, EditorFields
  <2> QED
    BY <1>1, <2>1, <2>2 DEF EditorTypeOK
<1>3. /\ dialog'.opened = dialog.opened /\ dialog'.open = dialog.open
      /\ dialog'.closed = dialog.closed
      /\ dialog'.step[e] = next
      /\ \A x \in Editors : x # e => dialog'.step[x] = dialog.step[x]
  BY <1>1 DEF EditorTypeOK
<1>4. editors'.creating = creating /\ editors'.live = live /\ editors'.map = live
  OBVIOUS
<1>5. EditorsDestroyed'
  BY <1>1, <1>3, <1>4 DEF EditorsDestroyed, EditorOrder
<1>6. UploadAbortHolds'
  BY <1>1 DEF UploadAbortHolds
<1>7. EditorOrder'
  <2>1. \A x \in Editors : x > dialog.opened => dialog'.step[x] = "none"
    BY <1>1, <1>3 DEF EditorOrder
  <2>2. \A x \in creating \cup live : dialog'.step[x] \notin {"none", "library", "script"}
    <3> SUFFICES ASSUME NEW x \in creating \cup live
                 PROVE  dialog'.step[x] \notin {"none", "library", "script"}
      OBVIOUS
    <3>1. CASE x = e
      BY <1>3, <3>1
    <3>2. CASE x # e
      BY <1>1, <1>3, <3>2, EditorFields DEF EditorOrder
    <3> QED
      BY <3>1, <3>2
  <2>3. \A x \in creating : x = dialog.open \/ dialog.closed[x] = "early"
    BY <1>1 DEF EditorOrder
  <2> QED
    BY <1>3, <1>4, <2>1, <2>2, <2>3 DEF EditorOrder
<1> QED
  BY <1>2, <1>5, <1>6, <1>7 DEF EditorInv, EditorSafe

\* The five steps of loading library and script.
LEMMA EditorScriptsKeep ==
    ASSUME EditorInv, NEW e \in Editors,
           \/ EditorLibraryRuns(e) \/ EditorLibraryFails(e)
           \/ EditorScriptRuns(e) \/ EditorScriptFails(e) \/ EditorAsked(e)
    PROVE  EditorInv'
<1> USE EditorsAssumption
<1>1. EditorTypeOK /\ EditorOrder /\ EditorCopies
  BY DEF EditorInv, EditorSafe
<1>2. /\ editors.creating \in SUBSET (editors.creating \cup {e})
      /\ editors.live \in SUBSET (editors.live \cup editors.creating)
      /\ editors.live \cap editors.creating = {}
      /\ editors = [creating |-> editors.creating, live |-> editors.live, map |-> editors.live]
  BY <1>1 DEF EditorTypeOK, EditorOrder
<1>3. /\ IsFiniteSet(EditorsBegun) /\ Cardinality(EditorsBegun) \in Nat
      /\ Cardinality(EditorsBegun) <= MaxEditors
      /\ IsFiniteSet(interop.waiting) /\ Cardinality(interop.waiting) \in Nat
      /\ interop.copies \in Nat
  BY <1>1, EditorFields, EditorsFinite
<1>4. UNCHANGED upload
  BY DEF EditorLibraryRuns, EditorLibraryFails, EditorScriptRuns, EditorScriptFails, EditorAsked
<1>5. ASSUME NEW next \in EditorSteps,
             dialog' = [dialog EXCEPT !.step = [dialog.step EXCEPT ![e] = next]],
             next \notin {"none", "library"}
      PROVE  EditorsBegun' = EditorsBegun \cup {e}
  BY <1>1, <1>5, EditorFields DEF EditorsBegun
<1>6. CASE EditorLibraryRuns(e) \/ EditorLibraryFails(e)
  <2>1. /\ dialog.step[e] = "library" /\ UNCHANGED editors
        /\ e \notin EditorsBegun /\ e \notin interop.waiting
        /\ e \notin editors.creating \cup editors.live
    BY <1>1, <1>6 DEF EditorLibraryRuns, EditorLibraryFails, EditorsBegun, EditorCopies, EditorOrder
  <2>2. PICK next \in {"script", "failed"} :
           dialog' = [dialog EXCEPT !.step = [dialog.step EXCEPT ![e] = next]]
    BY <1>6 DEF EditorLibraryRuns, EditorLibraryFails
  <2>3. next \in EditorSteps /\ EditorsBegun' = EditorsBegun \cup {e}
    BY <1>5, <2>2 DEF EditorSteps
  <2>4. Cardinality(EditorsBegun') = Cardinality(EditorsBegun) + 1
    BY <1>3, <2>1, <2>3, FS_AddElement
  <2>5. /\ interop' \in [waiting : SUBSET Editors, copies : 0..MaxEditors,
                         ready : SUBSET Editors, copy : [Editors -> 0..MaxEditors]]
        /\ interop'.copies = interop.copies
        /\ interop'.waiting \in {interop.waiting, interop.waiting \cup {e}}
    <3>1. CASE EditorLibraryRuns(e)
      <4>1. PICK ready \in SUBSET Editors :
               interop' = [interop EXCEPT !.waiting = interop.waiting \cup {e}, !.ready = ready]
        <5>1. (IF interop.copies > 0 THEN interop.ready \cup {e} ELSE interop.ready) \in SUBSET Editors
          BY <1>1, EditorFields
        <5> QED
          BY <3>1, <5>1 DEF EditorLibraryRuns
      <4> QED
        BY <1>1, <4>1 DEF EditorTypeOK
    <3>2. CASE EditorLibraryFails(e)
      BY <1>1, <3>2 DEF EditorLibraryFails, EditorTypeOK
    <3> QED
      BY <1>6, <3>1, <3>2
  <2>6. /\ Cardinality(interop.waiting \cup {e}) = Cardinality(interop.waiting) + 1
    BY <1>3, <2>1, FS_AddElement
  <2>7. EditorCopies'
    <3>1. interop.copies + Cardinality(interop.waiting) <= Cardinality(EditorsBegun)
      BY <1>1 DEF EditorCopies
    <3>2. Cardinality(interop'.waiting) \in {Cardinality(interop.waiting), Cardinality(interop.waiting) + 1}
      BY <2>5, <2>6
    <3>3. interop'.copies + Cardinality(interop'.waiting) <= Cardinality(EditorsBegun')
      BY <1>3, <2>4, <2>5, <3>1, <3>2
    <3>4. interop'.waiting \subseteq EditorsBegun'
      BY <1>1, <2>3, <2>5 DEF EditorCopies
    <3> QED
      BY <3>3, <3>4 DEF EditorCopies
  <2> QED
    BY <1>1, <1>2, <1>4, <2>1, <2>2, <2>3, <2>5, <2>7, EditorLoadKeeps
<1>7. CASE EditorScriptRuns(e) \/ EditorScriptFails(e)
  <2>1. e \in interop.waiting /\ UNCHANGED editors
    BY <1>7 DEF EditorScriptRuns, EditorScriptFails
  <2>2. e \in EditorsBegun /\ dialog.step[e] \notin {"none", "library"}
    BY <1>1, <2>1 DEF EditorCopies, EditorsBegun
  <2>3. PICK next \in {"failed", dialog.step[e]} :
           dialog' = [dialog EXCEPT !.step = [dialog.step EXCEPT ![e] = next]]
    <3>1. dialog = [dialog EXCEPT !.step = [dialog.step EXCEPT ![e] = dialog.step[e]]]
      BY <1>1, EditorFields DEF EditorTypeOK
    <3> QED
      BY <1>7, <3>1 DEF EditorScriptRuns, EditorScriptFails
  <2>4. next \in EditorSteps
    BY <1>1, EditorFields DEF EditorSteps
  <2>5. EditorsBegun' = EditorsBegun
    BY <1>5, <2>2, <2>3, <2>4
  <2>6. Cardinality(interop.waiting \ {e}) = Cardinality(interop.waiting) - 1
    BY <1>3, <2>1, FS_RemoveElement
  <2>7. interop.copies + 1 \in 0..MaxEditors /\ Cardinality(interop.waiting) - 1 \in Nat
    <3>1. Cardinality(interop.waiting) # 0
      BY <1>3, <2>1, FS_EmptySet
    <3> QED
      BY <1>1, <1>3, <3>1 DEF EditorCopies
  <2>8. /\ interop' \in [waiting : SUBSET Editors, copies : 0..MaxEditors,
                         ready : SUBSET Editors, copy : [Editors -> 0..MaxEditors]]
        /\ interop'.copies \in {interop.copies, interop.copies + 1}
        /\ interop'.waiting = interop.waiting \ {e}
    <3>1. PICK copies \in {interop.copies, interop.copies + 1}, ready \in SUBSET Editors :
             interop' = [interop EXCEPT !.waiting = interop.waiting \ {e}, !.copies = copies,
                                        !.ready = ready]
      <4>1. interop.ready \cup {e} \in SUBSET Editors /\ interop.ready \in SUBSET Editors
        BY <1>1, EditorFields
      <4>2. CASE EditorScriptRuns(e)
        BY <4>1, <4>2 DEF EditorScriptRuns
      <4>3. CASE EditorScriptFails(e)
        <5>1. interop' = [interop EXCEPT !.waiting = interop.waiting \ {e}]
          BY <4>3 DEF EditorScriptFails
        <5>2. interop' = [interop EXCEPT !.waiting = interop.waiting \ {e},
                             !.copies = interop.copies, !.ready = interop.ready]
          BY <1>1, <5>1 DEF EditorTypeOK
        <5> QED
          BY <4>1, <5>2
      <4> QED
        BY <1>7, <4>2, <4>3
    <3>2. copies \in 0..MaxEditors /\ interop.waiting \ {e} \in SUBSET Editors
      BY <1>1, <2>7, EditorFields
    <3> QED
      BY <1>1, <3>1, <3>2 DEF EditorTypeOK
  <2>9. EditorCopies'
    <3>1. interop.copies + Cardinality(interop.waiting) <= Cardinality(EditorsBegun)
      BY <1>1 DEF EditorCopies
    <3>2. interop.copies + 1 + (Cardinality(interop.waiting) - 1) <= Cardinality(EditorsBegun)
      BY <1>3, <3>1
    <3>3. interop'.copies + Cardinality(interop'.waiting) <= Cardinality(EditorsBegun)
      BY <1>3, <2>6, <2>7, <2>8, <3>1, <3>2
    <3>4. interop'.waiting \subseteq EditorsBegun
      BY <1>1, <2>8 DEF EditorCopies
    <3> QED
      BY <2>5, <3>3, <3>4 DEF EditorCopies
  <2>10. next = "script" => e \notin editors.creating \cup editors.live
    BY <1>1, <2>3 DEF EditorOrder
  <2> QED
    BY <1>1, <1>2, <1>4, <2>1, <2>2, <2>3, <2>4, <2>8, <2>9, <2>10, EditorLoadKeeps
<1>8. CASE EditorAsked(e)
  <2>1. /\ dialog.step[e] = "script"
        /\ dialog' = [dialog EXCEPT !.step = [dialog.step EXCEPT ![e] = "done"]]
        /\ interop' = [interop EXCEPT !.copy = [interop.copy EXCEPT ![e] = interop.copies]]
    BY <1>8 DEF EditorAsked
  <2>2. e \notin editors.creating \cup editors.live
    BY <1>1, <2>1 DEF EditorOrder
  <2>3. PICK creating \in SUBSET (editors.creating \cup {e}) :
           /\ e \in creating => e = dialog.open
           /\ editors' = [creating |-> creating, live |-> editors.live, map |-> editors.live]
    <3>1. CASE e = dialog.open
      <4>1. editors' = [editors EXCEPT !.creating = editors.creating \cup {e}]
        BY <1>8, <3>1 DEF EditorAsked
      <4>2. editors' = [creating |-> editors.creating \cup {e}, live |-> editors.live,
                        map |-> editors.live]
        BY <1>1, <4>1 DEF EditorTypeOK, EditorOrder
      <4> QED
        BY <3>1, <4>2
    <3>2. CASE e # dialog.open
      BY <1>2, <1>8, <2>2, <3>2 DEF EditorAsked
    <3> QED
      BY <3>1, <3>2
  <2>4. "done" \in EditorSteps /\ EditorsBegun' = EditorsBegun
    <3>1. "done" \in EditorSteps /\ e \in EditorsBegun
      BY <2>1 DEF EditorSteps, EditorsBegun
    <3> QED
      BY <1>5, <2>1, <3>1
  <2>5. interop' \in [waiting : SUBSET Editors, copies : 0..MaxEditors,
                      ready : SUBSET Editors, copy : [Editors -> 0..MaxEditors]]
    <3>1. [interop.copy EXCEPT ![e] = interop.copies] \in [Editors -> 0..MaxEditors]
      BY <1>1, EditorFields
    <3> QED
      BY <1>1, <2>1, <3>1 DEF EditorTypeOK
  <2>6. EditorCopies'
    <3>1. interop'.waiting = interop.waiting /\ interop'.copies = interop.copies
      BY <1>1, <2>1 DEF EditorTypeOK
    <3> QED
      BY <1>1, <2>4, <3>1 DEF EditorCopies
  <2>7. editors.live \cap creating = {}
    BY <1>1, <2>2 DEF EditorOrder
  <2> QED
    BY <1>1, <1>2, <1>4, <2>1, <2>3, <2>4, <2>5, <2>6, <2>7, EditorLoadKeeps
<1> QED
  BY <1>6, <1>7, <1>8

LEMMA EditorCreatedKeeps ==
    ASSUME EditorInv, NEW e \in Editors, EditorCreated(e)
    PROVE  EditorInv'
<1>1. EditorTypeOK /\ EditorOrder /\ EditorCopies
  BY DEF EditorInv, EditorSafe
<1>2. e \in editors.creating /\ dialog.step[e] \notin {"none", "library", "script"}
  BY <1>1 DEF EditorCreated, EditorOrder
<1>3. PICK created \in BOOLEAN :
         /\ editors' = [creating |-> editors.creating \ {e},
                        live |-> IF created THEN editors.live \cup {e} ELSE editors.live,
                        map |-> IF created THEN editors.map \cup {e} ELSE editors.map]
         /\ dialog' = IF created THEN dialog ELSE [dialog EXCEPT !.step[e] = "failed"]
  BY DEF EditorCreated
<1>4. PICK next \in {"failed", dialog.step[e]} :
         dialog' = [dialog EXCEPT !.step = [dialog.step EXCEPT ![e] = next]]
  <2>1. dialog = [dialog EXCEPT !.step = [dialog.step EXCEPT ![e] = dialog.step[e]]]
    BY <1>1, EditorFields DEF EditorTypeOK
  <2> QED
    BY <1>3, <2>1
<1>5. PICK live \in SUBSET (editors.live \cup {e}) :
         /\ editors' = [creating |-> editors.creating \ {e}, live |-> live, map |-> live]
         /\ live \cap (editors.creating \ {e}) = {}
  BY <1>1, <1>3, SMTT(30) DEF EditorOrder
<1>6. next \in EditorSteps /\ next \notin {"none", "library", "script"}
  BY <1>1, <1>2, <1>4, EditorFields DEF EditorSteps
<1>7. UNCHANGED <<interop, upload>>
  BY DEF EditorCreated
<1>8. EditorsBegun' = EditorsBegun
  BY <1>1, <1>2, <1>4, <1>6, EditorFields DEF EditorsBegun
<1>9. EditorCopies'
  BY <1>1, <1>7, <1>8 DEF EditorCopies
<1>10. interop' \in [waiting : SUBSET Editors, copies : 0..MaxEditors,
                    ready : SUBSET Editors, copy : [Editors -> 0..MaxEditors]]
  BY <1>1, <1>7 DEF EditorTypeOK
<1>11. /\ editors.creating \ {e} \in SUBSET (editors.creating \cup {e})
       /\ live \in SUBSET (editors.live \cup editors.creating)
  BY <1>2
<1> QED
  BY <1>2, <1>4, <1>5, <1>6, <1>7, <1>9, <1>10, <1>11, EditorLoadKeeps

LEMMA EditorCloseKeeps ==
    ASSUME EditorInv, NEW e \in Editors, EditorClose(e)
    PROVE  EditorInv'
<1>1. EditorTypeOK /\ EditorsDestroyed /\ UploadAbortHolds /\ EditorOrder /\ EditorCopies
  BY DEF EditorInv, EditorSafe
<1> DEFINE how == IF e \notin editors.live THEN "early"
                  ELSE IF interop.copy[e] # interop.copies THEN "outdated"
                  ELSE "known"
<1>2. /\ e = dialog.open
      /\ dialog' = [dialog EXCEPT !.open = NoEditor, !.closed = [dialog.closed EXCEPT ![e] = how]]
      /\ UNCHANGED <<interop, upload>>
  BY DEF EditorClose
<1>3. how \in Closings
  BY DEF Closings
<1>4. PICK live \in SUBSET editors.live :
         /\ editors' = [creating |-> editors.creating, live |-> live, map |-> live]
         /\ e \in live => how = "outdated"
  <2>1. CASE e \in editors.map /\ interop.copy[e] = interop.copies
    <3>1. editors' = [editors EXCEPT !.live = editors.live \ {e}, !.map = editors.map \ {e}]
      BY <2>1 DEF EditorClose, EditorDestroy
    <3>2. editors' = [creating |-> editors.creating, live |-> editors.live \ {e},
                      map |-> editors.live \ {e}]
      BY <1>1, <3>1 DEF EditorTypeOK, EditorOrder
    <3> QED
      BY <3>2
  <2>2. CASE ~(e \in editors.map /\ interop.copy[e] = interop.copies)
    <3>1. editors' = [creating |-> editors.creating, live |-> editors.live, map |-> editors.live]
      BY <1>1, <2>2 DEF EditorClose, EditorDestroy, EditorTypeOK, EditorOrder
    <3>2. e \in editors.live => how = "outdated"
      BY <1>1, <2>2 DEF EditorOrder
    <3> QED
      BY <3>1, <3>2
  <2> QED
    BY <2>1, <2>2
<1>5. e \in editors.creating => how = "early"
  BY <1>1 DEF EditorOrder
<1> HIDE DEF how
<1>6. EditorTypeOK'
  <2>1. /\ [dialog.closed EXCEPT ![e] = how] \in [Editors -> Closings]
        /\ NoEditor \in Editors \cup {NoEditor}
        /\ live \in SUBSET Editors
    BY <1>1, <1>3, EditorFields
  <2> QED
    BY <1>1, <1>2, <1>4, <2>1 DEF EditorTypeOK
<1>7. /\ dialog'.opened = dialog.opened /\ dialog'.open = NoEditor /\ dialog'.step = dialog.step
      /\ dialog'.closed[e] = how
      /\ \A x \in Editors : x # e => dialog'.closed[x] = dialog.closed[x]
  BY <1>1, <1>2 DEF EditorTypeOK
<1>8. editors'.creating = editors.creating /\ editors'.live = live /\ editors'.map = live
  BY <1>4
<1>9. editors.creating \subseteq Editors /\ live \subseteq Editors
  BY <1>1, EditorFields
<1>10. EditorsDestroyed' /\ UploadAbortHolds'
  BY <1>1, <1>2, <1>4, <1>7, <1>8, <1>9 DEF EditorsDestroyed, UploadAbortHolds
<1>11. EditorOrder'
  BY <1>1, <1>2, <1>4, <1>5, <1>7, <1>8, <1>9 DEF EditorOrder
<1>12. EditorsBegun' = EditorsBegun
  BY <1>7 DEF EditorsBegun
<1>13. EditorCopies'
  BY <1>1, <1>2, <1>12 DEF EditorCopies
<1> QED
  BY <1>6, <1>10, <1>11, <1>13 DEF EditorInv, EditorSafe

\* Uploads touch neither dialogs nor editors, and one that was aborted has settled.
LEMMA EditorUploadKeeps ==
    ASSUME EditorInv, NEW e \in Editors,
           UploadStart(e) \/ UploadRead(e) \/ UploadAnswered(e) \/ UploadAbort(e)
    PROVE  EditorInv'
<1>1. EditorTypeOK /\ EditorsDestroyed /\ UploadAbortHolds /\ EditorOrder /\ EditorCopies
  BY DEF EditorInv, EditorSafe
<1>2. UNCHANGED <<dialog, interop, editors>>
  BY DEF UploadStart, UploadRead, UploadAnswered, UploadAbort, UploadStep
<1>3. PICK next \in UploadSteps, aborted \in SUBSET (upload.aborted \cup {e}) :
         /\ upload' = [upload EXCEPT !.step = [upload.step EXCEPT ![e] = next], !.aborted = aborted]
         /\ e \in aborted => next = "rejected"
  <2>1. CASE UploadAbort(e)
    <3>1. upload' = [upload EXCEPT !.step = [upload.step EXCEPT ![e] = "rejected"],
                                   !.aborted = upload.aborted \cup {e}]
      BY <2>1 DEF UploadAbort
    <3>2. "rejected" \in UploadSteps
      BY DEF UploadSteps
    <3> QED
      BY <3>1, <3>2
  <2>2. CASE UploadStart(e) \/ UploadRead(e) \/ UploadAnswered(e)
    <3>1. PICK next \in UploadSteps :
             /\ upload' = [upload EXCEPT !.step = [upload.step EXCEPT ![e] = next]]
             /\ upload.step[e] # "rejected"
      BY <2>2 DEF UploadStart, UploadRead, UploadAnswered, UploadStep, UploadSteps
    <3>2. upload' = [upload EXCEPT !.step = [upload.step EXCEPT ![e] = next],
                                   !.aborted = upload.aborted]
      BY <1>1, <3>1 DEF EditorTypeOK
    <3>3. e \notin upload.aborted
      BY <1>1, <3>1 DEF UploadAbortHolds
    <3> QED
      BY <3>2, <3>3
  <2> QED
    BY <2>1, <2>2
<1>4. EditorTypeOK'
  <2>1. [upload.step EXCEPT ![e] = next] \in [Editors -> UploadSteps] /\ aborted \in SUBSET Editors
    BY <1>1, EditorFields
  <2> QED
    BY <1>1, <1>2, <1>3, <2>1 DEF EditorTypeOK
<1>5. UploadAbortHolds'
  <2>1. /\ upload'.aborted = aborted /\ upload'.step[e] = next
        /\ \A x \in Editors : x # e => upload'.step[x] = upload.step[x]
    BY <1>1, <1>3 DEF EditorTypeOK
  <2>2. \A x \in aborted : x \in Editors /\ (x # e => x \in upload.aborted)
    BY <1>1, EditorFields
  <2> QED
    BY <1>1, <1>3, <2>1, <2>2 DEF UploadAbortHolds
<1>6. EditorsDestroyed' /\ EditorOrder' /\ EditorCopies'
  BY <1>1, <1>2 DEF EditorsDestroyed, EditorOrder, EditorCopies, EditorsBegun
<1> QED
  BY <1>4, <1>5, <1>6 DEF EditorInv, EditorSafe

LEMMA EditorInvStep == EditorInv /\ [EditorNext]_editorVars => EditorInv'
<1> SUFFICES ASSUME EditorInv, [EditorNext]_editorVars PROVE EditorInv'
  OBVIOUS
<1>1. CASE UNCHANGED editorVars
  BY <1>1 DEF editorVars, EditorInv, EditorSafe, EditorTypeOK, EditorsDestroyed, UploadAbortHolds,
              EditorOrder, EditorCopies, EditorsBegun
<1> QED
  BY <1>1, EditorOpenKeeps, EditorScriptsKeep, EditorCreatedKeeps, EditorCloseKeeps,
     EditorUploadKeeps DEF EditorNext

----------------------------------------------------------------------------
(* The effects of the home page. *)

\* The visit shown is the one that was begun and not left, and one that is not
\* tangled is alone with its effects as it builds them up.
HomeShown ==
    /\ \A v \in Visits : v > home.visits => home.mount[v] = "no"
    /\ \A v \in Visits : v = home.shown <=> home.mount[v] # "no" /\ home.leave[v] = "no"
    /\ \A v \in Visits : home.mount[v] = "no" => home.leave[v] = "no"
    /\ \A v \in Visits \ home.tangled : v = home.shown =>
         /\ HomeBusy \subseteq {v}
         /\ home.mount[v] # "glow" => glow.active /\ v \in glow.loops
         /\ home.mount[v] \in {"reveal", "done"} =>
              dots.filled /\ v \in dots.loops /\ dots.canvas[v] = v

\* Without tangled visits a loop is the one its handle names, of a visit that has
\* begun it and has not ended it.
HomeHandles ==
    home.tangled = {} =>
        /\ \A v \in Visits : Mounting(v) => home.leave[v] = "no"
        /\ glow.loops \subseteq {glow.handle}
        /\ \A v \in glow.loops : home.mount[v] \notin {"no", "glow"} /\ home.leave[v] \in {"no", "glow"}
        /\ dots.loops \subseteq {dots.handle}
        /\ \A v \in dots.loops : home.mount[v] \in {"reveal", "done"} /\ home.leave[v] # "done"

HomeInv == HomeTypeOK /\ HomeShown /\ HomeHandles

LEMMA AtMostOne ==
    ASSUME NEW S, NEW x, S \subseteq {x}
    PROVE  Cardinality(S) <= 1
<1>1. S = {} \/ S = {x}
  OBVIOUS
<1>2. Cardinality({}) = 0 /\ Cardinality({x}) = 1
  BY FS_EmptySet, FS_Singleton
<1> QED
  BY <1>1, <1>2

LEMMA HomeInvSafe == HomeInv => HomeSafe
<1> SUFFICES ASSUME HomeInv PROVE HomeAlive /\ HomeOneLoop
  BY DEF HomeInv, HomeSafe
<1>1. HomeAlive
  BY DEF HomeInv, HomeShown, HomeAlive
<1>2. HomeOneLoop
  BY AtMostOne DEF HomeInv, HomeHandles, HomeOneLoop
<1> QED
  BY <1>1, <1>2

LEMMA HomeFields ==
    ASSUME HomeTypeOK
    PROVE  /\ home.visits \in 0..MaxVisits /\ home.shown \in Visits \cup {NoVisit}
           /\ home.mount \in [Visits -> MountSteps] /\ home.leave \in [Visits -> LeaveSteps]
           /\ home.tangled \in SUBSET Visits
           /\ glow.loops \in SUBSET Visits /\ dots.loops \in SUBSET Visits
           /\ dots.canvas \in [Visits -> Visits \cup {NoVisit}] /\ dots.resizers \in SUBSET Visits
           /\ HomeBusy \in SUBSET Visits
           /\ NoVisit \notin Visits
BY VisitsAssumption DEF HomeTypeOK, HomeBusy, Visits, NoVisit

LEMMA HomeInvInit == HomeInit => HomeInv
<1> SUFFICES ASSUME HomeInit PROVE HomeInv
  OBVIOUS
<1> USE VisitsAssumption DEF HomeInit, Visits, NoVisit
<1>1. HomeTypeOK
  <2>1. /\ [v \in Visits |-> "no"] \in [Visits -> MountSteps]
        /\ [v \in Visits |-> "no"] \in [Visits -> LeaveSteps]
        /\ [v \in Visits |-> NoVisit] \in [Visits -> Visits \cup {NoVisit}]
        /\ 0 \in 0..MaxVisits
    BY DEF MountSteps, LeaveSteps
  <2> QED
    BY <2>1 DEF HomeTypeOK
<1>2. HomeShown /\ HomeHandles
  BY DEF HomeShown, HomeHandles, Mounting
<1> QED
  BY <1>1, <1>2 DEF HomeInv

LEMMA HomeOpenKeeps == HomeInv /\ HomeOpen => HomeInv'
<1> SUFFICES ASSUME HomeInv, HomeOpen PROVE HomeInv'
  OBVIOUS
<1> USE VisitsAssumption
<1> DEFINE v == home.visits + 1
           tangled == IF HomeBusy = {} THEN home.tangled ELSE home.tangled \cup {v}
<1>1. HomeTypeOK /\ HomeShown /\ HomeHandles
  BY DEF HomeInv
<1>2. v \in Visits /\ v \in 0..MaxVisits /\ v > home.visits /\ home.shown = NoVisit
  BY <1>1, HomeFields DEF HomeOpen, Visits
<1>3. \A w \in Visits : w > v => w > home.visits /\ w # v
  BY <1>1, HomeFields DEF Visits
<1>4. /\ home' = [home EXCEPT !.visits = v, !.shown = v, !.mount = [home.mount EXCEPT ![v] = "glow"],
                              !.tangled = tangled]
      /\ UNCHANGED <<glow, dots>>
  BY DEF HomeOpen
<1>5. tangled \in SUBSET Visits /\ home.tangled \subseteq tangled /\ (v \notin tangled => HomeBusy = {})
  BY <1>1, <1>2, HomeFields
<1> HIDE DEF v, tangled
<1>6. HomeTypeOK'
  <2>1. [home.mount EXCEPT ![v] = "glow"] \in [Visits -> MountSteps]
    BY <1>1, HomeFields DEF MountSteps
  <2> QED
    BY <1>1, <1>2, <1>4, <1>5, <2>1 DEF HomeTypeOK
<1>7. /\ home'.visits = v /\ home'.shown = v /\ home'.leave = home.leave /\ home'.tangled = tangled
      /\ home'.mount[v] = "glow"
      /\ \A w \in Visits : w # v => home'.mount[w] = home.mount[w]
  BY <1>1, <1>2, <1>4 DEF HomeTypeOK
<1>8. home.mount[v] = "no" /\ home.leave[v] = "no"
  BY <1>1, <1>2 DEF HomeShown
<1>9. HomeBusy' = HomeBusy \cup {v}
  BY <1>2, <1>7, <1>8 DEF HomeBusy, Mounting, Leaving
<1>10. HomeShown'
  <2>1. \A w \in Visits : w > home'.visits => home'.mount[w] = "no"
    BY <1>1, <1>3, <1>7 DEF HomeShown
  <2>2. ASSUME NEW w \in Visits
        PROVE  w = home'.shown <=> home'.mount[w] # "no" /\ home'.leave[w] = "no"
    <3>1. CASE w = v
      BY <1>7, <1>8, <3>1
    <3>2. CASE w # v
      <4>1. ~(home.mount[w] # "no" /\ home.leave[w] = "no")
        BY <1>1, <1>2, HomeFields DEF HomeShown
      <4> QED
        BY <1>7, <3>2, <4>1
    <3> QED
      BY <3>1, <3>2
  <2>3. \A w \in Visits : home'.mount[w] = "no" => home'.leave[w] = "no"
    BY <1>1, <1>7, <1>8 DEF HomeShown
  <2>4. v \notin tangled => HomeBusy' \subseteq {v}
    BY <1>5, <1>9
  <2> QED
    BY <1>7, <2>1, <2>2, <2>3, <2>4 DEF HomeShown
<1>11. HomeHandles'
  <2> SUFFICES ASSUME tangled = {} PROVE HomeHandles'
    BY <1>7 DEF HomeHandles
  <2>1. home.tangled = {} /\ v \notin glow.loops \cup dots.loops
    BY <1>1, <1>5, <1>8 DEF HomeHandles
  <2>2. glow.loops \subseteq Visits /\ dots.loops \subseteq Visits
    BY <1>1, HomeFields
  <2> QED
    BY <1>1, <1>4, <1>7, <1>8, <2>1, <2>2 DEF HomeHandles, Mounting
<1> QED
  BY <1>6, <1>10, <1>11 DEF HomeInv

LEMMA HomeLeaveKeeps ==
    ASSUME HomeInv, NEW v \in Visits, HomeLeave(v)
    PROVE  HomeInv'
<1>1. HomeTypeOK /\ HomeShown /\ HomeHandles
  BY DEF HomeInv
<1> DEFINE tangled == IF Mounting(v) THEN home.tangled \cup {v} ELSE home.tangled
<1>2. /\ v = home.shown
      /\ home' = [home EXCEPT !.shown = NoVisit, !.leave = [home.leave EXCEPT ![v] = "glow"],
                              !.tangled = tangled]
      /\ UNCHANGED <<glow, dots>>
  BY DEF HomeLeave
<1>3. tangled \in SUBSET Visits /\ (tangled = {} => home.tangled = {} /\ ~Mounting(v))
  BY <1>1, HomeFields
<1> HIDE DEF tangled
<1>4. HomeTypeOK'
  <2>1. [home.leave EXCEPT ![v] = "glow"] \in [Visits -> LeaveSteps]
    BY <1>1, HomeFields DEF LeaveSteps
  <2> QED
    BY <1>1, <1>2, <1>3, <2>1 DEF HomeTypeOK
<1>5. /\ home'.visits = home.visits /\ home'.shown = NoVisit /\ home'.mount = home.mount
      /\ home'.tangled = tangled
      /\ home'.leave[v] = "glow"
      /\ \A w \in Visits : w # v => home'.leave[w] = home.leave[w]
  BY <1>1, <1>2 DEF HomeTypeOK
<1>6. home.mount[v] # "no" /\ NoVisit \notin Visits
  BY <1>1, <1>2, HomeFields DEF HomeShown
<1>7. HomeShown'
  BY <1>1, <1>2, <1>5, <1>6 DEF HomeShown
<1>8. HomeHandles'
  <2>1. glow.loops \subseteq Visits /\ dots.loops \subseteq Visits
    BY <1>1, HomeFields
  <2> QED
    BY <1>1, <1>2, <1>3, <1>5, <2>1 DEF HomeHandles, Mounting
<1> QED
  BY <1>4, <1>7, <1>8 DEF HomeInv

\* The mount of a visit goes on: only the visit itself may be busy with its effects,
\* unless visits are tangled, and then no other loop is left.
LEMMA HomeMountAlone ==
    ASSUME HomeInv, NEW v \in Visits, Mounting(v)
    PROVE  /\ \A w \in Visits \ home.tangled : w = home.shown => w = v
           /\ home.tangled = {} => v = home.shown /\ home.leave[v] = "no"
           /\ home.tangled = {} /\ home.mount[v] = "glow" => glow.loops = {}
           /\ home.tangled = {} /\ home.mount[v] = "particles" => dots.loops = {}
<1>1. HomeTypeOK /\ HomeShown /\ HomeHandles
  BY DEF HomeInv
<1>2. v \in HomeBusy
  BY DEF HomeBusy
<1>3. \A w \in Visits \ home.tangled : w = home.shown => w = v
  BY <1>1, <1>2 DEF HomeShown
<1>4. ASSUME home.tangled = {} PROVE v = home.shown /\ home.leave[v] = "no"
  BY <1>1, <1>4 DEF HomeShown, HomeHandles, Mounting
<1>5. ASSUME home.tangled = {}, NEW w \in Visits, home.mount[w] # "no", home.leave[w] # "done"
      PROVE  w = v
  <2>1. HomeBusy \subseteq {v}
    BY <1>1, <1>4, <1>5 DEF HomeShown
  <2>2. CASE home.leave[w] = "no"
    BY <1>1, <1>4, <1>5, <2>2 DEF HomeShown
  <2>3. CASE home.leave[w] # "no"
    <3>1. home.leave[w] \in {"glow", "particles"}
      BY <1>1, <1>5, <2>3, HomeFields DEF LeaveSteps
    <3> QED
      BY <2>1, <3>1 DEF HomeBusy, Leaving
  <2> QED
    BY <2>2, <2>3
<1>6. glow.loops \subseteq Visits /\ dots.loops \subseteq Visits
  BY <1>1, HomeFields
<1>7. home.tangled = {} /\ home.mount[v] = "glow" => glow.loops = {}
  BY <1>1, <1>5, <1>6 DEF HomeHandles
<1>8. home.tangled = {} /\ home.mount[v] = "particles" => dots.loops = {}
  BY <1>1, <1>5, <1>6 DEF HomeHandles
<1> QED
  BY <1>3, <1>4, <1>7, <1>8

\* A visit goes on with its mount or its leaving.
LEMMA HomeMountTypes ==
    ASSUME HomeTypeOK, NEW v \in Visits, NEW next \in MountSteps,
           home' = [home EXCEPT !.mount[v] = next]
    PROVE  /\ home' \in [visits : 0..MaxVisits, shown : Visits \cup {NoVisit},
                         mount : [Visits -> MountSteps], leave : [Visits -> LeaveSteps],
                         tangled : SUBSET Visits]
           /\ home'.visits = home.visits /\ home'.shown = home.shown
           /\ home'.leave = home.leave /\ home'.tangled = home.tangled
           /\ home'.mount[v] = next
           /\ \A w \in Visits : w # v => home'.mount[w] = home.mount[w]
<1>1. [home.mount EXCEPT ![v] = next] \in [Visits -> MountSteps]
  BY HomeFields
<1>2. home' = [home EXCEPT !.mount = [home.mount EXCEPT ![v] = next]]
  OBVIOUS
<1> QED
  BY <1>1, <1>2 DEF HomeTypeOK

LEMMA HomeLeaveTypes ==
    ASSUME HomeTypeOK, NEW v \in Visits, NEW next \in LeaveSteps,
           home' = [home EXCEPT !.leave[v] = next]
    PROVE  /\ home' \in [visits : 0..MaxVisits, shown : Visits \cup {NoVisit},
                         mount : [Visits -> MountSteps], leave : [Visits -> LeaveSteps],
                         tangled : SUBSET Visits]
           /\ home'.visits = home.visits /\ home'.shown = home.shown
           /\ home'.mount = home.mount /\ home'.tangled = home.tangled
           /\ home'.leave[v] = next
           /\ \A w \in Visits : w # v => home'.leave[w] = home.leave[w]
<1>1. [home.leave EXCEPT ![v] = next] \in [Visits -> LeaveSteps]
  BY HomeFields
<1>2. home' = [home EXCEPT !.leave = [home.leave EXCEPT ![v] = next]]
  OBVIOUS
<1> QED
  BY <1>1, <1>2 DEF HomeTypeOK

\* A step of the mount keeps what is said of the visit shown when the effects that
\* the visit has built up by then are there.
LEMMA HomeMountShown ==
    ASSUME HomeInv, NEW v \in Visits, Mounting(v), NEW next \in MountSteps \ {"no", "glow"},
           home' = [home EXCEPT !.mount[v] = next],
           v \notin home.tangled /\ v = home.shown =>
             /\ glow'.active /\ v \in glow'.loops
             /\ next \in {"reveal", "done"} =>
                  dots'.filled /\ v \in dots'.loops /\ dots'.canvas[v] = v
    PROVE  HomeShown'
<1>1. HomeTypeOK /\ HomeShown
  BY DEF HomeInv
<1>2. /\ home'.visits = home.visits /\ home'.shown = home.shown
      /\ home'.leave = home.leave /\ home'.tangled = home.tangled
      /\ home'.mount[v] = next
      /\ \A w \in Visits : w # v => home'.mount[w] = home.mount[w]
  BY <1>1, HomeMountTypes
<1>3. home.mount[v] # "no"
  BY DEF Mounting
<1>4. HomeBusy' \subseteq HomeBusy
  BY <1>2 DEF HomeBusy, Mounting, Leaving
<1>5. \A w \in Visits : w > home'.visits => home'.mount[w] = "no"
  BY <1>1, <1>2, <1>3 DEF HomeShown
<1>6. \A w \in Visits : w = home'.shown <=> home'.mount[w] # "no" /\ home'.leave[w] = "no"
  BY <1>1, <1>2, <1>3 DEF HomeShown
<1>7. \A w \in Visits : home'.mount[w] = "no" => home'.leave[w] = "no"
  BY <1>1, <1>2 DEF HomeShown
<1>8. ASSUME NEW w \in Visits \ home'.tangled, w = home'.shown
      PROVE  /\ HomeBusy' \subseteq {w}
             /\ home'.mount[w] # "glow" => glow'.active /\ w \in glow'.loops
             /\ home'.mount[w] \in {"reveal", "done"} =>
                  dots'.filled /\ w \in dots'.loops /\ dots'.canvas[w] = w
  <2>1. w = v
    BY <1>2, <1>8, HomeMountAlone
  <2>2. HomeBusy \subseteq {w}
    BY <1>1, <1>2, <1>8 DEF HomeShown
  <2> QED
    BY <1>2, <1>4, <1>8, <2>1, <2>2
<1> QED
  BY <1>5, <1>6, <1>7, <1>8 DEF HomeShown

LEMMA InitGlowKeeps ==
    ASSUME HomeInv, NEW v \in Visits, InitGlow(v)
    PROVE  HomeInv'
<1>1. HomeTypeOK /\ HomeShown /\ HomeHandles
  BY DEF HomeInv
<1>2. /\ Mounting(v) /\ home.mount[v] = "glow"
      /\ home' = [home EXCEPT !.mount[v] = "particles"]
      /\ glow'.active /\ glow'.handle = v /\ glow'.loops = glow.loops \cup {v}
      /\ UNCHANGED dots
  BY DEF InitGlow, Mounting
<1>3. "particles" \in MountSteps \ {"no", "glow"}
  BY DEF MountSteps
<1>4. glow.loops \in SUBSET Visits /\ dots.loops \in SUBSET Visits
  BY <1>1, HomeFields
<1>5. HomeTypeOK'
  <2>1. glow' \in [active : BOOLEAN, handle : Visits \cup {NoVisit}, loops : SUBSET Visits]
    BY <1>4 DEF InitGlow
  <2> QED
    BY <1>1, <1>2, <1>3, <2>1, HomeMountTypes DEF HomeTypeOK
<1>6. HomeShown'
  BY <1>2, <1>3, HomeMountShown
<1>7. HomeHandles'
  <2>1. /\ home'.leave = home.leave /\ home'.tangled = home.tangled
        /\ home'.mount[v] = "particles"
        /\ \A w \in Visits : w # v => home'.mount[w] = home.mount[w]
    BY <1>1, <1>2, <1>3, HomeMountTypes
  <2> SUFFICES ASSUME home.tangled = {} PROVE HomeHandles'
    BY <2>1 DEF HomeHandles
  <2>2. home.leave[v] = "no" /\ glow.loops = {}
    BY <1>2, HomeMountAlone
  <2>3. v \notin dots.loops
    BY <1>1, <1>2 DEF HomeHandles
  <2> QED
    BY <1>1, <1>2, <1>4, <2>1, <2>2, <2>3 DEF HomeHandles, Mounting
<1> QED
  BY <1>5, <1>6, <1>7 DEF HomeInv

LEMMA InitParticlesKeeps ==
    ASSUME HomeInv, NEW v \in Visits, InitParticles(v)
    PROVE  HomeInv'
<1>1. HomeTypeOK /\ HomeShown /\ HomeHandles
  BY DEF HomeInv
<1>2. /\ Mounting(v) /\ home.mount[v] = "particles"
      /\ home' = [home EXCEPT !.mount[v] = "reveal"]
      /\ UNCHANGED glow
  BY DEF InitParticles, Mounting
<1>3. "reveal" \in MountSteps \ {"no", "glow"}
  BY DEF MountSteps
<1>4. /\ glow.loops \in SUBSET Visits /\ dots.loops \in SUBSET Visits
      /\ dots.canvas \in [Visits -> Visits \cup {NoVisit}] /\ NoVisit \notin Visits
      /\ home.shown \in Visits \cup {NoVisit}
  BY <1>1, HomeFields
<1>5. \/ home.shown = NoVisit /\ dots' = dots
      \/ /\ dots'.filled /\ dots'.handle = v /\ dots'.loops = dots.loops \cup {v}
         /\ dots'.canvas[v] = home.shown
  BY <1>4 DEF InitParticles
<1>6. HomeTypeOK'
  <2>1. dots' \in [filled : BOOLEAN, handle : Visits \cup {NoVisit}, loops : SUBSET Visits,
                   canvas : [Visits -> Visits \cup {NoVisit}], resizers : SUBSET Visits]
    <3>1. [dots.canvas EXCEPT ![v] = home.shown] \in [Visits -> Visits \cup {NoVisit}]
      BY <1>4
    <3>2. dots.resizers \cup {v} \in SUBSET Visits /\ dots.loops \cup {v} \in SUBSET Visits
      BY <1>1, HomeFields
    <3> QED
      BY <1>1, <3>1, <3>2 DEF HomeTypeOK, InitParticles
  <2> QED
    BY <1>1, <1>2, <1>3, <2>1, HomeMountTypes DEF HomeTypeOK
<1>7. HomeShown'
  <2>1. ASSUME v \notin home.tangled, v = home.shown
        PROVE  /\ glow'.active /\ v \in glow'.loops
               /\ dots'.filled /\ v \in dots'.loops /\ dots'.canvas[v] = v
    BY <1>1, <1>2, <1>4, <1>5, <2>1 DEF HomeShown
  <2> QED
    BY <1>2, <1>3, <2>1, HomeMountShown
<1>8. HomeHandles'
  <2>1. /\ home'.leave = home.leave /\ home'.tangled = home.tangled
        /\ home'.mount[v] = "reveal"
        /\ \A w \in Visits : w # v => home'.mount[w] = home.mount[w]
    BY <1>1, <1>2, <1>3, HomeMountTypes
  <2> SUFFICES ASSUME home.tangled = {} PROVE HomeHandles'
    BY <2>1 DEF HomeHandles
  <2>2. home.leave[v] = "no" /\ v = home.shown /\ dots.loops = {}
    BY <1>2, HomeMountAlone
  <2>3. dots'.loops = {v} /\ dots'.handle = v
    BY <1>4, <1>5, <2>2
  <2> QED
    BY <1>1, <1>2, <1>4, <2>1, <2>2, <2>3 DEF HomeHandles, Mounting
<1> QED
  BY <1>6, <1>7, <1>8 DEF HomeInv

LEMMA InitProductRevealKeeps ==
    ASSUME HomeInv, NEW v \in Visits, InitProductReveal(v)
    PROVE  HomeInv'
<1>1. HomeTypeOK /\ HomeShown /\ HomeHandles
  BY DEF HomeInv
<1>2. /\ Mounting(v) /\ home.mount[v] = "reveal"
      /\ home' = [home EXCEPT !.mount[v] = "done"]
      /\ UNCHANGED <<glow, dots>>
  BY DEF InitProductReveal, Mounting
<1>3. "done" \in MountSteps \ {"no", "glow"}
  BY DEF MountSteps
<1>4. HomeTypeOK'
  BY <1>1, <1>2, <1>3, HomeMountTypes DEF HomeTypeOK
<1>5. HomeShown'
  <2>1. ASSUME v \notin home.tangled, v = home.shown
        PROVE  /\ glow'.active /\ v \in glow'.loops
               /\ dots'.filled /\ v \in dots'.loops /\ dots'.canvas[v] = v
    BY <1>1, <1>2, <2>1 DEF HomeShown
  <2> QED
    BY <1>2, <1>3, <2>1, HomeMountShown
<1>6. HomeHandles'
  <2>1. /\ home'.leave = home.leave /\ home'.tangled = home.tangled
        /\ home'.mount[v] = "done"
        /\ \A w \in Visits : w # v => home'.mount[w] = home.mount[w]
    BY <1>1, <1>2, <1>3, HomeMountTypes
  <2>2. glow.loops \subseteq Visits /\ dots.loops \subseteq Visits
    BY <1>1, HomeFields
  <2> QED
    BY <1>1, <1>2, <2>1, <2>2 DEF HomeHandles, Mounting
<1> QED
  BY <1>4, <1>5, <1>6 DEF HomeInv

\* DisposeAsync goes on: no visit is shown, or the one shown is tangled.
LEMMA HomeLeaveShown ==
    ASSUME HomeInv, NEW v \in Visits, Leaving(v), NEW next \in LeaveSteps \ {"no"},
           home' = [home EXCEPT !.leave[v] = next]
    PROVE  HomeShown'
<1>1. HomeTypeOK /\ HomeShown
  BY DEF HomeInv
<1>2. /\ home'.visits = home.visits /\ home'.shown = home.shown
      /\ home'.mount = home.mount /\ home'.tangled = home.tangled
      /\ home'.leave[v] = next
      /\ \A w \in Visits : w # v => home'.leave[w] = home.leave[w]
  BY <1>1, HomeLeaveTypes
<1>3. home.leave[v] # "no" /\ v \in HomeBusy
  BY DEF Leaving, HomeBusy
<1>4. home.mount[v] # "no" /\ v # home.shown
  BY <1>1, <1>3 DEF HomeShown
<1>5. \A w \in Visits \ home.tangled : w # home.shown
  BY <1>1, <1>3, <1>4 DEF HomeShown
<1> QED
  BY <1>1, <1>2, <1>4, <1>5 DEF HomeShown

LEMMA DisposeGlowKeeps ==
    ASSUME HomeInv, NEW v \in Visits, DisposeGlow(v)
    PROVE  HomeInv'
<1>1. HomeTypeOK /\ HomeShown /\ HomeHandles
  BY DEF HomeInv
<1>2. /\ Leaving(v) /\ home.leave[v] = "glow"
      /\ home' = [home EXCEPT !.leave[v] = "particles"]
      /\ glow'.loops = glow.loops \ {glow.handle}
      /\ UNCHANGED dots
  BY DEF DisposeGlow, Leaving
<1>3. "particles" \in LeaveSteps \ {"no"}
  BY DEF LeaveSteps
<1>4. glow.loops \in SUBSET Visits /\ dots.loops \in SUBSET Visits
  BY <1>1, HomeFields
<1>5. HomeTypeOK'
  <2>1. home' \in [visits : 0..MaxVisits, shown : Visits \cup {NoVisit},
                   mount : [Visits -> MountSteps], leave : [Visits -> LeaveSteps],
                   tangled : SUBSET Visits]
    BY <1>1, <1>2, <1>3, HomeLeaveTypes
  <2>2. glow' \in [active : BOOLEAN, handle : Visits \cup {NoVisit}, loops : SUBSET Visits]
    <3>1. glow.loops \ {glow.handle} \in SUBSET Visits
      BY <1>4
    <3>2. glow' = [active |-> FALSE, handle |-> NoVisit, loops |-> glow.loops \ {glow.handle}]
      BY DEF DisposeGlow
    <3> QED
      BY <3>1, <3>2
  <2> QED
    BY <1>1, <1>2, <2>1, <2>2 DEF HomeTypeOK
<1>6. HomeShown'
  BY <1>2, <1>3, HomeLeaveShown
<1>7. HomeHandles'
  <2>1. /\ home'.mount = home.mount /\ home'.tangled = home.tangled
        /\ home'.leave[v] = "particles"
        /\ \A w \in Visits : w # v => home'.leave[w] = home.leave[w]
    BY <1>1, <1>2, <1>3, HomeLeaveTypes
  <2> SUFFICES ASSUME home.tangled = {} PROVE HomeHandles'
    BY <2>1 DEF HomeHandles
  <2>2. glow'.loops = {}
    BY <1>1, <1>2 DEF HomeHandles
  <2> QED
    BY <1>1, <1>2, <1>4, <2>1, <2>2 DEF HomeHandles, Mounting
<1> QED
  BY <1>5, <1>6, <1>7 DEF HomeInv

LEMMA DisposeParticlesKeeps ==
    ASSUME HomeInv, NEW v \in Visits, DisposeParticles(v)
    PROVE  HomeInv'
<1>1. HomeTypeOK /\ HomeShown /\ HomeHandles
  BY DEF HomeInv
<1>2. /\ Leaving(v) /\ home.leave[v] = "particles"
      /\ home' = [home EXCEPT !.leave[v] = "done"]
      /\ dots' = [dots EXCEPT !.filled = FALSE, !.handle = NoVisit,
                              !.loops = dots.loops \ {dots.handle}]
      /\ UNCHANGED glow
  BY DEF DisposeParticles, Leaving
<1>3. "done" \in LeaveSteps \ {"no"}
  BY DEF LeaveSteps
<1>4. glow.loops \in SUBSET Visits /\ dots.loops \in SUBSET Visits
  BY <1>1, HomeFields
<1>5. HomeTypeOK'
  BY <1>1, <1>2, <1>3, <1>4, HomeLeaveTypes DEF HomeTypeOK
<1>6. HomeShown'
  BY <1>2, <1>3, HomeLeaveShown
<1>7. HomeHandles'
  <2>1. /\ home'.mount = home.mount /\ home'.tangled = home.tangled
        /\ home'.leave[v] = "done"
        /\ \A w \in Visits : w # v => home'.leave[w] = home.leave[w]
    BY <1>1, <1>2, <1>3, HomeLeaveTypes
  <2> SUFFICES ASSUME home.tangled = {} PROVE HomeHandles'
    BY <2>1 DEF HomeHandles
  <2>2. dots'.loops = {}
    BY <1>1, <1>2 DEF HomeHandles, HomeTypeOK
  <2> QED
    BY <1>1, <1>2, <1>4, <2>1, <2>2 DEF HomeHandles, Mounting
<1> QED
  BY <1>5, <1>6, <1>7 DEF HomeInv

LEMMA GlowFrameKeeps ==
    ASSUME HomeInv, NEW v \in Visits, GlowFrame(v)
    PROVE  HomeInv'
<1>1. HomeTypeOK /\ HomeShown /\ HomeHandles
  BY DEF HomeInv
<1>2. v \in glow.loops /\ UNCHANGED <<home, dots>>
  BY DEF GlowFrame
<1>3. HomeBusy' = HomeBusy
  BY <1>2 DEF HomeBusy, Mounting, Leaving
<1>4. CASE glow.active
  <2>1. glow' = [glow EXCEPT !.handle = v]
    BY <1>4 DEF GlowFrame
  <2>2. HomeTypeOK'
    BY <1>1, <1>2, <2>1 DEF HomeTypeOK
  <2>3. glow'.active /\ glow'.handle = v /\ glow'.loops = glow.loops
    BY <1>1, <1>4, <2>1 DEF HomeTypeOK
  <2>4. HomeShown'
    BY <1>1, <1>2, <1>3, <2>3 DEF HomeShown
  <2>5. HomeHandles'
    BY <1>1, <1>2, <2>3 DEF HomeHandles, Mounting
  <2> QED
    BY <2>2, <2>4, <2>5 DEF HomeInv
<1>5. CASE ~glow.active
  <2>1. glow' = [glow EXCEPT !.loops = glow.loops \ {v}]
    BY <1>5 DEF GlowFrame
  <2>2. HomeTypeOK'
    <3>1. glow.loops \ {v} \in SUBSET Visits
      BY <1>1, HomeFields
    <3> QED
      BY <1>1, <1>2, <2>1, <3>1 DEF HomeTypeOK
  <2>3. glow'.handle = glow.handle /\ glow'.loops = glow.loops \ {v}
    BY <1>1, <2>1 DEF HomeTypeOK
  <2>4. HomeShown'
    BY <1>1, <1>2, <1>3, <1>5, <2>3 DEF HomeShown
  <2>5. HomeHandles'
    BY <1>1, <1>2, <2>3 DEF HomeHandles, Mounting
  <2> QED
    BY <2>2, <2>4, <2>5 DEF HomeInv
<1> QED
  BY <1>4, <1>5

LEMMA ParticlesFrameKeeps ==
    ASSUME HomeInv, NEW v \in Visits, ParticlesFrame(v)
    PROVE  HomeInv'
<1>1. HomeTypeOK /\ HomeShown /\ HomeHandles
  BY DEF HomeInv
<1>2. v \in dots.loops /\ UNCHANGED <<home, glow>>
  BY DEF ParticlesFrame
<1>3. HomeBusy' = HomeBusy
  BY <1>2 DEF HomeBusy, Mounting, Leaving
<1>4. CASE dots.canvas[v] = home.shown
  <2>1. dots' = [dots EXCEPT !.handle = v]
    BY <1>4 DEF ParticlesFrame
  <2>2. HomeTypeOK'
    BY <1>1, <1>2, <2>1 DEF HomeTypeOK
  <2>3. /\ dots'.filled = dots.filled /\ dots'.canvas = dots.canvas
        /\ dots'.handle = v /\ dots'.loops = dots.loops
    BY <1>1, <2>1 DEF HomeTypeOK
  <2>4. HomeShown'
    BY <1>1, <1>2, <1>3, <2>3 DEF HomeShown
  <2>5. HomeHandles'
    BY <1>1, <1>2, <2>3 DEF HomeHandles, Mounting
  <2> QED
    BY <2>2, <2>4, <2>5 DEF HomeInv
<1>5. CASE dots.canvas[v] # home.shown
  <2>1. dots' = [dots EXCEPT !.loops = dots.loops \ {v}]
    BY <1>5 DEF ParticlesFrame
  <2>2. HomeTypeOK'
    <3>1. dots.loops \ {v} \in SUBSET Visits
      BY <1>1, HomeFields
    <3> QED
      BY <1>1, <1>2, <2>1, <3>1 DEF HomeTypeOK
  <2>3. /\ dots'.filled = dots.filled /\ dots'.canvas = dots.canvas
        /\ dots'.handle = dots.handle /\ dots'.loops = dots.loops \ {v}
    BY <1>1, <2>1 DEF HomeTypeOK
  <2>4. HomeShown'
    BY <1>1, <1>2, <1>3, <1>5, <2>3 DEF HomeShown
  <2>5. HomeHandles'
    BY <1>1, <1>2, <2>3 DEF HomeHandles, Mounting
  <2> QED
    BY <2>2, <2>4, <2>5 DEF HomeInv
<1> QED
  BY <1>4, <1>5

LEMMA HomeResizeKeeps == HomeInv /\ HomeResize => HomeInv'
<1> SUFFICES ASSUME HomeInv, HomeResize PROVE HomeInv'
  OBVIOUS
<1>1. HomeTypeOK /\ HomeShown /\ HomeHandles
  BY DEF HomeInv
<1>2. dots' = [dots EXCEPT !.filled = TRUE] /\ UNCHANGED <<home, glow>>
  BY DEF HomeResize
<1>3. HomeTypeOK'
  BY <1>1, <1>2 DEF HomeTypeOK
<1>4. /\ dots'.filled /\ dots'.canvas = dots.canvas
      /\ dots'.handle = dots.handle /\ dots'.loops = dots.loops
  BY <1>1, <1>2 DEF HomeTypeOK
<1>5. HomeShown'
  BY <1>1, <1>2, <1>4 DEF HomeShown, HomeBusy, Mounting, Leaving
<1>6. HomeHandles'
  BY <1>1, <1>2, <1>4 DEF HomeHandles, Mounting
<1> QED
  BY <1>3, <1>5, <1>6 DEF HomeInv

LEMMA HomeInvStep == HomeInv /\ [HomeNext]_homeVars => HomeInv'
<1> SUFFICES ASSUME HomeInv, [HomeNext]_homeVars PROVE HomeInv'
  OBVIOUS
<1>1. CASE UNCHANGED homeVars
  BY <1>1 DEF homeVars, HomeInv, HomeTypeOK, HomeShown, HomeHandles, HomeBusy, Mounting, Leaving
<1> QED
  BY <1>1, HomeOpenKeeps, HomeLeaveKeeps, HomeResizeKeeps, InitGlowKeeps, DisposeGlowKeeps,
     GlowFrameKeeps, InitParticlesKeeps, DisposeParticlesKeeps, ParticlesFrameKeeps,
     InitProductRevealKeeps DEF HomeNext

----------------------------------------------------------------------------
(* The effects of scrolling. *)

\* Only a page that was opened has first renders to come; the text can be typed only
\* while the component is there whose end kills the triggers; and the last node and its
\* line, once lit, are never put out.
ScrollOrder ==
    /\ scroll.todo # {} => scroll.pages \in PageVisits
    /\ \A t \in scroll.triggers : t[1] <= scroll.pages
    /\ Trigger("typing") \in scroll.triggers => "story" \in scroll.kept
    /\ story.typed > 0 =>
         story.done \/ ("story" \notin scroll.todo /\ Trigger("typing") \notin scroll.triggers)
    /\ story.at <= story.far
    /\ "MIS" \in story.lit <=> story.far >= 4
    /\ "line2" \in story.lit <=> story.far >= 4
    /\ story.at = 1 => story.lit = LitBy(story.far)

ScrollInv == ScrollSafe /\ ScrollOrder

LEMMA StoryCallsKnown ==
    /\ Len(StoryCalls) = 5
    /\ StoryCalls[1].on = {"HIS"} /\ StoryCalls[1].off = {}
    /\ StoryCalls[2].on = {"HIS", "RIS", "line1"} /\ StoryCalls[2].off = {}
    /\ StoryCalls[3].on = {} /\ StoryCalls[3].off = {"HIS"}
    /\ StoryCalls[4].on = {"RIS", "MIS", "line2"} /\ StoryCalls[4].off = {}
    /\ StoryCalls[5].on = {} /\ StoryCalls[5].off = {"HIS", "RIS", "line1"}
BY DEF StoryCalls

\* What the first calls light.
LEMMA LitByKnown ==
    /\ LitBy(0) = {} /\ LitBy(1) = {"HIS"}
    /\ LitBy(2) = {"HIS", "RIS", "line1"} /\ LitBy(3) = {"HIS", "RIS", "line1"}
    /\ LitBy(4) = Nodes /\ LitBy(5) = Nodes
<1>1. 1..0 = {} /\ 1..1 = {1} /\ 1..2 = {1, 2} /\ 1..3 = {1, 2, 3}
      /\ 1..4 = {1, 2, 3, 4} /\ 1..5 = {1, 2, 3, 4, 5}
  OBVIOUS
<1>2. LitBy(0) = {} /\ LitBy(1) = {"HIS"}
  BY <1>1, StoryCallsKnown DEF LitBy
<1>3. LitBy(2) = {"HIS", "RIS", "line1"} /\ LitBy(3) = {"HIS", "RIS", "line1"}
  BY <1>1, StoryCallsKnown DEF LitBy
<1>4. LitBy(4) = Nodes /\ LitBy(5) = Nodes
  BY <1>1, StoryCallsKnown DEF LitBy, Nodes
<1> QED
  BY <1>2, <1>3, <1>4

LEMMA ScrollFields ==
    ASSUME ScrollTypeOK
    PROVE  /\ scroll.pages \in 0..MaxPages /\ scroll.todo \in SUBSET (Parts \cup {"reveal", "counter"})
           /\ scroll.parts \in SUBSET Parts /\ scroll.kept \in SUBSET Parts
           /\ scroll.triggers \in SUBSET (PageVisits \X Effects)
           /\ scroll.killed \in BOOLEAN
           /\ story.at \in 0..5 /\ story.far \in 0..5 /\ story.lit \in SUBSET Nodes /\ story.typed \in Nat
           /\ story.done \in BOOLEAN
BY PagesAssumption, StoryCallsKnown DEF ScrollTypeOK

LEMMA ScrollInvInit == ScrollInit => ScrollInv
<1> SUFFICES ASSUME ScrollInit PROVE ScrollInv
  OBVIOUS
<1> USE PagesAssumption, StoryCallsKnown, LitByKnown DEF ScrollInit
<1>1. ScrollTypeOK
  BY DEF ScrollTypeOK
<1>2. HiddenCanBeRevealed /\ TypedOnce /\ StoryAddsUp
  BY DEF HiddenCanBeRevealed, TypedOnce, StoryAddsUp
<1>3. ScrollOrder
  BY DEF ScrollOrder
<1> QED
  BY <1>1, <1>2, <1>3 DEF ScrollInv, ScrollSafe

\* What the end of components does to the triggers and to the timelines kept.
LEMMA PartsDisposed ==
    ASSUME ScrollTypeOK, NEW parts \in SUBSET Parts
    PROVE  \E triggers \in SUBSET scroll.triggers, kept \in SUBSET scroll.kept :
             /\ DisposeParts(scroll, parts) =
                  [scroll EXCEPT !.triggers = triggers, !.kept = kept]
             /\ kept = scroll.kept \ parts
             /\ parts \cap scroll.kept = {} => triggers = scroll.triggers
             /\ parts \cap scroll.kept # {} => triggers = {}
<1>1. CASE parts \cap scroll.kept = {}
  <2>1. DisposeParts(scroll, parts) =
          [scroll EXCEPT !.triggers = scroll.triggers, !.kept = scroll.kept]
    BY <1>1 DEF DisposeParts, ScrollTypeOK
  <2>2. scroll.kept = scroll.kept \ parts
    BY <1>1, ScrollFields
  <2> QED
    BY <1>1, <2>1, <2>2
<1>2. CASE parts \cap scroll.kept # {}
  BY <1>2 DEF DisposeParts
<1> QED
  BY <1>1, <1>2

LEMMA OpenPageKeeps == ScrollInv /\ OpenPage => ScrollInv'
<1> SUFFICES ASSUME ScrollInv, OpenPage PROVE ScrollInv'
  OBVIOUS
<1> USE PagesAssumption, StoryCallsKnown, LitByKnown
<1>1. ScrollTypeOK /\ ScrollOrder
  BY DEF ScrollInv, ScrollSafe
<1>2. PICK parts \in SUBSET Parts :
         scroll' = [DisposeParts(scroll, scroll.parts) EXCEPT
                      !.pages = scroll.pages + 1, !.parts = parts,
                      !.todo = parts \cup {"reveal", "counter"},
                      !.element = "plain", !.counter = "zero", !.killed = FALSE]
  <2>1. PICK parts \in SUBSET Parts :
         scroll' = [DisposeParts(scroll, scroll.parts) EXCEPT
                      !.pages = @ + 1, !.parts = parts,
                      !.todo = parts \cup {"reveal", "counter"},
                      !.element = "plain", !.counter = "zero", !.killed = FALSE]
    BY DEF OpenPage
  <2>2. DisposeParts(scroll, scroll.parts).pages = scroll.pages
    BY <1>1 DEF DisposeParts, ScrollTypeOK
  <2> QED
    BY <2>1, <2>2
<1>3. PICK triggers \in SUBSET scroll.triggers, kept \in SUBSET scroll.kept :
         DisposeParts(scroll, scroll.parts) =
           [scroll EXCEPT !.triggers = triggers, !.kept = kept]
  <2>1. scroll.parts \in SUBSET Parts
    BY <1>1, ScrollFields
  <2>2. PICK triggers \in SUBSET scroll.triggers, kept \in SUBSET scroll.kept :
          /\ DisposeParts(scroll, scroll.parts) =
               [scroll EXCEPT !.triggers = triggers, !.kept = kept]
          /\ kept = scroll.kept \ scroll.parts
          /\ scroll.parts \cap scroll.kept = {} => triggers = scroll.triggers
          /\ scroll.parts \cap scroll.kept # {} => triggers = {}
    BY <1>1, <2>1, PartsDisposed, Zenon
  <2> QED
    BY <2>2, Zenon
<1>4. /\ scroll' = [pages |-> scroll.pages + 1, todo |-> parts \cup {"reveal", "counter"},
                    parts |-> parts, element |-> "plain", counter |-> "zero",
                    triggers |-> triggers, kept |-> kept, killed |-> FALSE]
  BY <1>1, <1>2, <1>3 DEF ScrollTypeOK
<1>5. /\ story' = [at |-> 0, far |-> 0, lit |-> {}, typed |-> 0,
                   done |-> story.done /\ "story" \notin scroll.parts]
      /\ UNCHANGED gsap
      /\ scroll.pages < MaxPages
  BY DEF OpenPage
<1>6. scroll.pages + 1 \in PageVisits /\ scroll.pages + 1 \in 0..MaxPages
  BY <1>1, <1>5, ScrollFields DEF PageVisits
<1>7. ScrollTypeOK'
  <2>1. scroll' \in [pages : 0..MaxPages, todo : SUBSET (Parts \cup {"reveal", "counter"}),
                     parts : SUBSET Parts, element : {"plain", "hidden", "revealed"},
                     counter : {"zero", "target"}, triggers : SUBSET (PageVisits \X Effects),
                     kept : SUBSET Parts, killed : BOOLEAN]
    BY <1>1, <1>4, <1>6, ScrollFields
  <2>2. (story.done /\ "story" \notin scroll.parts) \in BOOLEAN
    OBVIOUS
  <2>3. story' \in [at : 0..Len(StoryCalls), far : 0..Len(StoryCalls), lit : SUBSET Nodes,
                     done : BOOLEAN, typed : Nat]
    BY <1>5, <2>2
  <2> QED
    BY <1>1, <1>5, <2>1, <2>3 DEF ScrollTypeOK
<1>8. Trigger("typing")' \notin triggers
  <2>1. Trigger("typing")' = <<scroll.pages + 1, "typing">>
    BY <1>4 DEF Trigger
  <2>2. \A t \in triggers : t[1] <= scroll.pages
    BY <1>1 DEF ScrollOrder
  <2>3. <<scroll.pages + 1, "typing">>[1] = scroll.pages + 1
    OBVIOUS
  <2> QED
    BY <1>1, <2>1, <2>2, <2>3, ScrollFields
<1>9. HiddenCanBeRevealed' /\ TypedOnce' /\ StoryAddsUp'
  BY <1>4, <1>5 DEF HiddenCanBeRevealed, TypedOnce, StoryAddsUp
<1>10. ScrollOrder'
  <2>1. \A t \in triggers : t[1] <= scroll.pages + 1
    <3>1. ASSUME NEW t \in triggers PROVE t[1] <= scroll.pages + 1
      <4>1. t[1] <= scroll.pages /\ t \in PageVisits \X Effects
        BY <1>1, ScrollFields DEF ScrollOrder
      <4>2. t[1] \in Nat
        BY <4>1 DEF PageVisits
      <4> QED
        BY <1>1, <4>1, <4>2, ScrollFields
    <3> QED
      BY <3>1
  <2> QED
    BY <1>4, <1>5, <1>6, <1>8, <2>1 DEF ScrollOrder
<1> QED
  BY <1>7, <1>9, <1>10 DEF ScrollInv, ScrollSafe

LEMMA RemovePartKeeps ==
    ASSUME ScrollInv, NEW part \in Parts, RemovePart(part)
    PROVE  ScrollInv'
<1>1. ScrollTypeOK /\ HiddenCanBeRevealed /\ TypedOnce /\ StoryAddsUp /\ ScrollOrder
  BY DEF ScrollInv, ScrollSafe
<1>2. PICK triggers \in SUBSET scroll.triggers, kept \in SUBSET scroll.kept :
         /\ DisposeParts(scroll, {part}) = [scroll EXCEPT !.triggers = triggers, !.kept = kept]
         /\ kept = scroll.kept \ {part}
         /\ part \notin scroll.kept => triggers = scroll.triggers
         /\ part \in scroll.kept => triggers = {}
  <2>1. {part} \in SUBSET Parts
    OBVIOUS
  <2>2. PICK triggers \in SUBSET scroll.triggers, kept \in SUBSET scroll.kept :
          /\ DisposeParts(scroll, {part}) =
               [scroll EXCEPT !.triggers = triggers, !.kept = kept]
          /\ kept = scroll.kept \ {part}
          /\ {part} \cap scroll.kept = {} => triggers = scroll.triggers
          /\ {part} \cap scroll.kept # {} => triggers = {}
    BY <1>1, <2>1, PartsDisposed, Zenon
  <2>3. /\ part \notin scroll.kept => triggers = scroll.triggers
        /\ part \in scroll.kept => triggers = {}
    BY <2>2
  <2> QED
    BY <2>2, <2>3, Zenon
<1>3. PICK killed \in BOOLEAN : killed <=> scroll.killed \/ part \in scroll.kept
  OBVIOUS
<1>4. scroll' = [scroll EXCEPT !.triggers = triggers, !.kept = kept,
                               !.parts = scroll.parts \ {part}, !.todo = scroll.todo \ {part},
                               !.killed = killed]
  <2>1. /\ DisposeParts(scroll, {part}).parts = scroll.parts
        /\ DisposeParts(scroll, {part}).todo = scroll.todo
        /\ DisposeParts(scroll, {part}).killed = scroll.killed
    BY <1>1, <1>2 DEF ScrollTypeOK
  <2>2. killed = (scroll.killed \/ part \in scroll.kept)
    BY <1>1, <1>3, ScrollFields
  <2>3. scroll' = [DisposeParts(scroll, {part}) EXCEPT
                     !.parts = scroll.parts \ {part}, !.todo = scroll.todo \ {part},
                     !.killed = killed]
    BY <2>1, <2>2 DEF RemovePart
  <2> QED
    BY <1>1, <1>2, <2>3 DEF ScrollTypeOK
<1>5. PICK done \in BOOLEAN : /\ story' = [story EXCEPT !.done = done]
                              /\ part # "story" => done = story.done
  <2>1. story = [story EXCEPT !.done = story.done]
    BY <1>1 DEF ScrollTypeOK
  <2> QED
    BY <1>1, <2>1, ScrollFields DEF RemovePart
<1>6. UNCHANGED gsap
  BY DEF RemovePart
<1>7. ScrollTypeOK'
  <2>1. /\ scroll.parts \ {part} \in SUBSET Parts /\ kept \in SUBSET Parts
        /\ scroll.todo \ {part} \in SUBSET (Parts \cup {"reveal", "counter"})
        /\ triggers \in SUBSET (PageVisits \X Effects)
    BY <1>1, ScrollFields
  <2> QED
    BY <1>1, <1>4, <1>5, <1>6, <2>1 DEF ScrollTypeOK
<1>8. /\ scroll'.pages = scroll.pages /\ scroll'.triggers = triggers /\ scroll'.kept = kept
      /\ scroll'.todo = scroll.todo \ {part} /\ scroll'.element = scroll.element
      /\ scroll'.killed = killed
      /\ story'.at = story.at /\ story'.far = story.far /\ story'.lit = story.lit
      /\ story'.typed = story.typed
      /\ story'.done = done
  BY <1>1, <1>4, <1>5 DEF ScrollTypeOK
<1>9. HiddenCanBeRevealed' /\ TypedOnce' /\ StoryAddsUp'
  BY <1>1, <1>2, <1>3, <1>8 DEF HiddenCanBeRevealed, TypedOnce, StoryAddsUp, Trigger
<1>10. ScrollOrder'
  <2>1. Trigger("typing")' = Trigger("typing")
    BY <1>8 DEF Trigger
  <2>2. Trigger("typing") \in triggers => "story" \in kept
    BY <1>1, <1>2 DEF ScrollOrder
  <2>3. story.typed > 0 =>
          done \/ ("story" \notin scroll.todo \ {part} /\ Trigger("typing") \notin triggers)
    <3>1. CASE part = "story"
      BY <2>2, <3>1, <1>2
    <3>2. CASE part # "story"
      BY <1>1, <1>2, <1>5, <3>2 DEF ScrollOrder
    <3> QED
      BY <3>1, <3>2
  <2>4. scroll.todo \ {part} # {} => scroll.todo # {}
    BY <1>1, ScrollFields
  <2> QED
    BY <1>1, <1>8, <2>1, <2>2, <2>3, <2>4 DEF ScrollOrder
<1> QED
  BY <1>7, <1>9, <1>10 DEF ScrollInv, ScrollSafe

\* The record keeps its type when four of its fields change within theirs.
LEMMA FourFields ==
    ASSUME NEW A, NEW B, NEW C, NEW D, NEW E, NEW F, NEW G, NEW H,
           NEW s \in [pages : A, todo : B, parts : C, element : D, counter : E,
                      triggers : F, kept : G, killed : H],
           NEW todo \in B, NEW element \in D, NEW triggers \in F, NEW kept \in G
    PROVE  [s EXCEPT !.triggers = triggers, !.kept = kept, !.element = element, !.todo = todo]
             \in [pages : A, todo : B, parts : C, element : D, counter : E,
                  triggers : F, kept : G, killed : H]
OBVIOUS

\* A first render adds triggers of the page and may keep a timeline or hide the
\* elements, with a trigger that will reveal them.
LEMMA FirstRenderKeeps ==
    ASSUME ScrollInv, NEW call \in scroll.todo, NEW effects \in SUBSET Effects,
           NEW kept \in SUBSET Parts, NEW element \in {"hidden", scroll.element},
           scroll' = [scroll EXCEPT
                        !.triggers = scroll.triggers \cup {Trigger(e) : e \in effects},
                        !.kept = scroll.kept \cup kept, !.element = element,
                        !.todo = scroll.todo \ {call}],
           element = "hidden" => "reveal" \in effects \/ scroll.element = "hidden",
           "typing" \in effects => call = "story" /\ "story" \in kept,
           UNCHANGED <<gsap, story>>
    PROVE  ScrollInv'
<1> DEFINE triggers == scroll.triggers \cup {Trigger(e) : e \in effects}
           renders == scroll.todo \ {call}
<1>1. ScrollTypeOK /\ HiddenCanBeRevealed /\ TypedOnce /\ StoryAddsUp /\ ScrollOrder
  BY DEF ScrollInv, ScrollSafe
<1>2. scroll.pages \in PageVisits
  BY <1>1 DEF ScrollOrder
<1>3. triggers \in SUBSET (PageVisits \X Effects)
  BY <1>1, <1>2, ScrollFields DEF Trigger
<1>4. /\ renders \in SUBSET (Parts \cup {"reveal", "counter"})
      /\ scroll.kept \cup kept \in SUBSET Parts
      /\ element \in {"plain", "hidden", "revealed"}
  BY <1>1, ScrollFields DEF ScrollTypeOK
<1>5. /\ Trigger("reveal") \in triggers <=> Trigger("reveal") \in scroll.triggers \/ "reveal" \in effects
      /\ Trigger("typing") \in triggers <=> Trigger("typing") \in scroll.triggers \/ "typing" \in effects
  BY DEF Trigger
<1>6. \A t \in triggers : t[1] <= scroll.pages
  <2>1. ASSUME NEW e \in effects PROVE Trigger(e)[1] <= scroll.pages
    BY <1>1, ScrollFields DEF Trigger
  <2> QED
    BY <1>1, <2>1 DEF ScrollOrder
<1>7. scroll' = [scroll EXCEPT !.triggers = triggers, !.kept = scroll.kept \cup kept,
                               !.element = element, !.todo = renders]
  OBVIOUS
<1>8. "story" \in renders => "story" \in scroll.todo /\ call # "story"
  OBVIOUS
<1> HIDE DEF triggers, renders
<1>9. ScrollTypeOK'
  <2>1. scroll' \in [pages : 0..MaxPages, todo : SUBSET (Parts \cup {"reveal", "counter"}),
                     parts : SUBSET Parts, element : {"plain", "hidden", "revealed"},
                     counter : {"zero", "target"}, triggers : SUBSET (PageVisits \X Effects),
                     kept : SUBSET Parts, killed : BOOLEAN]
    <3>1. scroll \in [pages : 0..MaxPages, todo : SUBSET (Parts \cup {"reveal", "counter"}),
                      parts : SUBSET Parts, element : {"plain", "hidden", "revealed"},
                      counter : {"zero", "target"}, triggers : SUBSET (PageVisits \X Effects),
                      kept : SUBSET Parts, killed : BOOLEAN]
      BY <1>1, Zenon DEF ScrollTypeOK
    <3>2. [scroll EXCEPT !.triggers = triggers, !.kept = scroll.kept \cup kept,
                         !.element = element, !.todo = renders]
            \in [pages : 0..MaxPages, todo : SUBSET (Parts \cup {"reveal", "counter"}),
                 parts : SUBSET Parts, element : {"plain", "hidden", "revealed"},
                 counter : {"zero", "target"}, triggers : SUBSET (PageVisits \X Effects),
                 kept : SUBSET Parts, killed : BOOLEAN]
      BY <1>3, <1>4, <3>1, FourFields, Zenon
    <3> QED
      BY <1>7, <3>2, Zenon
  <2> QED
    BY <1>1, <2>1 DEF ScrollTypeOK
<1>10. /\ scroll'.pages = scroll.pages /\ scroll'.triggers = triggers
       /\ scroll'.kept = scroll.kept \cup kept /\ scroll'.killed = scroll.killed
       /\ scroll'.element = element /\ scroll'.todo = renders
  BY <1>1, <1>7 DEF ScrollTypeOK
<1>11. Trigger("typing")' = Trigger("typing") /\ Trigger("reveal")' = Trigger("reveal")
  BY <1>10 DEF Trigger
<1>12. HiddenCanBeRevealed' /\ TypedOnce' /\ StoryAddsUp'
  BY <1>1, <1>5, <1>10, <1>11 DEF HiddenCanBeRevealed, TypedOnce, StoryAddsUp
<1>13. ScrollOrder'
  BY <1>1, <1>2, <1>5, <1>6, <1>8, <1>10, <1>11 DEF ScrollOrder
<1> QED
  BY <1>9, <1>12, <1>13 DEF ScrollInv, ScrollSafe

LEMMA StoryKeeps == ScrollInv /\ ScrollStory => ScrollInv'
<1> SUFFICES ASSUME ScrollInv, ScrollStory PROVE ScrollInv'
  OBVIOUS
<1>1. ScrollTypeOK /\ HiddenCanBeRevealed /\ TypedOnce /\ StoryAddsUp /\ ScrollOrder
  BY DEF ScrollInv, ScrollSafe
<1>2. PICK at \in 0..5 :
         /\ at \in {story.at - 1, story.at + 1}
         /\ story' = [story EXCEPT
                        !.at = at, !.far = IF at > @ THEN at ELSE @,
                        !.lit = (@ \cup StoryCalls[IF at > story.at THEN at ELSE story.at].on)
                                  \ StoryCalls[IF at > story.at THEN at ELSE story.at].off]
         /\ UNCHANGED <<gsap, scroll>>
  BY StoryCallsKnown DEF ScrollStory
<1>3. PICK n \in 1..5, lit \in SUBSET Nodes, far \in 0..5 :
         /\ n = IF at > story.at THEN at ELSE story.at
         /\ far = IF at > story.far THEN at ELSE story.far
         /\ story' = [story EXCEPT !.at = at, !.far = far, !.lit = lit]
         /\ lit = (story.lit \cup StoryCalls[n].on) \ StoryCalls[n].off
  <2>1. (IF at > story.at THEN at ELSE story.at) \in 1..5
    BY <1>1, <1>2, ScrollFields
  <2>2. ASSUME NEW n \in 1..5
        PROVE  (story.lit \cup StoryCalls[n].on) \ StoryCalls[n].off \in SUBSET Nodes
    <3>1. StoryCalls[n].on \subseteq Nodes
      BY StoryCallsKnown DEF Nodes
    <3> QED
      BY <1>1, <3>1, ScrollFields
  <2>3. (IF at > story.far THEN at ELSE story.far) \in 0..5
    BY <1>1, <1>2, ScrollFields
  <2> QED
    BY <1>1, <1>2, <2>1, <2>2, <2>3 DEF ScrollTypeOK
<1>4. ScrollTypeOK'
  <2>1. story' \in [at : 0..Len(StoryCalls), far : 0..Len(StoryCalls), lit : SUBSET Nodes,
                     done : BOOLEAN, typed : Nat]
    BY <1>1, <1>3, StoryCallsKnown DEF ScrollTypeOK
  <2> QED
    BY <1>1, <1>2, <2>1 DEF ScrollTypeOK
<1>5. /\ story'.at = at /\ story'.far = far /\ story'.lit = lit /\ story'.done = story.done
      /\ story'.typed = story.typed
  BY <1>1, <1>3 DEF ScrollTypeOK
<1>6. /\ n \in {1, 2, 3, 4, 5} /\ at <= far /\ story.far <= far
      /\ n = 4 => far >= 4
      /\ n # 4 => (far >= 4 <=> story.far >= 4)
      /\ at = 0 => n = 1 /\ story.at = 1 /\ far = story.far
      /\ at = 1 => (n = 1 /\ story.at = 0) \/ (n = 2 /\ story.at = 2 /\ far = story.far)
      /\ at = 5 => n = 5 /\ far = 5
  BY <1>1, <1>2, <1>3, ScrollFields DEF ScrollOrder
<1>7. /\ "line1" \in lit => "RIS" \in lit
      /\ "line2" \in lit => "MIS" \in lit
      /\ "MIS" \in lit <=> far >= 4
      /\ "line2" \in lit <=> far >= 4
  <2>1. CASE n \in {1, 3}
    BY <1>1, <1>3, <1>6, <2>1, StoryCallsKnown DEF StoryAddsUp, ScrollOrder
  <2>2. CASE n = 2
    BY <1>1, <1>3, <1>6, <2>2, StoryCallsKnown DEF StoryAddsUp, ScrollOrder
  <2>3. CASE n = 4
    BY <1>1, <1>3, <1>6, <2>3, StoryCallsKnown DEF StoryAddsUp, ScrollOrder
  <2>4. CASE n = 5
    BY <1>1, <1>3, <1>6, <2>4, StoryCallsKnown DEF StoryAddsUp, ScrollOrder
  <2> QED
    BY <1>6, <2>1, <2>2, <2>3, <2>4
<1>8. at = 5 => lit = {"MIS", "line2"}
  <2> SUFFICES ASSUME at = 5 PROVE lit = {"MIS", "line2"}
    OBVIOUS
  <2>1. n = 5 /\ {"MIS", "line2"} \subseteq lit
    BY <1>6, <1>7
  <2>2. "HIS" \notin lit /\ "RIS" \notin lit /\ "line1" \notin lit
    BY <1>3, <2>1, StoryCallsKnown
  <2> QED
    BY <2>1, <2>2 DEF Nodes
<1>9. at \in {0, 1} => lit = LitBy(far)
  <2>1. ASSUME at = 0 PROVE lit = LitBy(far)
    <3>1. lit = story.lit \cup {"HIS"} /\ story.lit = LitBy(far) /\ far \in 1..5
      BY <1>1, <1>3, <1>6, <2>1, StoryCallsKnown, ScrollFields DEF ScrollOrder
    <3> QED
      BY <3>1, LitByKnown DEF Nodes
  <2>2. ASSUME at = 1, n = 1 PROVE lit = LitBy(far)
    <3>1. lit = story.lit \cup {"HIS"} /\ story.lit = LitBy(story.far)
      BY <1>1, <1>3, <1>6, <2>2, StoryCallsKnown DEF StoryAddsUp
    <3>2. far = IF story.far = 0 THEN 1 ELSE story.far
      BY <1>1, <1>3, <2>2, ScrollFields
    <3> QED
      BY <1>1, <3>1, <3>2, LitByKnown, ScrollFields DEF Nodes
  <2>3. ASSUME at = 1, n = 2 PROVE lit = LitBy(far)
    <3>1. lit = story.lit \cup {"HIS", "RIS", "line1"} /\ far \in 2..5
      BY <1>1, <1>3, <1>6, <2>3, StoryCallsKnown, ScrollFields DEF ScrollOrder
    <3>2. CASE far \in {4, 5}
      BY <1>7, <3>1, <3>2, LitByKnown DEF Nodes
    <3>3. CASE far \in {2, 3}
      BY <1>7, <3>1, <3>3, LitByKnown DEF Nodes
    <3> QED
      BY <3>1, <3>2, <3>3
  <2> QED
    BY <1>6, <2>1, <2>2, <2>3
<1>10. HiddenCanBeRevealed' /\ TypedOnce' /\ StoryAddsUp'
  BY <1>1, <1>2, <1>5, <1>7, <1>8, <1>9, StoryCallsKnown
  DEF HiddenCanBeRevealed, TypedOnce, StoryAddsUp, Trigger
<1>11. ScrollOrder'
  BY <1>1, <1>2, <1>5, <1>6, <1>7, <1>9 DEF ScrollOrder, Trigger
<1> QED
  BY <1>4, <1>10, <1>11 DEF ScrollInv, ScrollSafe

LEMMA ScrollInvStep == ScrollInv /\ [ScrollNext]_scrollVars => ScrollInv'
<1> SUFFICES ASSUME ScrollInv, [ScrollNext]_scrollVars PROVE ScrollInv'
  OBVIOUS
<1>1. ScrollTypeOK /\ HiddenCanBeRevealed /\ TypedOnce /\ StoryAddsUp /\ ScrollOrder
  BY DEF ScrollInv, ScrollSafe
<1>2. ASSUME NEW call \in scroll.todo, Start(call, scroll) PROVE ScrollInv'
  <2>1. scroll.triggers = scroll.triggers \cup {Trigger(e) : e \in {}}
    OBVIOUS
  <2>2. scroll.kept = scroll.kept \cup {}
    OBVIOUS
  <2>3. scroll' = [scroll EXCEPT
                     !.triggers = scroll.triggers \cup {Trigger(e) : e \in {}},
                     !.kept = scroll.kept \cup {}, !.element = scroll.element,
                     !.todo = scroll.todo \ {call}]
    BY <1>1, <1>2, <2>1, <2>2 DEF Start, ScrollTypeOK
  <2>4. UNCHANGED <<gsap, story>>
    BY <1>2 DEF Start
  <2>5. {} \in SUBSET Effects /\ {} \in SUBSET Parts
    OBVIOUS
  <2> QED
    BY <2>3, <2>4, <2>5, FirstRenderKeeps
<1>3. ASSUME NEW call \in scroll.todo, NEW effects \in SUBSET Effects, NEW kept \in SUBSET Parts,
             Start(call, [WithTriggers(effects) EXCEPT !.kept = @ \cup kept]),
             "typing" \in effects => call = "story" /\ "story" \in kept
      PROVE  ScrollInv'
  <2>1. scroll' = [scroll EXCEPT
                     !.triggers = scroll.triggers \cup {Trigger(e) : e \in effects},
                     !.kept = scroll.kept \cup kept, !.element = scroll.element,
                     !.todo = scroll.todo \ {call}]
    BY <1>1, <1>3 DEF Start, WithTriggers, ScrollTypeOK
  <2>2. UNCHANGED <<gsap, story>>
    BY <1>3 DEF Start
  <2> QED
    BY <1>3, <2>1, <2>2, FirstRenderKeeps
<1>4. CASE InitScrollAnimations
  <2>1. "reveal" \in scroll.todo
    BY <1>4 DEF InitScrollAnimations, Start
  <2>2. CASE ~gsap
    BY <1>2, <1>4, <2>1, <2>2 DEF InitScrollAnimations
  <2>3. CASE gsap
    <3>1. scroll.kept = scroll.kept \cup {}
      OBVIOUS
    <3>2. scroll' = [scroll EXCEPT
                       !.triggers = scroll.triggers \cup {Trigger(e) : e \in {"reveal"}},
                       !.kept = scroll.kept \cup {}, !.element = "hidden",
                       !.todo = scroll.todo \ {"reveal"}]
      BY <1>1, <1>4, <2>3, <3>1 DEF InitScrollAnimations, Start, WithTriggers, ScrollTypeOK
    <3>3. UNCHANGED <<gsap, story>>
      BY <1>4 DEF InitScrollAnimations, Start
    <3>4. {"reveal"} \in SUBSET Effects /\ {} \in SUBSET Parts
      BY DEF Effects
    <3> QED
      BY <2>1, <3>2, <3>3, <3>4, FirstRenderKeeps
  <2> QED
    BY <2>2, <2>3
<1>5. CASE InitCounters
  <2>1. "counter" \in scroll.todo
    BY <1>5 DEF InitCounters, Start
  <2>2. CASE ~gsap
    BY <1>2, <1>5, <2>1, <2>2 DEF InitCounters
  <2>3. CASE gsap
    <3>1. WithTriggers({"counter"}) = [WithTriggers({"counter"}) EXCEPT !.kept = @ \cup {}]
      BY <1>1 DEF WithTriggers, ScrollTypeOK
    <3>2. Start("counter", [WithTriggers({"counter"}) EXCEPT !.kept = @ \cup {}])
      BY <1>5, <2>3, <3>1 DEF InitCounters
    <3>3. {"counter"} \in SUBSET Effects /\ {} \in SUBSET Parts
      BY DEF Effects
    <3> QED
      BY <1>3, <2>1, <3>2, <3>3
  <2> QED
    BY <2>2, <2>3
<1>6. CASE InitParallaxScroll
  <2>1. "parallax" \in scroll.todo
    BY <1>6 DEF InitParallaxScroll, Start
  <2>2. CASE Start("parallax", scroll)
    BY <1>2, <2>1, <2>2
  <2>3. CASE Start("parallax", [WithTriggers({"parallax"}) EXCEPT !.kept = @ \cup {"parallax"}])
    <3>1. {"parallax"} \in SUBSET Effects /\ {"parallax"} \in SUBSET Parts
      BY DEF Effects, Parts
    <3> QED
      BY <1>3, <2>1, <2>3, <3>1
  <2> QED
    BY <1>6, <2>2, <2>3 DEF InitParallaxScroll
<1>7. CASE InitArchitectureScroll
  <2>1. "story" \in scroll.todo
    BY <1>7 DEF InitArchitectureScroll, Start
  <2>2. CASE ~gsap
    BY <1>2, <1>7, <2>1, <2>2 DEF InitArchitectureScroll
  <2>3. CASE gsap
    <3>1. Start("story", [WithTriggers({"story", "typing"}) EXCEPT !.kept = @ \cup {"story"}])
      BY <1>7, <2>3 DEF InitArchitectureScroll
    <3>2. {"story", "typing"} \in SUBSET Effects /\ {"story"} \in SUBSET Parts
      BY DEF Effects, Parts
    <3> QED
      BY <1>3, <2>1, <3>1, <3>2
  <2> QED
    BY <2>2, <2>3
<1>8. CASE Reveal
  <2>1. scroll' = [scroll EXCEPT !.element = "revealed"] /\ UNCHANGED <<gsap, story>>
    BY <1>8 DEF Reveal
  <2>2. ScrollTypeOK'
    BY <1>1, <2>1 DEF ScrollTypeOK
  <2>3. /\ scroll'.pages = scroll.pages /\ scroll'.triggers = scroll.triggers
        /\ scroll'.kept = scroll.kept /\ scroll'.todo = scroll.todo
        /\ scroll'.element = "revealed"
    BY <1>1, <2>1 DEF ScrollTypeOK
  <2> QED
    BY <1>1, <2>1, <2>2, <2>3 DEF ScrollInv, ScrollSafe, HiddenCanBeRevealed, TypedOnce,
                                  StoryAddsUp, ScrollOrder, Trigger
<1>9. CASE Count
  <2>1. scroll' = [scroll EXCEPT !.counter = "target"] /\ UNCHANGED <<gsap, story>>
    BY <1>9 DEF Count
  <2>2. ScrollTypeOK'
    BY <1>1, <2>1 DEF ScrollTypeOK
  <2>3. /\ scroll'.pages = scroll.pages /\ scroll'.triggers = scroll.triggers
        /\ scroll'.kept = scroll.kept /\ scroll'.todo = scroll.todo
        /\ scroll'.element = scroll.element /\ scroll'.killed = scroll.killed
    BY <1>1, <2>1 DEF ScrollTypeOK
  <2> QED
    BY <1>1, <2>1, <2>2, <2>3 DEF ScrollInv, ScrollSafe, HiddenCanBeRevealed, TypedOnce,
                                  StoryAddsUp, ScrollOrder, Trigger
<1>10. CASE TypeText
  <2>1. /\ Trigger("typing") \in scroll.triggers /\ ~story.done
        /\ story' = [story EXCEPT !.done = TRUE, !.typed = story.typed + 1]
        /\ UNCHANGED <<gsap, scroll>>
    BY <1>10 DEF TypeText
  <2>2. story.typed = 0
    BY <1>1, <2>1, ScrollFields DEF ScrollOrder
  <2>3. ScrollTypeOK'
    <3>1. story' = [story EXCEPT !.done = TRUE, !.typed = 1] /\ 1 \in Nat
      BY <2>1, <2>2
    <3>2. story' \in [at : 0..Len(StoryCalls), far : 0..Len(StoryCalls), lit : SUBSET Nodes,
                     done : BOOLEAN, typed : Nat]
      BY <1>1, <3>1 DEF ScrollTypeOK
    <3> QED
      BY <1>1, <2>1, <3>2 DEF ScrollTypeOK
  <2>4. /\ story'.at = story.at /\ story'.far = story.far /\ story'.lit = story.lit
        /\ story'.done /\ story'.typed = 1
    BY <1>1, <2>1, <2>2 DEF ScrollTypeOK
  <2> QED
    BY <1>1, <2>1, <2>3, <2>4 DEF ScrollInv, ScrollSafe, HiddenCanBeRevealed, TypedOnce,
                                  StoryAddsUp, ScrollOrder, Trigger
<1>11. CASE UNCHANGED scrollVars
  BY <1>1, <1>11 DEF scrollVars, ScrollInv, ScrollSafe, ScrollTypeOK, HiddenCanBeRevealed,
                     TypedOnce, StoryAddsUp, ScrollOrder, Trigger
<1> QED
  BY <1>4, <1>5, <1>6, <1>7, <1>8, <1>9, <1>10, <1>11, OpenPageKeeps, RemovePartKeeps, StoryKeeps
  DEF ScrollNext

----------------------------------------------------------------------------
(* The effects that follow the pointer. *)

\* The light of mouseGlow is on one card at a time.
PointerOneLight ==
    pointer.effect = "mouseGlow" => \A c, d \in Cards : Shines(c) /\ Shines(d) => c = d

PointerInv == PointerSafe /\ PointerOneLight

LEMMA PlacesKnown ==
    /\ Plain \in Places /\ "none" \notin Cards
    /\ \A place \in Places : place[1] \in Cards \cup {"none"}
BY DEF Plain, Places, Spots, Cards

LEMMA PointerFields ==
    ASSUME PointerTypeOK
    PROVE  /\ pointer.effect \in Effect /\ pointer.place \in Places
           /\ pointer.shown \in [Cards -> Places] /\ pointer.eases \in [Cards -> BOOLEAN]
           /\ pointer.throttled \in BOOLEAN /\ pointer.dropped \in BOOLEAN
BY DEF PointerTypeOK

\* Cards of which no two differ are at most one.
LEMMA OneCard ==
    ASSUME NEW S, \A c, d \in S : c = d
    PROVE  Cardinality(S) <= 1
<1>1. CASE S = {}
  BY <1>1, AtMostOne
<1>2. CASE S # {}
  <2>1. PICK c \in S : TRUE
    BY <1>2
  <2>2. S \subseteq {c}
    BY <2>1
  <2> QED
    BY <2>2, AtMostOne
<1> QED
  BY <1>1, <1>2

LEMMA PointerInvInit == PointerInit => PointerInv
<1> SUFFICES ASSUME NEW effect \in Effect,
                    pointer = [effect |-> effect, place |-> Plain,
                               shown |-> [c \in Cards |-> Plain],
                               eases |-> [c \in Cards |-> FALSE],
                               throttled |-> FALSE, dropped |-> FALSE]
             PROVE  PointerInv
  BY DEF PointerInit
<1>1. PointerTypeOK
  BY PlacesKnown DEF PointerTypeOK
<1>2. \A c \in Cards : ~Shines(c) /\ ~pointer.eases[c]
  BY DEF Shines
<1>3. PointerOneLight
  BY <1>2 DEF PointerOneLight
<1>4. PointerLightEnds
  <2>1. Cardinality({d \in Cards : Shines(d)}) <= 1
    BY <1>2, OneCard
  <2> QED
    BY <1>2, <2>1 DEF PointerLightEnds
<1>5. PointerOwnLight
  BY <1>2 DEF PointerOwnLight
<1> QED
  BY <1>1, <1>3, <1>4, <1>5 DEF PointerInv, PointerSafe

\* What leaving a card and entering one do to the looks of the cards.
LEMMA PointerLeft ==
    ASSUME PointerTypeOK, NEW card \in Cards
    PROVE  \E shown \in [Cards -> Places], eases \in [Cards -> BOOLEAN] :
             /\ PointerLeaves(pointer, card) = [pointer EXCEPT !.shown = shown, !.eases = eases]
             /\ \A c \in Cards : shown[c] = IF c = card /\ pointer.effect \in {"tilt", "row"}
                                            THEN Plain ELSE pointer.shown[c]
             /\ \A c \in Cards : eases[c] <=> pointer.eases[c] \/ (c = card /\ pointer.effect = "tilt")
<1>1. CASE pointer.effect = "tilt"
  <2>1. PointerLeaves(pointer, card) = [pointer EXCEPT !.shown[card] = Plain, !.eases[card] = TRUE]
    BY <1>1, Zenon DEF PointerLeaves
  <2>2. /\ [pointer.shown EXCEPT ![card] = Plain] \in [Cards -> Places]
        /\ [pointer.eases EXCEPT ![card] = TRUE] \in [Cards -> BOOLEAN]
    BY PointerFields, PlacesKnown
  <2>3. PointerLeaves(pointer, card) =
          [pointer EXCEPT !.shown = [pointer.shown EXCEPT ![card] = Plain],
                          !.eases = [pointer.eases EXCEPT ![card] = TRUE]]
    BY <2>1
  <2> QED
    BY <1>1, <2>2, <2>3, PointerFields
<1>2. CASE pointer.effect = "row"
  <2>1. pointer.effect # "tilt"
    BY <1>2
  <2>2. PointerLeaves(pointer, card) = [pointer EXCEPT !.shown[card] = Plain]
    BY <1>2, <2>1, Zenon DEF PointerLeaves
  <2>3. [pointer.shown EXCEPT ![card] = Plain] \in [Cards -> Places]
    BY PointerFields, PlacesKnown
  <2>4. PointerLeaves(pointer, card) =
          [pointer EXCEPT !.shown = [pointer.shown EXCEPT ![card] = Plain],
                          !.eases = pointer.eases]
    BY <2>2 DEF PointerTypeOK
  <2> QED
    BY <1>2, <2>3, <2>4, PointerFields
<1>3. CASE pointer.effect \notin {"tilt", "row"}
  <2>1. pointer.effect # "tilt" /\ pointer.effect # "row"
    BY <1>3
  <2>2. PointerLeaves(pointer, card) = pointer
    BY <2>1, Zenon DEF PointerLeaves
  <2>3. pointer = [pointer EXCEPT !.shown = pointer.shown, !.eases = pointer.eases]
    BY DEF PointerTypeOK
  <2> QED
    BY <1>3, <2>2, <2>3, PointerFields
<1> QED
  BY <1>1, <1>2, <1>3

\* What a move that is handled makes the cards show.
LEMMA PointerShown ==
    ASSUME NEW p, p.effect \in Effect, p.place \in Places, p.shown \in [Cards -> Places],
           p.place[1] \in Cards \/ p.effect \in OfDocument
    PROVE  /\ PointerShows(p) \in [Cards -> Places]
           /\ p.effect \in {"tilt", "row"} =>
                \A c \in Cards : PointerShows(p)[c] # Plain => c = p.place[1] \/ p.shown[c] # Plain
           /\ p.effect = "mouseGlow" =>
                \A c \in Cards : PointerShows(p)[c] # Plain => c = p.place[1]
           /\ p.effect # "parallax" =>
                \A c \in Cards : PointerShows(p)[c] \notin {Plain, p.shown[c]}
                                   => PointerShows(p)[c][1] = c
<1>1. CASE p.effect \notin OfDocument
  <2>1. PointerShows(p) = [p.shown EXCEPT ![p.place[1]] = p.place]
    <3>1. p.effect # "mouseGlow" /\ p.effect # "parallax"
      BY <1>1 DEF OfDocument
    <3> QED
      BY <1>1, <3>1, Zenon DEF PointerShows
  <2>2. p.effect # "mouseGlow"
    BY <1>1 DEF OfDocument
  <2> QED
    BY <1>1, <2>1, <2>2
<1>2. CASE p.effect = "mouseGlow"
  <2>1. p.effect \in OfDocument /\ p.effect # "parallax"
    BY <1>2 DEF OfDocument
  <2>2. PointerShows(p) = [c \in Cards |-> IF c = p.place[1] THEN p.place ELSE Plain]
    BY <1>2, <2>1, Zenon DEF PointerShows
  <2> QED
    BY <1>2, <2>2, PlacesKnown
<1>3. CASE p.effect = "parallax"
  <2>1. p.effect \in OfDocument /\ p.effect # "mouseGlow"
    BY <1>3 DEF OfDocument
  <2>2. PointerShows(p) = [c \in Cards |-> p.place]
    BY <1>3, <2>1, Zenon DEF PointerShows
  <2> QED
    BY <1>3, <2>2
<1> QED
  BY <1>1, <1>2, <1>3 DEF OfDocument

LEMMA PointerMoveKeeps ==
    ASSUME PointerInv, NEW place \in Places, PointerMove(place)
    PROVE  PointerInv'
<1>1. PointerTypeOK /\ PointerLightEnds /\ PointerOwnLight /\ PointerOneLight
  BY DEF PointerInv, PointerSafe
<1> DEFINE old == pointer.place[1]
           new == place[1]
           left == IF old \notin {new, "none"} THEN PointerLeaves(pointer, old) ELSE pointer
           over == IF new \notin {old, "none"} THEN PointerEnters(left, new) ELSE left
           p == [over EXCEPT !.place = place]
<1>2. /\ old \in Cards \cup {"none"} /\ new \in Cards \cup {"none"} /\ "none" \notin Cards
      /\ pointer.effect \in Effect
  BY <1>1, PointerFields, PlacesKnown
<1>3. pointer' = IF new # "none" \/ p.effect \in OfDocument THEN PointerHandles(p) ELSE p
  BY DEF PointerMove
<1>4. PICK shown \in [Cards -> Places], eases \in [Cards -> BOOLEAN] :
         /\ left = [pointer EXCEPT !.shown = shown, !.eases = eases]
         /\ \A c \in Cards : shown[c] = IF c = old /\ old # new /\ pointer.effect \in {"tilt", "row"}
                                        THEN Plain ELSE pointer.shown[c]
         /\ \A c \in Cards : eases[c] <=> \/ pointer.eases[c]
                                          \/ c = old /\ old # new /\ pointer.effect = "tilt"
  <2>1. CASE old \notin {new, "none"}
    <3>1. old \in Cards
      BY <1>2, <2>1
    <3>2. PICK shown \in [Cards -> Places], eases \in [Cards -> BOOLEAN] :
            /\ PointerLeaves(pointer, old) = [pointer EXCEPT !.shown = shown, !.eases = eases]
            /\ \A c \in Cards : shown[c] = IF c = old /\ pointer.effect \in {"tilt", "row"}
                                           THEN Plain ELSE pointer.shown[c]
            /\ \A c \in Cards : eases[c] <=> pointer.eases[c] \/ (c = old /\ pointer.effect = "tilt")
      BY <1>1, <3>1, PointerLeft, Zenon
    <3>3. left = [pointer EXCEPT !.shown = shown, !.eases = eases]
      BY <2>1, <3>2
    <3>4. /\ \A c \in Cards : shown[c] = IF c = old /\ old # new /\ pointer.effect \in {"tilt", "row"}
                                         THEN Plain ELSE pointer.shown[c]
          /\ \A c \in Cards : eases[c] <=> \/ pointer.eases[c]
                                           \/ c = old /\ old # new /\ pointer.effect = "tilt"
      BY <2>1, <3>2
    <3> HIDE DEF left, old, new
    <3> QED
      BY <3>3, <3>4, Zenon
  <2>2. CASE old \in {new, "none"}
    <3>1. left = [pointer EXCEPT !.shown = pointer.shown, !.eases = pointer.eases]
      BY <1>1, <2>2 DEF PointerTypeOK
    <3>2. \A c \in Cards : ~(c = old /\ old # new)
      BY <1>2, <2>2
    <3> HIDE DEF left, old, new
    <3> QED
      BY <1>1, <3>1, <3>2, PointerFields
  <2> QED
    BY <2>1, <2>2
<1> HIDE DEF left
<1>5. PICK easing \in [Cards -> BOOLEAN] :
         /\ over = [pointer EXCEPT !.shown = shown, !.eases = easing]
         /\ \A c \in Cards : easing[c] =>
              eases[c] /\ ~(c = new /\ new # old /\ pointer.effect = "tilt")
  <2>1. left.effect = pointer.effect /\ left.eases = eases
    BY <1>1, <1>4 DEF PointerTypeOK
  <2>2. CASE new \notin {old, "none"} /\ pointer.effect = "tilt"
    <3>1. over = [left EXCEPT !.eases[new] = FALSE]
      BY <2>1, <2>2 DEF PointerEnters
    <3>2. [eases EXCEPT ![new] = FALSE] \in [Cards -> BOOLEAN]
      BY <1>4
    <3>3. over = [left EXCEPT !.eases = [eases EXCEPT ![new] = FALSE]]
      BY <2>1, <3>1
    <3>4. over = [pointer EXCEPT !.shown = shown, !.eases = [eases EXCEPT ![new] = FALSE]]
      BY <1>1, <1>4, <3>3 DEF PointerTypeOK
    <3>5. new \in Cards
      BY <1>2, <2>2
    <3> HIDE DEF over, old, new
    <3> QED
      BY <3>2, <3>4, <3>5
  <2>3. CASE ~(new \notin {old, "none"} /\ pointer.effect = "tilt")
    <3>1. over = left
      BY <2>1, <2>3 DEF PointerEnters
    <3>2. \A c \in Cards : ~(c = new /\ new # old /\ pointer.effect = "tilt")
      BY <1>2, <2>3
    <3> HIDE DEF over, old, new
    <3> QED
      BY <1>4, <3>1, <3>2
  <2> QED
    BY <2>2, <2>3
<1> HIDE DEF over
<1>6. /\ p = [effect |-> pointer.effect, place |-> place, shown |-> shown, eases |-> easing,
              throttled |-> pointer.throttled, dropped |-> pointer.dropped]
  <2>1. over = [effect |-> pointer.effect, place |-> pointer.place, shown |-> shown,
                eases |-> easing, throttled |-> pointer.throttled, dropped |-> pointer.dropped]
    BY <1>1, <1>5 DEF PointerTypeOK
  <2> QED
    BY <2>1
<1> HIDE DEF p
<1>7. /\ p.effect = pointer.effect /\ p.place = place /\ p.shown = shown
      /\ p.throttled = pointer.throttled
  BY <1>6
<1>8. PICK shows \in [Cards -> Places], throttled \in BOOLEAN, dropped \in BOOLEAN :
         /\ pointer' = [effect |-> pointer.effect, place |-> place, shown |-> shows,
                        eases |-> easing, throttled |-> throttled, dropped |-> dropped]
         /\ \/ shows = shown /\ new = "none" /\ pointer.effect \notin OfDocument
            \/ shows = shown /\ dropped
            \/ shows = PointerShows(p) /\ (new \in Cards \/ pointer.effect \in OfDocument)
  <2>1. CASE ~(new # "none" \/ pointer.effect \in OfDocument)
    BY <1>1, <1>3, <1>6, <1>7, <2>1, PointerFields
  <2>2. CASE (new # "none" \/ pointer.effect \in OfDocument) /\ pointer.throttled
    <3>1. pointer' = [p EXCEPT !.dropped = TRUE]
      BY <1>3, <1>7, <2>2 DEF PointerHandles
    <3>2. pointer' = [effect |-> pointer.effect, place |-> place, shown |-> shown,
                      eases |-> easing, throttled |-> pointer.throttled, dropped |-> TRUE]
      BY <1>6, <3>1
    <3> QED
      BY <1>1, <3>2, PointerFields
  <2>3. CASE (new # "none" \/ pointer.effect \in OfDocument) /\ ~pointer.throttled
    <3>1. pointer' = [p EXCEPT !.throttled = TRUE, !.dropped = FALSE, !.shown = PointerShows(p)]
      BY <1>3, <1>7, <2>3 DEF PointerHandles
    <3>2. pointer' = [effect |-> pointer.effect, place |-> place, shown |-> PointerShows(p),
                      eases |-> easing, throttled |-> TRUE, dropped |-> FALSE]
      BY <1>6, <3>1
    <3>3. new \in Cards \/ pointer.effect \in OfDocument
      BY <1>2, <2>3
    <3>4. PointerShows(p) \in [Cards -> Places]
      BY <1>2, <1>4, <1>7, <3>3, PointerShown
    <3> QED
      BY <3>2, <3>3, <3>4
  <2> QED
    BY <2>1, <2>2, <2>3
<1>9. shows = PointerShows(p) /\ (new \in Cards \/ pointer.effect \in OfDocument) =>
        /\ pointer.effect \in {"tilt", "row"} =>
             \A c \in Cards : shows[c] # Plain => c = new \/ shown[c] # Plain
        /\ pointer.effect = "mouseGlow" => \A c \in Cards : shows[c] # Plain => c = new
        /\ pointer.effect # "parallax" =>
             \A c \in Cards : shows[c] \notin {Plain, shown[c]} => shows[c][1] = c
  BY <1>2, <1>4, <1>7, PointerShown
<1>10. /\ pointer'.effect = pointer.effect /\ pointer'.place = place /\ pointer'.shown = shows
       /\ pointer'.eases = easing /\ pointer'.dropped = dropped
  BY <1>8
<1>11. PointerTypeOK'
  BY <1>2, <1>8 DEF PointerTypeOK
<1>12. \A c \in Cards : Shines(c)' <=> shows[c] # Plain /\ pointer.effect # "parallax"
  BY <1>10 DEF Shines
<1>13. \A c \in Cards : pointer.effect \in {"tilt", "row"} /\ shown[c] # Plain => c = new
  <2>1. ASSUME NEW c \in Cards, pointer.effect \in {"tilt", "row"}, shown[c] # Plain, c # new
        PROVE  FALSE
    <3>1. pointer.shown[c] # Plain /\ ~(c = old /\ old # new)
      BY <1>4, <2>1
    <3>2. c = old
      BY <1>1, <2>1, <3>1 DEF PointerLightEnds, Shines
    <3> QED
      BY <2>1, <3>1, <3>2
  <2> QED
    BY <2>1
<1>14. pointer.effect = "mouseGlow" =>
         /\ pointer.effect \in OfDocument
         /\ \A c \in Cards : shown[c] = pointer.shown[c]
  BY <1>4 DEF OfDocument
<1>15. PointerOneLight'
  <2> SUFFICES ASSUME pointer.effect = "mouseGlow"
               PROVE  \A c, d \in Cards : shows[c] # Plain /\ shows[d] # Plain => c = d
    BY <1>10, <1>12 DEF PointerOneLight
  <2>1. CASE shows = shown
    BY <1>1, <1>14, <2>1 DEF PointerOneLight, Shines
  <2>2. CASE shows = PointerShows(p)
    BY <1>9, <1>14, <2>2
  <2> QED
    BY <1>8, <2>1, <2>2
<1>16. PointerLightEnds'
  <2>1. ASSUME NEW c \in Cards
        PROVE  /\ shows[c] # Plain /\ pointer.effect # "parallax" /\ c # new =>
                    \/ pointer.effect \in {"cardGlow", "heroGlow"}
                    \/ pointer.effect = "mouseGlow" /\ dropped
               /\ easing[c] => c # new /\ pointer.effect = "tilt"
    <3>1. pointer.effect \in {"tilt", "row"} /\ shows[c] # Plain => c = new
      BY <1>8, <1>9, <1>13
    <3>2. pointer.effect = "mouseGlow" /\ shows[c] # Plain => c = new \/ dropped
      BY <1>8, <1>9, <1>14
    <3>3. easing[c] => c # new /\ pointer.effect = "tilt"
      <4>1. pointer.eases[c] => c # old /\ pointer.effect = "tilt"
        BY <1>1 DEF PointerLightEnds
      <4> HIDE DEF old, new
      <4> QED
        BY <1>4, <1>5, <4>1
    <3>4. pointer.effect \in {"tilt", "row", "cardGlow", "heroGlow", "mouseGlow", "parallax"}
      BY <1>2 DEF Effect
    <3> QED
      BY <3>1, <3>2, <3>3, <3>4
  <2>2. pointer'.effect = "mouseGlow" => Cardinality({d \in Cards : Shines(d)'}) <= 1
    <3> SUFFICES ASSUME pointer'.effect = "mouseGlow"
                 PROVE  Cardinality({d \in Cards : Shines(d)'}) <= 1
      OBVIOUS
    <3>1. \A c, d \in {x \in Cards : Shines(x)'} : c = d
      BY <1>15 DEF PointerOneLight
    <3> QED
      BY <3>1, OneCard
  <2> QED
    BY <1>10, <1>12, <2>1, <2>2 DEF PointerLightEnds
<1>17. PointerOwnLight'
  <2>1. ASSUME NEW c \in Cards, shows[c] # Plain, pointer.effect # "parallax"
        PROVE  shows[c][1] = c
    <3>1. shown[c] # Plain => shown[c] = pointer.shown[c]
      BY <1>4
    <3>2. shown[c] # Plain => shown[c][1] = c
      BY <1>1, <2>1, <3>1 DEF PointerOwnLight, Shines
    <3>3. shows[c] = shown[c] \/ shows[c][1] = c
      BY <1>8, <1>9, <2>1
    <3> QED
      BY <2>1, <3>2, <3>3
  <2> QED
    BY <1>10, <1>12, <2>1 DEF PointerOwnLight
<1> QED
  BY <1>11, <1>15, <1>16, <1>17 DEF PointerInv, PointerSafe

LEMMA PointerInvStep == PointerInv /\ [PointerNext]_pointer => PointerInv'
<1> SUFFICES ASSUME PointerInv, [PointerNext]_pointer PROVE PointerInv'
  OBVIOUS
<1>1. PointerTypeOK /\ PointerLightEnds /\ PointerOwnLight /\ PointerOneLight
  BY DEF PointerInv, PointerSafe
<1>2. CASE PointerTimer
  <2>1. pointer' = [pointer EXCEPT !.throttled = FALSE]
    BY <1>2 DEF PointerTimer
  <2>2. PointerTypeOK'
    BY <1>1, <2>1 DEF PointerTypeOK
  <2>3. /\ pointer'.effect = pointer.effect /\ pointer'.place = pointer.place
        /\ pointer'.shown = pointer.shown /\ pointer'.eases = pointer.eases
        /\ pointer'.dropped = pointer.dropped
    BY <1>1, <2>1 DEF PointerTypeOK
  <2>4. PointerLightEnds' /\ PointerOwnLight' /\ PointerOneLight'
    BY <1>1, <2>3 DEF PointerLightEnds, PointerOwnLight, PointerOneLight, Shines
  <2> QED
    BY <2>2, <2>4 DEF PointerInv, PointerSafe
<1>3. CASE UNCHANGED pointer
  BY <1>1, <1>3 DEF PointerInv, PointerSafe, PointerTypeOK, PointerLightEnds,
                    PointerOwnLight, PointerOneLight, Shines
<1> QED
  BY <1>2, <1>3, PointerMoveKeeps DEF PointerNext

----------------------------------------------------------------------------
(* The page.  A step of it is one of the component that has the focus, and  *)
(* leaves the others at rest.                                               *)

PageInv ==
    /\ StartInv
    /\ LangInv
    /\ LookInv
    /\ HomeInv
    /\ SliderInv
    /\ ScrollInv
    /\ SmoothInv
    /\ PointerInv
    /\ EditorInv
    /\ AlertInv
    /\ ClickSafe
    /\ ModalInv

LEMMA PageInvInit == PageInit => PageInv
BY StartInvInit, LangInvInit,
   LookInvInit, HomeInvInit,
   SliderInvInit, ScrollInvInit, SmoothInvInit,
   PointerInvInit, EditorInvInit, AlertInvInit,
   ClickInvInit, ModalInvInit
DEF PageInit, PageInv

\* Each step of the page is, for each component, a step of it or none.
LEMMA PageSteps ==
    [PageNext]_pageVars =>
      /\ [StartNext]_startScreen
      /\ [LangNext]_langVars
      /\ [LookNext]_look
      /\ [HomeNext]_homeVars
      /\ [SliderNext]_slider
      /\ [ScrollNext]_scrollVars
      /\ [SmoothNext]_smooth
      /\ [PointerNext]_pointer
      /\ [EditorNext]_editorVars
      /\ [AlertNext]_alertVars
      /\ [ClickNext]_clicks
      /\ [ModalNext]_modals
<1> SUFFICES ASSUME [PageNext]_pageVars
             PROVE  /\ [StartNext]_startScreen
                    /\ [LangNext]_langVars
                    /\ [LookNext]_look
                    /\ [HomeNext]_homeVars
                    /\ [SliderNext]_slider
                    /\ [ScrollNext]_scrollVars
                    /\ [SmoothNext]_smooth
                    /\ [PointerNext]_pointer
                    /\ [EditorNext]_editorVars
                    /\ [AlertNext]_alertVars
                    /\ [ClickNext]_clicks
                    /\ [ModalNext]_modals
  OBVIOUS
<1> USE DEF homeAndSlider, scrolling, dialogs, settings
<1>1. CASE UNCHANGED pageVars
  BY <1>1 DEF pageVars
<1>2. CASE PageNext
  BY <1>2, Zenon DEF PageNext
<1> QED
  BY <1>1, <1>2

LEMMA PageInvStep == PageInv /\ [PageNext]_pageVars => PageInv'
BY PageSteps, StartInvStep,
   LangInvStep, LookInvStep,
   HomeInvStep, SliderInvStep, ScrollInvStep, SmoothInvStep,
   PointerInvStep, EditorInvStep, AlertInvStep, ClickInvStep,
   ModalInvStep
DEF PageInv

\* The invariant of the page: those of its components, for every value of the bounds.
THEOREM PageInvariant == PageSpec => []PageInv
<1>1. PageInit => PageInv
  BY PageInvInit
<1>2. PageInv /\ [PageNext]_pageVars => PageInv'
  BY PageInvStep
<1> QED
  BY <1>1, <1>2, PTL DEF PageSpec

\* The start screen never fades over a page that cannot be scrolled, whichever of its
\* timers and callers is first (index.html:609-616, interop.js:314-323).
THEOREM StartScreenKept == PageSpec => []StartSafe
<1>1. PageInv => StartSafe
  BY DEF PageInv, StartInv
<1> QED
  BY <1>1, PageInvariant, PTL

\* Texts, storage and direction agree with the language between two loads, for any
\* number of loads and any languages (LoadLanguageAsync).
THEOREM LanguagesAlwaysAgree == PageSpec => []LangSafe
<1>1. PageInv => LangSafe
  BY DEF PageInv, LangInv
<1> QED
  BY <1>1, PageInvariant, PTL

\* The flags of the layout and of the home page agree with what the page shows,
\* whatever is toggled and in whichever tab.
THEOREM FlagsAlwaysAgree == PageSpec => []LookSafe
<1>1. PageInv => LookSafe
  BY DEF PageInv, LookInv
<1> QED
  BY <1>1, PageInvariant, PTL

\* The home page that is shown has its effects, and each once, for any number of
\* visits (Home.razor:224-244, 289-295).
THEOREM HomeEffectsKept == PageSpec => []HomeSafe
<1>1. PageInv => HomeSafe
  BY HomeInvSafe DEF PageInv
<1> QED
  BY <1>1, PageInvariant, PTL

\* A slide is shown whatever was clicked, and the only timers that work for a page that was
\* left, for any number of slides (Home.razor:208-222, 246-265, 289-292).
THEOREM SliderAlwaysShows == PageSpec => []SliderSafe
<1>1. PageInv => SliderSafe
  BY DEF PageInv, SliderInv
<1> QED
  BY <1>1, PageInvariant, PTL

\* For any number of pages what a page hides can be revealed until a component taken off
\* it kills the triggers; the text of the story is typed once; its last node alone shines
\* at the end, and back at the top all that was ever lit (gsap-animations.js:217-290).
THEOREM ScrollingHarmless == PageSpec => []ScrollSafe
<1>1. PageInv => ScrollSafe
  BY DEF PageInv, ScrollInv
<1> QED
  BY <1>1, PageInvariant, PTL

\* The wheel is taken by one instance of Lenis, which the clock drives, for any number
\* of instances (initSmoothScroll).
THEOREM WheelAlwaysOwned == PageSpec => []SmoothSafe
<1>1. PageInv => SmoothSafe
  BY DEF PageInv, SmoothInv
<1> QED
  BY <1>1, PageInvariant, PTL

\* Tilt and row lights end with the pointer, the light of mouseGlow with the next move
\* that is handled; those of cardGlow and heroGlow stay, each at a spot of its own card,
\* however fast the pointer moves (gsap-animations.js:119-141, 311-325, 392-403, 466-482,
\* interop.js:254-268).
THEOREM LightAlwaysFollows == PageSpec => []PointerSafe
<1>1. PageInv => PointerSafe
  BY DEF PageInv, PointerInv
<1> QED
  BY <1>1, PageInvariant, PTL

\* The editor of a dialog that was closed when it was known, and an upload that was
\* aborted, stay ended, for any number of dialogs (CKEditorInterop.js).
THEOREM EndedStaysEnded == PageSpec => []EditorSafe
<1>1. PageInv => EditorSafe
  BY DEF PageInv, EditorInv
<1> QED
  BY <1>1, PageInvariant, PTL

\* Alerts are in the one container of the page and leave it only when they should, for
\* any number of calls (alertManager.js).
THEOREM AlertsKeepTheirTime == PageSpec => []AlertSafe
<1>1. PageInv => AlertSafe
  BY DEF PageInv, AlertInv
<1> QED
  BY <1>1, PageInvariant, PTL

\* Handler, listener and open dropdowns agree, however dropdowns displace each other
\* (clickOutside.js).
THEOREM ClicksReachTheOpen == PageSpec => []ClickSafe
<1>1. PageInv => ClickSafe
  BY DEF PageInv
<1> QED
  BY <1>1, PageInvariant, PTL

\* A dialog that is alone is answered by its own buttons and closed by them, for any
\* number of dialogs.
THEOREM DialogsAnswerTheirOwn == PageSpec => []ModalSafe
<1>1. PageInv => ModalSafe
  BY DEF PageInv, ModalInv
<1> QED
  BY <1>1, PageInvariant, PTL
=============================================================================
