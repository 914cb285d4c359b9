---------------------------- MODULE Translations ----------------------------
(***************************************************************************)
(* TranslateService and the pages that change the language: each load sets *)
(* the current language at once, fetches the texts, and then sets texts,   *)
(* the saved language and the direction of the document.  Several loads    *)
(* may be under way.                                                       *)
(***************************************************************************)
EXTENDS Naturals

CONSTANTS
    Cultures,      \* the languages
    FirstCulture,  \* the one the service starts with
    NoTexts,       \* an empty dictionary
    MaxLoads       \* bound on the loads

ASSUME CulturesAssumption ==
    /\ FirstCulture \in Cultures
    /\ NoTexts \notin Cultures
    /\ MaxLoads \in Nat

Loads == 1..MaxLoads

\* What a load does next; the home page saves and turns once more.
LangSteps == {"none", "fetch", "save", "turn", "homeSave", "homeTurn"}

VARIABLES
    language,   \* _currentLanguage
    texts,      \* the language of _translations
    saved,      \* app_lang in localStorage
    direction,  \* the language whose direction the document has
    loads,      \* how many loads have begun
    culture,    \* the language of each
    step,       \* what it does next
    fromHome,   \* those that the home page began
    disturbed   \* history: a load began while another was under way, or the
                \* storage failed

langVars == <<language, texts, saved, direction, loads, culture, step, fromHome, disturbed>>

LangTypeOK ==
    /\ {language, direction} \subseteq Cultures
    /\ {texts, saved} \subseteq Cultures \cup {NoTexts}
    /\ loads \in 0..MaxLoads
    /\ culture \in [Loads -> Cultures]
    /\ step \in [Loads -> LangSteps]
    /\ fromHome \subseteq Loads
    /\ disturbed \in BOOLEAN

LangInit ==
    /\ language = FirstCulture
    /\ texts = NoTexts
    /\ saved \in Cultures \cup {NoTexts}
    /\ direction = FirstCulture
    /\ loads = 0
    /\ culture = [n \in Loads |-> FirstCulture]
    /\ step = [n \in Loads |-> "none"]
    /\ fromHome = {}
    /\ disturbed = FALSE

LangUnderWay == {n \in Loads : step[n] # "none"}

\* LoadLanguageAsync up to the fetch.
LangBegin(c, home) ==
    /\ loads < MaxLoads
    /\ loads' = loads + 1
    /\ language' = c
    /\ culture' = [culture EXCEPT ![loads + 1] = c]
    /\ step' = [step EXCEPT ![loads + 1] = "fetch"]
    /\ fromHome' = IF home THEN fromHome \cup {loads + 1} ELSE fromHome
    /\ disturbed' = (disturbed \/ LangUnderWay # {})
    /\ UNCHANGED <<texts, saved, direction>>

\* InitializeAsync, before the page is rendered and by the layout.
LangInitialize == LangBegin(IF saved = NoTexts THEN language ELSE saved, FALSE)

\* ToggleLang of the layout.
LangToggle == \E c \in Cultures \ {language} : LangBegin(c, FALSE)

\* ToggleLang of the home page, which saves the language and turns the document
\* itself once it is loaded.
LangToggleHome == \E c \in Cultures \ {language} : LangBegin(c, TRUE)

\* Mutant: a failed fetch leaves the texts of the last language.
LangFetchedOrNot(n) ==
    /\ step[n] = "fetch"
    /\ texts' \in {culture[n], texts}
    /\ step' = [step EXCEPT ![n] = "save"]
    /\ UNCHANGED <<language, saved, direction, loads, culture, fromHome, disturbed>>

\* The texts arrive; there are none if the fetch or the parsing fails.
LangFetched(n) ==
    /\ step[n] = "fetch"
    /\ texts' \in {culture[n], NoTexts}
    /\ step' = [step EXCEPT ![n] = "save"]
    /\ UNCHANGED <<language, saved, direction, loads, culture, fromHome, disturbed>>

LangSave(n) ==
    /\ step[n] \in {"save", "homeSave"}
    /\ saved' = culture[n]
    /\ step' = [step EXCEPT ![n] = IF @ = "save" THEN "turn" ELSE "homeTurn"]
    /\ UNCHANGED <<language, texts, direction, loads, culture, fromHome, disturbed>>

\* The storage fails: the load swallows it and does not turn the document.
LangSaveFails(n) ==
    /\ step[n] \in {"save", "homeSave"}
    /\ step' = [step EXCEPT ![n] = IF @ = "save" /\ n \in fromHome THEN "homeSave" ELSE "none"]
    /\ disturbed' = TRUE
    /\ UNCHANGED <<language, texts, saved, direction, loads, culture, fromHome>>

\* Mutant: the home page goes on after its own turn as well.
LangTurnAgain(n) ==
    /\ step[n] \in {"turn", "homeTurn"}
    /\ direction' = culture[n]
    /\ step' = [step EXCEPT ![n] = IF n \in fromHome THEN "homeSave" ELSE "none"]
    /\ UNCHANGED <<language, texts, saved, loads, culture, fromHome, disturbed>>

LangTurn(n) ==
    /\ step[n] \in {"turn", "homeTurn"}
    /\ direction' = culture[n]
    /\ step' = [step EXCEPT ![n] = IF @ = "turn" /\ n \in fromHome THEN "homeSave" ELSE "none"]
    /\ UNCHANGED <<language, texts, saved, loads, culture, fromHome, disturbed>>

LangNext ==
    \/ LangInitialize
    \/ LangToggle
    \/ LangToggleHome
    \/ \E n \in Loads : \/ LangFetched(n)
                        \/ LangSave(n)
                        \/ LangSaveFails(n)
                        \/ LangTurn(n)

\* A fetch returns or fails, and the steps that follow are made.
LangFair ==
    \A n \in Loads : /\ WF_langVars(LangFetched(n))
                    /\ WF_langVars(LangSave(n))
                    /\ WF_langVars(LangTurn(n))

LangSpec == LangInit /\ [][LangNext]_langVars /\ LangFair

\* Between two loads the page has the texts of the current language, or none, its
\* direction, and the next visit will have it too, unless loads overlapped: then
\* the slower one decides, for the texts, the direction and the storage each.
LangSettled ==
    LangUnderWay = {} /\ loads > 0 /\ ~disturbed =>
        /\ texts \in {language, NoTexts}
        /\ saved = language
        /\ direction = language

\* A load ends, so the state between two loads is reached.
LangLoadsEnd == \A n \in Loads : step[n] = "fetch" ~> step[n] = "none"

\* Texts, storage and direction agree with the language between two loads
\* (LoadLanguageAsync).
LangSafe ==
    /\ LangTypeOK
    /\ LangSettled
=============================================================================
