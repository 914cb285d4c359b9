CONSTANTS
    fa = fa
    en = en
    nil = nil
    Cultures <- MCCultures
    FirstCulture = fa
    NoTexts = nil
    MaxLoads = 2
    MaxVisits = 2
    MaxSlides = 3
    MaxPages = 2
    MaxLenis = 3
    MaxEditors = 2
    MaxCalls = 2
    MaxDialogs = 2
SPECIFICATION PageSpec
CHECK_DEADLOCK FALSE
INVARIANTS
    StartSafe
    LangSafe
    LookSafe
    HomeSafe
    SliderSafe
    ScrollSafe
    SmoothSafe
    PointerSafe
    EditorSafe
    AlertSafe
    ClickSafe
    ModalSafe
PROPERTIES
    EffectsEnd
    RequestsEnd
