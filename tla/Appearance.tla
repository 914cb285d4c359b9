----------------------------- MODULE Appearance -----------------------------
(***************************************************************************)
(* What the layout keeps of the page in flags of its own: the theme, and   *)
(* whether the sidebar of the administration is open.  Layout and home     *)
(* page each have a button for the theme with an icon of their own; the    *)
(* storage is shared with the other tabs.  The sidebar is an element that  *)
(* is there only on pages of the administration; its class is set by       *)
(* toggleAdminSidebar, the flag by the layout.                             *)
(***************************************************************************)
Themes == {"dark", "light"}

VARIABLE look  \* theme shown and stored, the icons of layout and home page, the
               \* kind of page, the sidebar's flag and class; history: another
               \* tab changed the storage, the icons whose theme was changed by
               \* someone else, the sidebar was left open and built anew

LookTypeOK ==
    look \in [shown : Themes, stored : Themes, layoutIcon : Themes, homeIcon : Themes,
              page : {"home", "landing", "admin"}, open : BOOLEAN, class : BOOLEAN,
              otherTab : BOOLEAN, stale : SUBSET {"layout", "home"}, rebuilt : BOOLEAN]

Opposite(theme) == CHOOSE t \in Themes : t # theme

\* The script of index.html and the layout's OnInitializedAsync.
LookInit ==
    \E theme \in Themes :
        look = [shown |-> theme, stored |-> theme, layoutIcon |-> theme, homeIcon |-> "dark",
                page |-> "landing", open |-> FALSE, class |-> FALSE,
                otherTab |-> FALSE, stale |-> {}, rebuilt |-> FALSE]

\* setTheme, called by those who then know the theme; the others' icons get stale.
SetTheme(s, theme, who) ==
    [s EXCEPT !.shown = theme, !.stored = theme, !.otherTab = FALSE,
              !.stale = (IF theme = s.shown THEN @ ELSE {"layout", "home"}) \ {who}]

\* Mutant: from what is stored, and stores nothing.
ToggleThemeOf(s, who) == [s EXCEPT !.shown = Opposite(s.stored), !.stale = @ \ {who}]

\* toggleTheme starts from what is shown, not from what is stored.
ToggleTheme(s, who) == SetTheme(s, Opposite(s.shown), who)

\* Another page; the home page takes the stored theme when it is rendered.
LookOpen(page) ==
    LET left == [look EXCEPT !.page = page, !.class = FALSE,
                             !.rebuilt = @ \/ (look.page = "admin" /\ look.open)]
    IN  /\ page # look.page
        /\ look' = IF page # "home" THEN left
                   ELSE [SetTheme(left, look.stored, "home") EXCEPT !.homeIcon = look.stored]

LookToggle(who) ==
    LET s == ToggleTheme(look, who)
    IN  /\ who = "home" => look.page = "home"
        /\ look' = IF who = "home" THEN [s EXCEPT !.homeIcon = s.shown]
                   ELSE [s EXCEPT !.layoutIcon = s.shown]

\* The storage is changed in another tab.
LookOtherTab ==
    /\ look' = [look EXCEPT !.stored = Opposite(@), !.otherTab = TRUE]

\* Mutant: the class is toggled on its own.
LookSidebarClass ==
    /\ look.page = "admin"
    /\ look' = [look EXCEPT !.open = ~@, !.class = look.open, !.rebuilt = FALSE]

\* ToggleSidebar of the layout: the flag, then toggleAdminSidebar.
LookSidebar ==
    /\ look.page = "admin"
    /\ look' = [look EXCEPT !.open = ~@, !.class = ~look.open, !.rebuilt = FALSE]

LookNext ==
    \/ \E page \in {"home", "landing", "admin"} : LookOpen(page)
    \/ \E who \in {"layout", "home"} : LookToggle(who)
    \/ LookOtherTab
    \/ LookSidebar

\* The next visit shows the theme of this one, and an icon shows the theme, unless
\* another tab, or the other button, changed it since.
LookAgrees ==
    /\ ~look.otherTab => look.stored = look.shown
    /\ "layout" \notin look.stale => look.layoutIcon = look.shown
    /\ look.page = "home" /\ "home" \notin look.stale => look.homeIcon = look.shown

\* The layout knows whether the sidebar is open, unless it was built anew since it
\* was left open: then the next click seems to do nothing (MainLayout.razor:156).
LookSidebarKnown ==
    look.page = "admin" /\ ~look.rebuilt => (look.open <=> look.class)

\* The flags of the layout and of the home page agree with what the page shows.
LookSafe ==
    /\ LookTypeOK
    /\ LookAgrees
    /\ LookSidebarKnown
=============================================================================
