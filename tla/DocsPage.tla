------------------------------ MODULE DocsPage ------------------------------
(***************************************************************************)
(* The scripts of the documentation site (docs/dokka/scripts): a window    *)
(* that shows its pages, with their tabs, anchors, colours and side menu,  *)
(* and the localStorage it shares with the reader's other windows.  The    *)
(* scripts of a page arrive asynchronously; a handler runs without         *)
(* interruption, and what the browser does between two handlers is an      *)
(* action of its own.                                                      *)
(***************************************************************************)
EXTENDS Integers, Sequences, FiniteSetsExt

CONSTANTS
  Pages,
  Tabs,       \* Tabs[p]: the data-togglable keys of the tabs of page p
  FirstTab,   \* the tab that the HTML of a page marks data-active
  Anchors,    \* Anchors[p]: its <a data-name> elements, in order: [name, tab]
  Platform,   \* the data-togglable of platform content, ":dokkaHtml/main"
  Menu,       \* the parts of navigation.html, in order: [path, id]
  PageIds,    \* PageIds[p]: the pageIds of the content of page p
  Owner,      \* Owner[p]: the paths of the parts that the breadcrumbs of page p lead through
  Unlisted,   \* pages of declarations, or of their members, that navigation.html leaves out
  Slash,      \* the character at which a page id is shortened
  NONE,
  MaxPending  \* how many timers and events wait at once (a bound)

Keys == UNION {Tabs[p] : p \in Pages}

NamesOn(p) == {Anchors[p][i].name : i \in DOMAIN Anchors[p]}

Names == UNION {NamesOn(p) : p \in Pages}

Paths == {Menu[i].path : i \in DOMAIN Menu}

\* querySelector: the first of the elements with the name.
Element(p, name) ==
  LET a == Anchors[p]
  IN  a[CHOOSE i \in DOMAIN a :
          /\ a[i].name = name
          /\ \A j \in DOMAIN a : a[j].name = name => i <= j]

\* The first element of a name is in a row of a tab, or in no tab; the platform
\* content of the row may repeat the name.  Each is followed by the content that
\* handleAnchor() highlights, so that its test of nextElementSibling holds.
ASSUME SiteAssumption ==
  /\ \A p \in Pages :
       /\ FirstTab[p] \in Tabs[p] \cup {NONE}
       /\ FirstTab[p] = NONE => Tabs[p] = {}
       /\ Anchors[p] \in Seq([name : Names, tab : Keys \cup {Platform, NONE}])
       /\ \A name \in NamesOn(p) : Element(p, name).tab \in Tabs[p] \cup {NONE}
  /\ {NONE, Platform} \cap (Keys \cup Names \cup Pages) = {}
  /\ MaxPending \in Nat

\* Menu and page ids are finite; what they contain is left open.
ASSUME MenuAssumption ==
  /\ Menu \in Seq([path : Seq(Nat), id : Seq(STRING)])
  /\ PageIds \in [Pages -> Seq(STRING)]
  /\ Owner \in [Pages -> SUBSET Paths] /\ Unlisted \subseteq Pages

VARIABLES
  stored,     \* localStorage "active-tab"
  dark,       \* localStorage "dokka-dark-mode"
  win,        \* what the window shows and has waiting
  fresh       \* history: the items it has read or written since another window wrote them

vars == <<stored, dark, win, fresh>>

Window ==
  [stage    : {"closed", "parsing", "scripts", "ready"},
   page     : Pages \cup {NONE},
   hash     : Names \cup {NONE},     \* window.location.hash
   events   : 0..MaxPending,         \* hashchange events to come
   button   : SUBSET Keys,           \* the data-active tabs
   body     : SUBSET Keys,           \* the data-active tab bodies
   lit      : Names \cup {NONE},     \* highlightedAnchor
   pos      : Names \cup {NONE},     \* the anchor #main was last scrolled to
   timers   : Seq(Names),            \* the anchors that waitAndScroll() waits for
   raced    : BOOLEAN,               \* history: scrolled while a timer was pending
   theme    : BOOLEAN,               \* "theme-dark" on <html>
   menu     : BOOLEAN,               \* the side menu is filled
   unfolded : SUBSET Paths]          \* its parts without the class "hidden"

Closed ==
  [stage |-> "closed", page |-> NONE, hash |-> NONE, events |-> 0, button |-> {}, body |-> {},
   lit |-> NONE, pos |-> NONE, timers |-> <<>>, raced |-> FALSE, theme |-> FALSE,
   menu |-> FALSE, unfolded |-> {}]

Init ==
  /\ stored = NONE /\ dark = FALSE
  /\ win = Closed
  /\ fresh = {}

-----------------------------------------------------------------------------
(* What the functions of platform-content-handler.js do to a window s.     *)

Found(s) == s.hash \in NamesOn(s.page)

\* The tab that handleAnchor() opens, if any.
LinkedTab(s) == IF Found(s) THEN Element(s.page, s.hash).tab ELSE NONE

\* toggleSections(): the tab with the key and its body, and no other.
Toggled(s, key) ==
  IF key = NONE THEN s
  ELSE [s EXCEPT !.button = Tabs[s.page] \cap {key}, !.body = Tabs[s.page] \cap {key}]

\* topNavbarOffset is set at the end of the load handler.
Scrolled(s, name) ==
  IF s.stage = "ready"
    THEN [s EXCEPT !.pos = name, !.raced = @ \/ s.timers # <<>>]
    ELSE [s EXCEPT !.timers = Append(@, name)]

\* Mutant of Highlighted: the old highlight is removed only for a new one.
HighlightedStill(s) == IF Found(s) THEN [s EXCEPT !.lit = s.hash] ELSE s

Highlighted(s) == [s EXCEPT !.lit = IF Found(s) THEN s.hash ELSE NONE]

Anchored(s) ==
  LET t == Highlighted(Toggled(s, LinkedTab(s)))
  IN  IF Found(s) THEN Scrolled(t, s.hash) ELSE t

\* Mutant of WithBody: no body is shown until a tab is clicked or remembered.
WithBodyLater(s) == s

\* initTabs(): the body of the active tab, then the remembered tab if it is here.
WithBody(s) == [s EXCEPT !.body = @ \cup s.button]

CachedTab(s) == IF stored \in Tabs[s.page] THEN stored ELSE NONE

TabsReady(s) == Toggled(WithBody(s), CachedTab(s))

\* toggleSections(key) writes localStorage.
Store(key) ==
  IF key = NONE THEN UNCHANGED <<stored, fresh>>
  ELSE stored' = key /\ fresh' = fresh \cup {"tab"}

-----------------------------------------------------------------------------
(* The side menu.                                                          *)

\* What is looked for: the page id, then the id up to its last slash, and so
\* on while that has a slash.
Tries(p) ==
  LET id == PageIds[p]
  IN  {Len(id)} \cup {n \in DOMAIN id : n < Len(id) /\ id[n + 1] = Slash
                                        /\ \E m \in 1..n : id[m] = Slash}

\* Mutant of Hits: the index that indexOf() gives is taken for the answer.
HitsAnyIndex(p, n) ==
  LET id == SubSeq(PageIds[p], 1, n)
  IN  {i \in DOMAIN Menu : Len(Menu[i].id) < n \/ SubSeq(Menu[i].id, 1, n) # id}

\* The parts whose id contains the first n characters of the page id.
Hits(p, n) ==
  LET id == SubSeq(PageIds[p], 1, n)
  IN  {i \in DOMAIN Menu :
         \E k \in 0..(Len(Menu[i].id) - n) : SubSeq(Menu[i].id, k + 1, k + n) = id}

\* revealNavigationForCurrentPage() and revealParents(): the first part found
\* for the longest try, and the parts it is in, lose the class "hidden".
Revealed(p) ==
  LET found == {n \in Tries(p) : Hits(p, n) # {}}
      part  == Menu[Min(Hits(p, Max(found)))].path
  IN  {path \in Paths : /\ found # {}
                         /\ Len(path) <= Len(part) /\ SubSeq(part, 1, Len(path)) = path}

-----------------------------------------------------------------------------
\* The window goes to a page, or reloads its own.  The script in the head sets
\* the colours.
Open(p, h) ==
  /\ win' = [Closed EXCEPT !.stage = "parsing", !.page = p, !.hash = h,
                           !.button = {FirstTab[p]} \ {NONE}, !.theme = dark]
  /\ fresh' = {"theme"}
  /\ UNCHANGED <<stored, dark>>

\* The reader follows a link to an anchor, or goes back over one: the page
\* stays, and a hashchange event is queued.
Navigate(h) ==
  /\ win.stage # "closed" /\ win.hash # h
  /\ win.events + Len(win.timers) < MaxPending
  /\ win' = [win EXCEPT !.hash = h, !.events = @ + 1]
  /\ UNCHANGED <<stored, dark, fresh>>

\* platform-content-handler.js is evaluated: window.onhashchange is set.
Scripts ==
  /\ win.stage = "parsing"
  /\ win' = [win EXCEPT !.stage = "scripts"]
  /\ UNCHANGED <<stored, dark, fresh>>

\* A hashchange event comes before there is a handler for it.
EventLost ==
  /\ win.events > 0 /\ win.stage = "parsing"
  /\ win' = [win EXCEPT !.events = @ - 1]
  /\ UNCHANGED <<stored, dark, fresh>>

\* Mutant of HashEvent: the handler runs without an event.
HashEventUnguarded ==
  /\ win.stage \in {"scripts", "ready"}
  /\ win' = Anchored([win EXCEPT !.events = @ - 1])
  /\ Store(LinkedTab(win))
  /\ UNCHANGED dark

HashEvent ==
  /\ win.events > 0 /\ win.stage \in {"scripts", "ready"}
  /\ win' = Anchored([win EXCEPT !.events = @ - 1])
  /\ Store(LinkedTab(win))
  /\ UNCHANGED dark

\* Mutant of Load: handleAnchor() before initTabs().
LoadAnchorFirst ==
  /\ win.stage = "scripts"
  /\ win' = [TabsReady(Anchored(win)) EXCEPT !.stage = "ready"]
  /\ stored' = IF LinkedTab(win) = NONE THEN stored ELSE LinkedTab(win)
  /\ fresh' = fresh \cup {"tab"}
  /\ UNCHANGED dark

\* Mutant of Load: no handleAnchor(), as if hashchange events were enough.
LoadNoAnchor ==
  /\ win.stage = "scripts"
  /\ win' = [TabsReady(win) EXCEPT !.stage = "ready"]
  /\ fresh' = fresh \cup {"tab"}
  /\ UNCHANGED <<stored, dark>>

\* The handler of the load event, which the browser fires once the scripts ran.
Load ==
  /\ win.stage = "scripts"
  /\ win' = [Anchored(TabsReady(win)) EXCEPT !.stage = "ready"]
  /\ stored' = IF LinkedTab(win) = NONE THEN stored ELSE LinkedTab(win)
  /\ fresh' = fresh \cup {"tab"}
  /\ UNCHANGED dark

\* The 50 ms of a timer are over.  Before the load handler is done the timer
\* calls waitForScroll(), which does not exist, and nothing is scrolled.
Timer ==
  /\ win.timers # <<>>
  /\ win' = [win EXCEPT !.timers = Tail(@),
                        !.pos = IF win.stage = "ready" THEN Head(win.timers) ELSE @]
  /\ UNCHANGED <<stored, dark, fresh>>

\* toggleSectionsEventHandler(), which both loops over the tabs attach.
ClickTab(key) ==
  /\ win.stage = "ready" /\ key \in Tabs[win.page]
  /\ win' = Toggled(win, key)
  /\ Store(key)
  /\ UNCHANGED dark

\* Mutant of ToggleTheme: the colours are stored before they are toggled.
ToggleThemeLate ==
  /\ win.stage = "ready"
  /\ win' = [win EXCEPT !.theme = ~@]
  /\ dark' = win.theme
  /\ fresh' = fresh \cup {"theme"}
  /\ UNCHANGED stored

\* The click handler of the theme button.
ToggleTheme ==
  /\ win.stage = "ready"
  /\ win' = [win EXCEPT !.theme = ~@]
  /\ dark' = ~win.theme
  /\ fresh' = fresh \cup {"theme"}
  /\ UNCHANGED stored

\* navigation.html has been fetched.  All parts are folded, then some revealed.
FillMenu ==
  /\ win.stage # "closed" /\ ~win.menu
  /\ win' = [win EXCEPT !.menu = TRUE, !.unfolded = Revealed(win.page)]
  /\ UNCHANGED <<stored, dark, fresh>>

\* Another window shows a tab, or changes the colours.
OtherWindow ==
  /\ \/ \E key \in Keys : stored' = key /\ UNCHANGED dark /\ fresh' = fresh \ {"tab"}
     \/ \E d \in BOOLEAN : dark' = d /\ UNCHANGED stored /\ fresh' = fresh \ {"theme"}
  /\ UNCHANGED win

Next ==
  \/ \E p \in Pages : \E h \in NamesOn(p) \cup {NONE} : Open(p, h)
  \/ win.page # NONE /\ \E h \in NamesOn(win.page) \cup {NONE} : Navigate(h)
  \/ Scripts \/ EventLost \/ HashEvent \/ Load \/ Timer
  \/ \E key \in Keys : ClickTab(key)
  \/ ToggleTheme \/ FillMenu \/ OtherWindow

\* The browser loads the scripts, and runs what the window has waiting.
Fairness == WF_vars(Scripts \/ EventLost \/ HashEvent \/ Load \/ Timer)

Spec == Init /\ [][Next]_vars /\ Fairness

-----------------------------------------------------------------------------
(* Properties *)

\* The window has the fields of Window, and never more events than were queued.
TypeOK ==
  /\ stored \in Keys \cup {NONE} /\ dark \in BOOLEAN
  /\ win \in Window
  /\ fresh \in SUBSET {"tab", "theme"}

\* A page that has tabs shows the body of exactly one, the one whose button is
\* active, whatever links were followed before its load handler ran and
\* whatever tab another page left in localStorage.
OneTabShown ==
  win.stage = "ready" /\ Tabs[win.page] # {}
    => \E key \in Tabs[win.page] : win.button = {key} /\ win.body = {key}

\* The window shows the tab and the colours that localStorage holds, unless
\* another window changed them after it loaded and it has not chosen since.
RememberedIsShown ==
  /\ "tab" \in fresh /\ stored \in Tabs[win.page] => win.button = {stored}
  /\ "theme" \in fresh => win.theme = dark

\* Once nothing is waiting, the anchor in the address is the one that is
\* highlighted, and the page is scrolled to it, unless it was followed while
\* the timer of the load handler was still waiting: that one then scrolls last.
LinkIsShown ==
  win.stage = "ready" /\ win.events = 0 /\ win.timers = <<>>
    => /\ win.lit = IF Found(win) THEN win.hash ELSE NONE
       /\ Found(win) => win.pos = win.hash \/ win.raced

\* A page loads with the tab of the anchor in its address, not with the tab
\* that is remembered.
LinkBeatsMemory ==
  [][win.stage = "scripts" /\ win'.stage = "ready" /\ LinkedTab(win) # NONE
       => win'.button = {LinkedTab(win)}]_vars

\* The menu never opens at a part that the page is not in, however ids are shortened and
\* contain one another, and on a page of a declaration that the menu lists, or of its
\* members, it opens at all the parts that the page is in.  On the others, the companion
\* objects and their members, it may stay closed.
MenuShowsOwner ==
  win.menu =>
    /\ win.unfolded \subseteq Owner[win.page]
    /\ win.page \notin Unlisted => win.unfolded = Owner[win.page]

\* A link that is followed once the scripts run is highlighted and scrolled to
\* in the end, though its event or its timer may come before the load handler,
\* unless the reader goes on to another anchor or page first.
LinkIsHandled ==
  \A h \in Names :
    (win.stage \in {"scripts", "ready"} /\ win.hash = h)
      ~> \/ win.hash # h \/ win.stage = "parsing"
         \/ win.stage = "ready" /\ win.lit = h /\ (win.pos = h \/ win.raced)
=============================================================================
