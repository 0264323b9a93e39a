--------------------------- MODULE DocsPageProofs ---------------------------
(***************************************************************************)
(* Proofs about DocsPage, for every site and every number of waiting       *)
(* timers and events.                                                      *)
(***************************************************************************)
EXTENDS DocsPage, SequenceTheorems, TLAPS

\* An open window is at a page; the tab of the page that has the active button
\* is the only one whose body may be shown, and from the load handler on it is.
Shape(s) ==
  /\ s.stage # "closed" => s.page \in Pages
  /\ s.stage # "closed" /\ Tabs[s.page] # {}
       => \E key \in Tabs[s.page] :
            /\ s.button = {key}
            /\ s.body = {key} \/ (s.stage # "ready" /\ s.body = {})

IInv == TypeOK /\ Shape(win)

\* The handlers' functions keep the type and the page of a window.
LEMMA ToggledType ==
  ASSUME NEW s \in Window, s.page \in Pages, NEW key \in Keys \cup {NONE}
  PROVE  /\ Toggled(s, key) \in Window
         /\ Toggled(s, key).page = s.page /\ Toggled(s, key).stage = s.stage
         /\ Toggled(s, key).hash = s.hash /\ Toggled(s, key).theme = s.theme
         /\ key = NONE => Toggled(s, key) = s
         /\ key \in Tabs[s.page] /\ key # NONE
              => Toggled(s, key).button = {key} /\ Toggled(s, key).body = {key}
<1>1. Tabs[s.page] \cap {key} \in SUBSET Keys
  BY DEF Keys
<1> QED
  BY <1>1 DEF Toggled, Window

LEMMA LinkedTabType ==
  ASSUME NEW s \in Window, s.page \in Pages
  PROVE  LinkedTab(s) \in Tabs[s.page] \cup {NONE} /\ LinkedTab(s) \in Keys \cup {NONE}
<1>1. LinkedTab(s) \in Tabs[s.page] \cup {NONE}
  BY SiteAssumption DEF LinkedTab, Found
<1> QED
  BY <1>1 DEF Keys

\* handleAnchor() highlights and scrolls, and opens at most the linked tab.
LEMMA AnchoredType ==
  ASSUME NEW s \in Window, s.page \in Pages
  PROVE  /\ Anchored(s) \in Window
         /\ Anchored(s).page = s.page /\ Anchored(s).stage = s.stage
         /\ Anchored(s).theme = s.theme
         /\ LinkedTab(s) = NONE => Anchored(s).button = s.button /\ Anchored(s).body = s.body
         /\ LinkedTab(s) # NONE
              => Anchored(s).button = {LinkedTab(s)} /\ Anchored(s).body = {LinkedTab(s)}
<1> DEFINE t == Toggled(s, LinkedTab(s))
           u == Highlighted(t)
<1>1. LinkedTab(s) \in Tabs[s.page] \cup {NONE} /\ LinkedTab(s) \in Keys \cup {NONE}
  BY LinkedTabType
<1>2. /\ t \in Window /\ t.page = s.page /\ t.stage = s.stage /\ t.theme = s.theme /\ t.hash = s.hash
      /\ LinkedTab(s) = NONE => t = s
      /\ LinkedTab(s) # NONE => t.button = {LinkedTab(s)} /\ t.body = {LinkedTab(s)}
  BY <1>1, ToggledType
<1>3. /\ u \in Window /\ u.page = t.page /\ u.stage = t.stage /\ u.theme = t.theme
      /\ u.button = t.button /\ u.body = t.body /\ u.hash = t.hash
  <2> HIDE DEF t
  <2> QED  BY <1>2 DEF Highlighted, Window
<1>4. Found(s) => s.hash \in Names
  BY DEF Found, Names
<1>5. ASSUME Found(s)
      PROVE  LET v == Scrolled(u, s.hash)
             IN  /\ v \in Window /\ v.page = u.page /\ v.stage = u.stage /\ v.theme = u.theme
                 /\ v.button = u.button /\ v.body = u.body
  <2> HIDE DEF u
  <2>1. /\ u.timers \in Seq(Names)
        /\ Append(u.timers, s.hash) \in Seq(Names)
        /\ (u.raced \/ u.timers # <<>>) \in BOOLEAN
    BY <1>3, <1>4, <1>5 DEF Window
  <2>2. CASE u.stage = "ready"
    BY <1>3, <1>4, <1>5, <2>1, <2>2 DEF Scrolled, Window
  <2>3. CASE u.stage # "ready"
    BY <1>3, <1>4, <1>5, <2>1, <2>3 DEF Scrolled, Window
  <2> QED  BY <2>2, <2>3
<1>6. Anchored(s) = IF Found(s) THEN Scrolled(u, s.hash) ELSE u
  BY DEF Anchored
<1> HIDE DEF t, u
<1> QED
  BY <1>2, <1>3, <1>5, <1>6

LEMMA TabsReadyType ==
  ASSUME NEW s \in Window, s.page \in Pages, stored \in Keys \cup {NONE}
  PROVE  /\ TabsReady(s) \in Window
         /\ TabsReady(s).page = s.page /\ TabsReady(s).stage = s.stage
         /\ TabsReady(s).theme = s.theme /\ TabsReady(s).hash = s.hash
         /\ stored \in Tabs[s.page] => TabsReady(s).button = {stored} /\ TabsReady(s).body = {stored}
         /\ stored \notin Tabs[s.page]
              => TabsReady(s).button = s.button /\ TabsReady(s).body = s.body \cup s.button
<1> DEFINE t == WithBody(s)
<1>1. /\ t \in Window /\ t.page = s.page /\ t.stage = s.stage /\ t.theme = s.theme
      /\ t.hash = s.hash /\ t.button = s.button /\ t.body = s.body \cup s.button
  BY DEF WithBody, Window
<1>2. NONE \notin Tabs[s.page]
  BY SiteAssumption DEF Keys
<1>3. CachedTab(s) \in Keys \cup {NONE}
  BY DEF CachedTab
<1>4. TabsReady(s) = Toggled(t, CachedTab(s))
  BY DEF TabsReady
<1> HIDE DEF t
<1>5. CASE stored \in Tabs[s.page]
  <2>1. CachedTab(s) = stored /\ stored # NONE
    BY <1>2, <1>5 DEF CachedTab
  <2> QED  BY <1>1, <1>3, <1>4, <1>5, <2>1, ToggledType
<1>6. CASE stored \notin Tabs[s.page]
  <2>1. CachedTab(s) = NONE
    BY <1>6 DEF CachedTab
  <2> QED  BY <1>1, <1>3, <1>4, <1>6, <2>1, ToggledType
<1> QED  BY <1>5, <1>6

-----------------------------------------------------------------------------
LEMMA InitInv == Init => IInv /\ RememberedIsShown
<1>1. Closed \in Window
  <2>1. 0 \in 0..MaxPending
    BY SiteAssumption
  <2>2. <<>> \in Seq(Names)
    OBVIOUS
  <2> QED  BY <2>1, <2>2 DEF Closed, Window
<1>2. Closed.stage = "closed"
  BY DEF Closed
<1> QED
  BY <1>1, <1>2 DEF Init, IInv, TypeOK, Shape, RememberedIsShown

\* A window that handles an anchor keeps its shape, and shows what it stores.
LEMMA AnchoredShape ==
  ASSUME NEW s \in Window, s.page \in Pages, s.stage # "closed", Shape(s)
  PROVE  Shape(Anchored(s))
BY AnchoredType, LinkedTabType DEF Shape

LEMMA StoreType ==
  ASSUME NEW key \in Keys \cup {NONE}, Store(key), stored \in Keys \cup {NONE},
         fresh \in SUBSET {"tab", "theme"}
  PROVE  /\ stored' \in Keys \cup {NONE} /\ fresh' \in SUBSET {"tab", "theme"}
         /\ "theme" \in fresh' => "theme" \in fresh
         /\ key = NONE => UNCHANGED <<stored, fresh>>
         /\ key # NONE => stored' = key
BY DEF Store

\* Every step keeps the invariant.
LEMMA StepInv == IInv /\ RememberedIsShown /\ [Next]_vars => IInv' /\ RememberedIsShown'
<1> SUFFICES ASSUME IInv, RememberedIsShown, [Next]_vars PROVE IInv' /\ RememberedIsShown'
  OBVIOUS
<1> USE DEF IInv
<1>0. /\ stored \in Keys \cup {NONE} /\ dark \in BOOLEAN /\ win \in Window
      /\ fresh \in SUBSET {"tab", "theme"} /\ Shape(win)
      /\ win.stage # "closed" => win.page \in Pages
  BY DEF TypeOK, Shape
<1>1. ASSUME NEW p \in Pages, NEW h \in NamesOn(p) \cup {NONE}, Open(p, h)
      PROVE  IInv' /\ RememberedIsShown'
  <2>1. {FirstTab[p]} \ {NONE} \in SUBSET Keys
    <3>1. FirstTab[p] \in Tabs[p] \cup {NONE}
      BY SiteAssumption
    <3>2. \A key \in Tabs[p] : key \in Keys
      BY DEF Keys
    <3> QED  BY <3>1, <3>2
  <2>2. h \in Names \cup {NONE}
    BY DEF Names
  <2>3. /\ win' \in Window /\ win'.stage = "parsing" /\ win'.page = p /\ win'.theme = dark
        /\ win'.button = {FirstTab[p]} \ {NONE} /\ win'.body = {}
    <3>1. 0 \in 0..MaxPending
      BY SiteAssumption
    <3>2. win' = [stage |-> "parsing", page |-> p, hash |-> h, events |-> 0,
                  button |-> {FirstTab[p]} \ {NONE}, body |-> {}, lit |-> NONE, pos |-> NONE,
                  timers |-> <<>>, raced |-> FALSE, theme |-> dark, menu |-> FALSE, unfolded |-> {}]
      BY <1>1 DEF Open, Closed
    <3>3. <<>> \in Seq(Names)
      OBVIOUS
    <3> HIDE DEF IInv
    <3> QED  BY <1>0, <2>1, <2>2, <3>1, <3>2, <3>3 DEF Window
  <2>4. Tabs[p] # {} => FirstTab[p] \in Tabs[p] /\ FirstTab[p] # NONE
    BY SiteAssumption
  <2>5. Shape(win)'
    BY <2>3, <2>4 DEF Shape
  <2> QED  BY <1>0, <1>1, <2>3, <2>5 DEF Open, TypeOK, RememberedIsShown
<1>2. ASSUME NEW h \in NamesOn(win.page) \cup {NONE}, win.page # NONE, Navigate(h)
      PROVE  IInv' /\ RememberedIsShown'
  <2>1. win.page \in Pages /\ h \in Names \cup {NONE}
    BY <1>0, <1>2 DEF Navigate, Names
  <2>2. win.events + 1 \in 0..MaxPending
    BY <1>0, <1>2, SiteAssumption DEF Navigate, Window
  <2>3. /\ win' \in Window /\ win'.stage = win.stage /\ win'.page = win.page
        /\ win'.theme = win.theme /\ win'.button = win.button /\ win'.body = win.body
    BY <1>0, <1>2, <2>1, <2>2 DEF Navigate, Window
  <2> QED  BY <1>0, <1>2, <2>3 DEF Navigate, TypeOK, Shape, RememberedIsShown
<1>3. ASSUME Scripts PROVE IInv' /\ RememberedIsShown'
  <2>1. /\ win' \in Window /\ win'.stage = "scripts" /\ win'.page = win.page
        /\ win'.theme = win.theme /\ win'.button = win.button /\ win'.body = win.body
    BY <1>0, <1>3 DEF Scripts, Window
  <2> QED  BY <1>0, <1>3, <2>1 DEF Scripts, TypeOK, Shape, RememberedIsShown
<1>4. ASSUME EventLost PROVE IInv' /\ RememberedIsShown'
  <2>1. win.events - 1 \in 0..MaxPending
    BY <1>0, <1>4, SiteAssumption DEF EventLost, Window
  <2>2. /\ win' \in Window /\ win'.stage = win.stage /\ win'.page = win.page
        /\ win'.theme = win.theme /\ win'.button = win.button /\ win'.body = win.body
    BY <1>0, <1>4, <2>1 DEF EventLost, Window
  <2> QED  BY <1>0, <1>4, <2>2 DEF EventLost, TypeOK, Shape, RememberedIsShown
<1>5. ASSUME HashEvent PROVE IInv' /\ RememberedIsShown'
  <2> DEFINE s == [win EXCEPT !.events = @ - 1]
  <2>1. win.events - 1 \in 0..MaxPending
    BY <1>0, <1>5, SiteAssumption DEF HashEvent, Window
  <2>2. /\ s \in Window /\ s.stage = win.stage /\ s.page = win.page /\ s.theme = win.theme
        /\ s.button = win.button /\ s.body = win.body /\ s.hash = win.hash
    BY <1>0, <2>1 DEF Window
  <2>3. LinkedTab(s) = LinkedTab(win)
    BY <2>2 DEF LinkedTab, Found
  <2>4. s.page \in Pages /\ s.stage # "closed" /\ Shape(s)
    BY <1>0, <1>5, <2>2 DEF HashEvent, Shape
  <2>5. win' = Anchored(s) /\ Store(LinkedTab(s)) /\ dark' = dark
    BY <1>5, <2>3 DEF HashEvent
  <2> HIDE DEF s
  <2>6. LinkedTab(s) \in Tabs[s.page] \cup {NONE} /\ LinkedTab(s) \in Keys \cup {NONE}
    BY <2>2, <2>4, LinkedTabType
  <2>7. Shape(win)'
    <3>1. Shape(Anchored(s))
      BY <2>2, <2>4, AnchoredShape
    <3> QED  BY <2>5, <3>1 DEF Shape
  <2>8. /\ stored' \in Keys \cup {NONE} /\ fresh' \in SUBSET {"tab", "theme"}
        /\ "theme" \in fresh' => "theme" \in fresh
        /\ LinkedTab(s) = NONE => UNCHANGED <<stored, fresh>>
        /\ LinkedTab(s) # NONE => stored' = LinkedTab(s)
    BY <1>0, <2>5, <2>6, StoreType
  <2>9. /\ win' \in Window /\ win'.page = win.page /\ win'.theme = win.theme
        /\ LinkedTab(s) = NONE => win'.button = win.button
        /\ LinkedTab(s) # NONE => win'.button = {LinkedTab(s)}
    BY <2>2, <2>4, <2>5, AnchoredType
  <2>10. RememberedIsShown'
    BY <2>5, <2>8, <2>9 DEF RememberedIsShown
  <2> QED  BY <1>0, <2>5, <2>7, <2>8, <2>9, <2>10 DEF TypeOK
<1>6. ASSUME Load PROVE IInv' /\ RememberedIsShown'
  <2> DEFINE s == TabsReady(win)
  <2>1. win.stage = "scripts" /\ win.page \in Pages
    BY <1>0, <1>6 DEF Load
  <2>2. /\ s \in Window /\ s.page = win.page /\ s.stage = win.stage
        /\ s.theme = win.theme /\ s.hash = win.hash
        /\ stored \in Tabs[win.page] => s.button = {stored} /\ s.body = {stored}
        /\ stored \notin Tabs[win.page] => s.button = win.button /\ s.body = win.body \cup win.button
    BY <1>0, <2>1, TabsReadyType
  <2>3. LinkedTab(s) = LinkedTab(win)
    BY <2>2 DEF LinkedTab, Found
  <2>4. win' = [Anchored(s) EXCEPT !.stage = "ready"]
    BY <1>6 DEF Load
  <2>5. /\ stored' = IF LinkedTab(s) = NONE THEN stored ELSE LinkedTab(s)
        /\ fresh' = fresh \cup {"tab"} /\ dark' = dark
    BY <1>6, <2>3 DEF Load
  <2> HIDE DEF s
  <2>6. LinkedTab(s) \in Tabs[s.page] \cup {NONE} /\ LinkedTab(s) \in Keys \cup {NONE}
    BY <2>1, <2>2, LinkedTabType
  <2>7. /\ Anchored(s) \in Window
        /\ Anchored(s).page = s.page /\ Anchored(s).theme = s.theme
        /\ LinkedTab(s) = NONE => Anchored(s).button = s.button /\ Anchored(s).body = s.body
        /\ LinkedTab(s) # NONE
             => Anchored(s).button = {LinkedTab(s)} /\ Anchored(s).body = {LinkedTab(s)}
    BY <2>1, <2>2, AnchoredType
  <2>8. /\ win' \in Window /\ win'.stage = "ready" /\ win'.page = s.page /\ win'.theme = s.theme
        /\ win'.button = Anchored(s).button /\ win'.body = Anchored(s).body
    BY <2>4, <2>7 DEF Window
  <2>9. Tabs[s.page] # {} => \E key \in Tabs[s.page] : s.button = {key} /\ s.body = {key}
    BY <1>0, <2>1, <2>2 DEF Shape
  <2>10. Tabs[s.page] # {} => \E key \in Tabs[s.page] : win'.button = {key} /\ win'.body = {key}
    BY <2>6, <2>7, <2>8, <2>9
  <2>11. Shape(win)'
    BY <2>1, <2>2, <2>8, <2>10 DEF Shape
  <2>12. RememberedIsShown'
    BY <2>2, <2>5, <2>6, <2>7, <2>8 DEF RememberedIsShown
  <2> QED  BY <1>0, <2>5, <2>6, <2>8, <2>11, <2>12 DEF TypeOK
<1>7. ASSUME Timer PROVE IInv' /\ RememberedIsShown'
  <2>1. /\ win.timers \in Seq(Names) /\ win.timers # <<>>
        /\ Tail(win.timers) \in Seq(Names) /\ Head(win.timers) \in Names
    BY <1>0, <1>7 DEF Timer, Window
  <2>2. /\ win' \in Window /\ win'.stage = win.stage /\ win'.page = win.page
        /\ win'.theme = win.theme /\ win'.button = win.button /\ win'.body = win.body
    BY <1>0, <1>7, <2>1 DEF Timer, Window
  <2> QED  BY <1>0, <1>7, <2>2 DEF Timer, TypeOK, Shape, RememberedIsShown
<1>8. ASSUME NEW key \in Keys, ClickTab(key) PROVE IInv' /\ RememberedIsShown'
  <2>1. /\ win.stage = "ready" /\ win.page \in Pages /\ key \in Tabs[win.page] /\ key # NONE
        /\ win' = Toggled(win, key) /\ Store(key) /\ dark' = dark
    BY <1>0, <1>8, SiteAssumption DEF ClickTab
  <2>2. /\ win' \in Window /\ win'.page = win.page /\ win'.stage = win.stage
        /\ win'.theme = win.theme /\ win'.button = {key} /\ win'.body = {key}
    BY <1>0, <2>1, ToggledType
  <2>3. /\ stored' = key /\ fresh' \in SUBSET {"tab", "theme"}
        /\ "theme" \in fresh' => "theme" \in fresh
    BY <1>0, <2>1, StoreType
  <2>4. Shape(win)'
    BY <2>1, <2>2 DEF Shape
  <2> QED  BY <1>0, <2>1, <2>2, <2>3, <2>4 DEF TypeOK, RememberedIsShown
<1>9. ASSUME ToggleTheme PROVE IInv' /\ RememberedIsShown'
  <2>1. (~win.theme) \in BOOLEAN
    OBVIOUS
  <2>2. /\ win' \in Window /\ win'.stage = win.stage /\ win'.page = win.page
        /\ win'.theme = ~win.theme /\ win'.button = win.button /\ win'.body = win.body
    BY <1>0, <1>9, <2>1 DEF ToggleTheme, Window
  <2>3. fresh' \in SUBSET {"tab", "theme"} /\ ("tab" \in fresh' => "tab" \in fresh)
    BY <1>0, <1>9 DEF ToggleTheme
  <2>4. dark' = win'.theme /\ stored' = stored
    BY <1>9, <2>2 DEF ToggleTheme
  <2>5. RememberedIsShown'
    BY <2>2, <2>3, <2>4 DEF RememberedIsShown
  <2>6. dark' \in BOOLEAN
    BY <1>9 DEF ToggleTheme
  <2>7. Shape(win)'
    BY <1>0, <2>2 DEF Shape
  <2> QED  BY <1>0, <2>2, <2>3, <2>4, <2>5, <2>6, <2>7 DEF TypeOK
<1>10. ASSUME FillMenu PROVE IInv' /\ RememberedIsShown'
  <2>1. Revealed(win.page) \in SUBSET Paths
    BY DEF Revealed
  <2>2. /\ win' \in Window /\ win'.stage = win.stage /\ win'.page = win.page
        /\ win'.theme = win.theme /\ win'.button = win.button /\ win'.body = win.body
    BY <1>0, <1>10, <2>1 DEF FillMenu, Window
  <2> QED  BY <1>0, <1>10, <2>2 DEF FillMenu, TypeOK, Shape, RememberedIsShown
<1>11. ASSUME OtherWindow PROVE IInv' /\ RememberedIsShown'
  BY <1>0, <1>11 DEF OtherWindow, TypeOK, Shape, RememberedIsShown
<1>12. ASSUME UNCHANGED vars PROVE IInv' /\ RememberedIsShown'
  BY <1>0, <1>12 DEF vars, TypeOK, Shape, RememberedIsShown
<1> QED
  BY <1>1, <1>2, <1>3, <1>4, <1>5, <1>6, <1>7, <1>8, <1>9, <1>10, <1>11, <1>12 DEF Next

\* The window has its type in every reachable state.
THEOREM DocsTypeCorrect == Spec => []TypeOK
<1>1. IInv /\ RememberedIsShown => TypeOK
  BY DEF IInv
<1> QED
  BY <1>1, InitInv, StepInv, PTL DEF Spec

\* From the load handler on, a page with tabs shows exactly one of them, with
\* its body: for every site, every order of handlers and every stored tab.
THEOREM DocsOneTabShown == Spec => []OneTabShown
<1>1. IInv /\ RememberedIsShown => OneTabShown
  BY DEF IInv, OneTabShown, Shape
<1> QED
  BY <1>1, InitInv, StepInv, PTL DEF Spec

\* The window shows what localStorage holds, unless another one wrote it since.
THEOREM DocsRememberedIsShown == Spec => []RememberedIsShown
BY InitInv, StepInv, PTL DEF Spec

\* The step that makes a page ready is that of the load handler.
LEMMA OnlyLoadReadies ==
  ASSUME TypeOK, Next, win.stage = "scripts", win'.stage = "ready"
  PROVE  Load
<1>0. win \in Window
  BY DEF TypeOK
<1>1. ASSUME NEW p \in Pages, NEW h \in NamesOn(p) \cup {NONE}, Open(p, h) PROVE FALSE
  BY <1>1 DEF Open, Closed
<1>2. ASSUME NEW h \in NamesOn(win.page) \cup {NONE}, Navigate(h) PROVE FALSE
  BY <1>0, <1>2 DEF Navigate, Window
<1>3. ~Scripts /\ ~EventLost
  BY DEF Scripts, EventLost
<1>4. ASSUME HashEvent PROVE FALSE
  <2>1. win' = Anchored([win EXCEPT !.events = @ - 1])
    BY <1>4 DEF HashEvent
  <2>2. win'.stage = win.stage
    BY <1>0, <2>1 DEF Anchored, Scrolled, Highlighted, Toggled, Window
  <2> QED  BY <2>2
<1>5. ASSUME Timer PROVE FALSE
  BY <1>0, <1>5 DEF Timer, Window
<1>6. ASSUME NEW key \in Keys, ClickTab(key) PROVE FALSE
  BY <1>6 DEF ClickTab
<1>7. ~ToggleTheme
  BY DEF ToggleTheme
<1>8. ASSUME FillMenu PROVE FALSE
  BY <1>0, <1>8 DEF FillMenu, Window
<1>9. ASSUME OtherWindow PROVE FALSE
  BY <1>9 DEF OtherWindow
<1> QED
  BY <1>1, <1>2, <1>3, <1>4, <1>5, <1>6, <1>7, <1>8, <1>9 DEF Next

\* Whatever tab is remembered, a page loads with the tab of its anchor.
THEOREM DocsLinkBeatsMemory == Spec => LinkBeatsMemory
<1>1. ASSUME IInv, [Next]_vars, win.stage = "scripts", win'.stage = "ready", LinkedTab(win) # NONE
      PROVE  win'.button = {LinkedTab(win)}
  <2> DEFINE t == TabsReady(win)
  <2>0. win \in Window /\ win.page \in Pages /\ stored \in Keys \cup {NONE}
    BY <1>1 DEF IInv, TypeOK, Shape
  <2>1. Load
    BY <1>1, OnlyLoadReadies DEF IInv, vars
  <2>2. t \in Window /\ t.page = win.page /\ t.hash = win.hash
    BY <2>0, TabsReadyType
  <2>3. LinkedTab(t) = LinkedTab(win)
    BY <2>2 DEF LinkedTab, Found
  <2>4. win' = [Anchored(t) EXCEPT !.stage = "ready"]
    BY <2>1 DEF Load
  <2> HIDE DEF t
  <2>5. Anchored(t) \in Window /\ Anchored(t).button = {LinkedTab(t)}
    BY <1>1, <2>0, <2>2, <2>3, AnchoredType
  <2> QED  BY <2>3, <2>4, <2>5 DEF Window
<1>2. IInv => (win.stage = "scripts" /\ win'.stage = "ready" /\ LinkedTab(win) # NONE /\ [Next]_vars
                 => win'.button = {LinkedTab(win)})
  BY <1>1
<1>3. IInv /\ RememberedIsShown /\ [Next]_vars
        => [win.stage = "scripts" /\ win'.stage = "ready" /\ LinkedTab(win) # NONE
              => win'.button = {LinkedTab(win)}]_vars
  BY <1>2
<1> QED
  BY <1>3, InitInv, StepInv, PTL DEF Spec, LinkBeatsMemory

\* LinkIsShown is not inductive, for a timer scrolls later.  On a ready page with no
\* event to come the anchor is highlighted, and unless a timer was overtaken, either
\* none is left and the page is scrolled to it, or the last one will do that.
Shown(s) ==
  s.stage = "ready" /\ s.events = 0
    => /\ s.lit = IF Found(s) THEN s.hash ELSE NONE
       /\ Found(s) => \/ s.raced
                      \/ s.timers = <<>> /\ s.pos = s.hash
                      \/ s.timers # <<>> /\ s.timers[Len(s.timers)] = s.hash

\* The last element stays last while there are others.
LEMMA LastOfTail ==
  ASSUME NEW S, NEW q \in Seq(S), q # <<>>
  PROVE  \/ Tail(q) = <<>> /\ Head(q) = q[Len(q)]
         \/ Tail(q) # <<>> /\ Tail(q)[Len(Tail(q))] = q[Len(q)]
<1>1. Len(q) \in Nat \ {0} /\ Len(Tail(q)) = Len(q) - 1
  OBVIOUS
<1>2. CASE Len(q) = 1
  <2>1. Tail(q) \in Seq(S) /\ Len(Tail(q)) = 0
    BY <1>1, <1>2
  <2>2. Tail(q) = <<>>
    BY <2>1, EmptySeq
  <2> QED  BY <1>2, <2>2
<1>3. CASE Len(q) > 1
  <2> DEFINE t == Tail(q)
  <2>0. Len(t) # 0 /\ Len(<<>>) = 0
    BY <1>1, <1>3, EmptySeq
  <2> HIDE DEF t
  <2>1. t # <<>>
    BY <2>0, Zenon
  <2>2. Tail(q)[Len(q) - 1] = q[Len(q) - 1 + 1]
    BY <1>1, <1>3
  <2> QED  BY <1>1, <2>1, <2>2 DEF t
<1> QED  BY <1>1, <1>2, <1>3

\* Shown depends on these fields only.
LEMMA ShownSame ==
  ASSUME NEW s, NEW t, Shown(s),
         t.stage = s.stage, t.events = s.events, t.lit = s.lit, t.page = s.page, t.hash = s.hash,
         t.raced = s.raced, t.timers = s.timers, t.pos = s.pos
  PROVE  Shown(t)
BY DEF Shown, Found

\* handleAnchor() highlights the anchor, and scrolls to it or makes a timer that does.
LEMMA AnchoredShows ==
  ASSUME NEW s \in Window, s.page \in Pages
  PROVE  /\ Anchored(s).hash = s.hash /\ Anchored(s).events = s.events
         /\ Anchored(s).lit = IF Found(s) THEN s.hash ELSE NONE
         /\ Found(s) /\ s.stage = "ready"
              => /\ Anchored(s).pos = s.hash /\ Anchored(s).timers = s.timers
                 /\ s.timers # <<>> => Anchored(s).raced
         /\ Found(s) /\ s.stage # "ready" => Anchored(s).timers = Append(s.timers, s.hash)
<1> DEFINE t == Toggled(s, LinkedTab(s))
           u == Highlighted(t)
<1>1. LinkedTab(s) \in Keys \cup {NONE}
  BY LinkedTabType
<1>2. /\ t \in Window /\ t.page = s.page /\ t.stage = s.stage /\ t.hash = s.hash
      /\ t.events = s.events /\ t.timers = s.timers
  BY <1>1, ToggledType DEF Toggled, Window
<1>3. Found(t) <=> Found(s)
  BY <1>2 DEF Found
<1>4. u = [t EXCEPT !.lit = IF Found(s) THEN s.hash ELSE NONE]
  BY <1>2, <1>3 DEF Highlighted
<1>5. Anchored(s) = IF Found(s) THEN Scrolled(u, s.hash) ELSE u
  BY DEF Anchored
<1> HIDE DEF t, u
<1>6. /\ u \in Window /\ u.page = s.page /\ u.stage = s.stage /\ u.hash = s.hash
      /\ u.events = s.events /\ u.timers = s.timers
      /\ u.lit = IF Found(s) THEN s.hash ELSE NONE
  <2>1. s.hash \in Names \cup {NONE}
    BY DEF Window
  <2> QED  BY <1>2, <1>4, <2>1 DEF Window
<1>7. CASE ~Found(s)
  BY <1>5, <1>6, <1>7
<1>8. CASE Found(s) /\ s.stage = "ready"
  <2>1. Anchored(s) = [u EXCEPT !.pos = s.hash, !.raced = @ \/ u.timers # <<>>]
    BY <1>5, <1>6, <1>8 DEF Scrolled
  <2> QED  BY <1>6, <1>8, <2>1 DEF Window
<1>9. CASE Found(s) /\ s.stage # "ready"
  <2>1. Anchored(s) = [u EXCEPT !.timers = Append(@, s.hash)]
    BY <1>5, <1>6, <1>9 DEF Scrolled
  <2> QED  BY <1>6, <1>9, <2>1 DEF Window
<1> QED  BY <1>7, <1>8, <1>9

LEMMA ShownStep == IInv /\ Shown(win) /\ [Next]_vars => Shown(win)'
<1> SUFFICES ASSUME IInv, Shown(win), [Next]_vars PROVE Shown(win')
  BY DEF Shown, Found, NamesOn
<1>0. win \in Window /\ (win.stage # "closed" => win.page \in Pages)
  BY DEF IInv, TypeOK, Shape
<1>1. ASSUME NEW p \in Pages, NEW h \in NamesOn(p) \cup {NONE}, Open(p, h) PROVE Shown(win')
  BY <1>1 DEF Open, Closed, Shown
<1>2. ASSUME NEW h \in NamesOn(win.page) \cup {NONE}, Navigate(h) PROVE Shown(win')
  <2>1. win'.events = win.events + 1 /\ win.events \in Nat
    BY <1>0, <1>2, SiteAssumption DEF Navigate, Window
  <2> QED  BY <2>1 DEF Shown
<1>3. ASSUME Scripts \/ EventLost PROVE Shown(win')
  <2>1. win'.stage \in {"scripts", "parsing"}
    BY <1>0, <1>3 DEF Scripts, EventLost, Window
  <2> QED  BY <2>1 DEF Shown
<1>4. ASSUME HashEvent PROVE Shown(win')
  <2> DEFINE s == [win EXCEPT !.events = @ - 1]
  <2>1. s \in Window /\ s.page \in Pages /\ s.stage = win.stage /\ s.page = win.page
        /\ s.timers = win.timers /\ s.hash = win.hash
    <3>1. win.events - 1 \in 0..MaxPending
      BY <1>0, <1>4, SiteAssumption DEF HashEvent, Window
    <3> QED  BY <1>0, <1>4, <3>1 DEF HashEvent, Window
  <2>2. win' = Anchored(s)
    BY <1>4 DEF HashEvent
  <2> HIDE DEF s
  <2>3. win'.stage = s.stage /\ win'.page = s.page /\ win'.hash = s.hash
    BY <2>1, <2>2, AnchoredType, AnchoredShows
  <2>4. Found(win') <=> Found(s)
    BY <2>3 DEF Found
  <2> QED  BY <2>1, <2>2, <2>3, <2>4, AnchoredShows DEF Shown
<1>5. ASSUME Load PROVE Shown(win')
  <2> DEFINE s == TabsReady(win)
             t == Anchored(s)
  <2>1. s \in Window /\ s.page \in Pages /\ s.stage = "scripts"
    BY <1>0, <1>5, TabsReadyType DEF Load, IInv, TypeOK
  <2>2. win' = [t EXCEPT !.stage = "ready"]
    BY <1>5 DEF Load
  <2> HIDE DEF s
  <2>3. /\ t \in Window /\ t.page = s.page /\ t.hash = s.hash
        /\ t.lit = IF Found(s) THEN s.hash ELSE NONE
        /\ Found(s) => t.timers = Append(s.timers, s.hash)
    BY <2>1, AnchoredType, AnchoredShows
  <2>4. s.timers \in Seq(Names) /\ s.hash \in Names \cup {NONE}
    BY <2>1 DEF Window
  <2>5. Found(s) => s.hash \in Names
    BY <2>1 DEF Found, Names
  <2>6. Found(s) => t.timers # <<>> /\ t.timers[Len(t.timers)] = s.hash
    BY <2>3, <2>4, <2>5
  <2> HIDE DEF t
  <2>7. /\ win'.page = s.page /\ win'.hash = s.hash /\ win'.lit = t.lit
        /\ win'.timers = t.timers
    BY <2>2, <2>3 DEF Window
  <2>8. Found(win') <=> Found(s)
    BY <2>7 DEF Found
  <2> QED  BY <2>3, <2>6, <2>7, <2>8 DEF Shown
<1>6. ASSUME Timer PROVE Shown(win')
  <2>1. /\ win'.stage = win.stage /\ win'.events = win.events /\ win'.page = win.page
        /\ win'.hash = win.hash /\ win'.lit = win.lit /\ win'.raced = win.raced
        /\ win'.timers = Tail(win.timers)
        /\ win.stage = "ready" => win'.pos = Head(win.timers)
        /\ win.timers # <<>> /\ win.timers \in Seq(Names)
    BY <1>0, <1>6 DEF Timer, Window
  <2>2. Found(win') <=> Found(win)
    BY <2>1 DEF Found
  <2>3. \/ Tail(win.timers) = <<>> /\ Head(win.timers) = win.timers[Len(win.timers)]
        \/ /\ Tail(win.timers) # <<>>
           /\ Tail(win.timers)[Len(Tail(win.timers))] = win.timers[Len(win.timers)]
    BY <2>1, LastOfTail
  <2> QED  BY <2>1, <2>2, <2>3 DEF Shown
<1>7. ASSUME NEW key \in Keys, ClickTab(key) PROVE Shown(win')
  BY <1>0, <1>7, ShownSame DEF ClickTab, Toggled, Window
<1>8. ASSUME ToggleTheme PROVE Shown(win')
  <2>1. win' = [win EXCEPT !.theme = ~win.theme]
    BY <1>8 DEF ToggleTheme
  <2> QED  BY <1>0, <2>1, ShownSame DEF Window
<1>9. ASSUME FillMenu PROVE Shown(win')
  BY <1>0, <1>9, ShownSame DEF FillMenu, Window
<1>10. ASSUME OtherWindow \/ UNCHANGED vars PROVE Shown(win')
  BY <1>10 DEF OtherWindow, vars
<1> QED
  BY <1>1, <1>2, <1>3, <1>4, <1>5, <1>6, <1>7, <1>8, <1>9, <1>10 DEF Next

\* Once nothing waits, the anchor in the address is highlighted and scrolled to, for
\* every site and every order of events, timers and the load handler.
THEOREM DocsLinkIsShown == Spec => []LinkIsShown
<1>1. Init => Shown(win)
  BY DEF Init, Closed, Shown
<1>2. Shown(win) => LinkIsShown
  BY DEF Shown, LinkIsShown
<1> QED
  BY <1>1, <1>2, InitInv, StepInv, ShownStep, PTL DEF Spec
=============================================================================
