---------------------------- MODULE Pages_proofs ----------------------------
(***************************************************************************)
(* Theorems about Pages, for any pages, requests and bounds.               *)
(***************************************************************************)
EXTENDS Pages, FiniteSetTheorems, TLAPS

\* Ids beyond count have not been handed out.
Numbered ==
    /\ \A i \in Ids : i > count => tabOf[i] = None
    /\ \A t \in Tabs : attached[t] <= count

\* An open page has its listeners; their id is never another page's.
Introduced ==
    /\ \A t \in Tabs : page[t] = "none" => attached[t] = 0
    /\ \A t \in Tabs : page[t] = "open" => attached[t] # 0
    /\ \A t \in Tabs : page[t] = "none" => idOf[t] = 0
    /\ \A t \in Tabs : attached[t] # 0 => tabOf[attached[t]] \in {t, None}

\* Who works on a page works on one that has appeared.
Known ==
    /\ \A c \in Opens : open[c].tab # None => page[open[c].tab] # "none"
    /\ \A o \in Observes : observe[o].at # "idle" =>
          /\ observe[o].id \in Ids
          /\ observe[o].tab \in Tabs
          /\ page[observe[o].tab] # "none"

MapsInv == TypeOK /\ TabMapsAgree /\ Numbered /\ Introduced /\ Known

-----------------------------------------------------------------------------
LEMMA Constants ==
    /\ Ids \subseteq Nat
    /\ MaxIds \in Nat /\ MaxDocs \in Nat
    /\ \A i \in Ids : i # 0 /\ i \in 0..MaxIds
    /\ 1 \in Ids /\ None \notin Tabs /\ None \notin Observes /\ First \in Tabs
BY PagesAssumption DEF Ids

\* addPage gives a page that has no id the next one, and changes no other entry.
LEMMA Adding ==
    ASSUME MapsInv, NEW t \in Tabs, AddPage(t)
    PROVE  /\ count' \in Ids
           /\ count' >= count
           /\ tabOf' \in [Ids -> Tabs \cup {None}]
           /\ idOf' \in [Tabs -> 0..MaxIds]
           /\ TabMapsAgree'
           /\ idOf'[t] # 0
           /\ \A u \in Tabs : u # t => idOf'[u] = idOf[u]
           /\ \A i \in Ids : i > count' => tabOf'[i] = None
           /\ \A i \in Ids : tabOf'[i] # tabOf[i] =>
                 tabOf[i] = None /\ tabOf'[i] = t /\ idOf[t] = 0 /\ i = count + 1 /\ i = count'
<1>. USE Constants
<1>1. CASE idOf[t] # 0 /\ UNCHANGED <<count, tabOf, idOf>>
  <2>1. TabMapsAgree' BY <1>1 DEF MapsInv, TabMapsAgree
  <2>. QED BY <1>1, <2>1 DEF MapsInv, TypeOK, Numbered
<1>2. CASE /\ idOf[t] = 0
           /\ count < MaxIds
           /\ count' = count + 1
           /\ tabOf' = [tabOf EXCEPT ![count + 1] = t]
           /\ idOf' = [idOf EXCEPT ![t] = count + 1]
  <2>1. count + 1 \in Ids /\ count \in Nat BY <1>2 DEF MapsInv, TypeOK, Ids
  <2>2. \A i \in Ids : tabOf'[i] = IF i = count + 1 THEN t ELSE tabOf[i]
    BY <1>2, <2>1 DEF MapsInv, TypeOK
  <2>3. \A u \in Tabs : idOf'[u] = IF u = t THEN count + 1 ELSE idOf[u]
    BY <1>2 DEF MapsInv, TypeOK
  <2>4. tabOf[count + 1] = None BY <2>1 DEF MapsInv, Numbered
  <2>5. TabMapsAgree'
    BY <1>2, <2>1, <2>2, <2>3, <2>4 DEF MapsInv, TabMapsAgree
  <2>6. tabOf' \in [Ids -> Tabs \cup {None}] /\ idOf' \in [Tabs -> 0..MaxIds]
    BY <1>2, <2>1 DEF MapsInv, TypeOK
  <2>7. \A i \in Ids : i > count' => tabOf'[i] = None
    BY <1>2, <2>1, <2>2 DEF MapsInv, Numbered
  <2>. QED BY <1>2, <2>1, <2>2, <2>3, <2>4, <2>5, <2>6, <2>7
<1>. QED BY <1>1, <1>2 DEF AddPage

\* removePage clears what is known under an id, and changes nothing else.
LEMMA Removing ==
    ASSUME MapsInv, NEW i \in Ids, RemovePage(i)
    PROVE  /\ tabOf' \in [Ids -> Tabs \cup {None}]
           /\ idOf' \in [Tabs -> 0..MaxIds]
           /\ cache' \in [Ids -> Entry]
           /\ TabMapsAgree'
           /\ \A j \in Ids : tabOf'[j] = IF j = i THEN None ELSE tabOf[j]
           /\ \A u \in Tabs : idOf'[u] = IF idOf[u] = i THEN 0 ELSE idOf[u]
           /\ \A j \in Ids : cache'[j] = IF j = i THEN NoEntry ELSE cache[j]
<1>. USE Constants
<1>1. \A j \in Ids : tabOf'[j] = IF j = i THEN None ELSE tabOf[j]
  BY DEF RemovePage, MapsInv, TypeOK
<1>2. \A u \in Tabs : idOf'[u] = IF idOf[u] = i THEN 0 ELSE idOf[u]
  BY DEF RemovePage, MapsInv, TabMapsAgree
<1>3. \A j \in Ids : cache'[j] = IF j = i THEN NoEntry ELSE cache[j]
  BY DEF RemovePage, ClearCache, MapsInv, TypeOK
<1>4. TabMapsAgree'
  <2>1. SUFFICES ASSUME NEW j \in Ids, NEW t \in Tabs
                 PROVE  tabOf'[j] = t <=> idOf'[t] = j
    BY DEF TabMapsAgree
  <2>2. tabOf[j] = t <=> idOf[t] = j BY DEF MapsInv, TabMapsAgree
  <2>3. CASE j = i  BY <1>1, <1>2, <2>3
  <2>4. CASE j # i  BY <1>1, <1>2, <2>2, <2>4
  <2>. QED BY <2>3, <2>4
<1>5. NoEntry \in Entry BY DEF NoEntry, Entry
<1>6. tabOf' \in [Ids -> Tabs \cup {None}] /\ cache' \in [Ids -> Entry]
  BY <1>5 DEF RemovePage, ClearCache, MapsInv, TypeOK
<1>7. idOf' \in [Tabs -> 0..MaxIds]
  BY DEF RemovePage, MapsInv, TypeOK
<1>. QED BY <1>1, <1>2, <1>3, <1>4, <1>6, <1>7

-----------------------------------------------------------------------------
\* The maps, action by action.
LEMMA InitMaps == Init => MapsInv
<1>. USE Constants
<1>. SUFFICES ASSUME Init PROVE MapsInv OBVIOUS
<1>1. TypeOK
  BY PagesAssumption DEF Init, TypeOK, Walk, Opening, NoObserve, NoEntry, Entry, Ids
<1>2. TabMapsAgree /\ Numbered /\ Introduced /\ Known
  BY DEF Init, TabMapsAgree, Numbered, Introduced, Known, NoObserve, Ids
<1>. QED BY <1>1, <1>2 DEF MapsInv

LEMMA AppearsMaps ==
    ASSUME MapsInv, NEW t \in Tabs, Appears(t),
           \/ UNCHANGED open
           \/ \E c \in Opens : open' = [open EXCEPT ![c] = [at |-> "made", tab |-> t]]
    PROVE  MapsInv'
<1>. USE Constants
<1>1. /\ page' = [page EXCEPT ![t] = "open"]
      /\ doc' = [doc EXCEPT ![t] = 1]
      /\ page[t] = "none"
      /\ attached' = [attached EXCEPT ![t] = count + 1]
      /\ AddPage(t)
      /\ UNCHANGED <<running, closing, cache, observe, base, late>>
  BY DEF Appears, observeVars
<1>2. idOf[t] = 0 BY <1>1 DEF MapsInv, Introduced
<1>3. count < MaxIds /\ count' = count + 1 /\ count \in Nat
  BY <1>1, <1>2 DEF AddPage, MapsInv, TypeOK, Ids
<1>4. /\ count' \in Ids
      /\ tabOf' \in [Ids -> Tabs \cup {None}]
      /\ idOf' \in [Tabs -> 0..MaxIds]
      /\ TabMapsAgree'
      /\ \A u \in Tabs : u # t => idOf'[u] = idOf[u]
      /\ \A i \in Ids : i > count' => tabOf'[i] = None
      /\ \A i \in Ids : tabOf'[i] # tabOf[i] =>
            tabOf[i] = None /\ tabOf'[i] = t /\ i = count + 1
  BY <1>1, Adding
<1>5. \A u \in Tabs : page'[u] = IF u = t THEN "open" ELSE page[u]
  BY <1>1 DEF MapsInv, TypeOK
<1>6. \A u \in Tabs : attached'[u] = IF u = t THEN count + 1 ELSE attached[u]
  BY <1>1 DEF MapsInv, TypeOK
<1>7. tabOf'[count + 1] = t
  BY <1>1, <1>2, <1>3, <1>4 DEF AddPage, MapsInv, TypeOK
<1>8. TypeOK'
  <2>1. doc' \in [Tabs -> 0..MaxDocs] /\ page' \in [Tabs -> {"none", "open", "gone"}]
    BY <1>1, PagesAssumption DEF MapsInv, TypeOK
  <2>2. attached' \in [Tabs -> 0..MaxIds] BY <1>1, <1>3 DEF MapsInv, TypeOK
  <2>3. /\ open' \in [Opens -> Opening]
        /\ \A c \in Opens : open'[c].tab # None <=> open'[c].at \in {"made", "done"}
    <3>1. CASE UNCHANGED open  BY <3>1 DEF MapsInv, TypeOK
    <3>2. ASSUME NEW c \in Opens, open' = [open EXCEPT ![c] = [at |-> "made", tab |-> t]]
          PROVE  /\ open' \in [Opens -> Opening]
                 /\ \A d \in Opens : open'[d].tab # None <=> open'[d].at \in {"made", "done"}
      <4>1. \A d \in Opens : open'[d] = IF d = c THEN [at |-> "made", tab |-> t] ELSE open[d]
        BY <3>2 DEF MapsInv, TypeOK
      <4>. QED BY <3>2, <4>1 DEF MapsInv, TypeOK, Walk, Opening
    <3>. QED BY <3>1, <3>2
  <2>. QED BY <1>1, <1>4, <2>1, <2>2, <2>3 DEF MapsInv, TypeOK
<1>9. Numbered'
  <2>1. \A u \in Tabs : attached[u] \in Nat /\ attached[u] <= count
    BY DEF MapsInv, TypeOK, Numbered
  <2>2. \A u \in Tabs : attached'[u] <= count' BY <1>3, <1>6, <2>1
  <2>. QED BY <1>4, <2>2 DEF Numbered
<1>10. Introduced'
  <2>1. \A u \in Tabs : /\ page'[u] = "none" => attached'[u] = 0
                        /\ page'[u] = "open" => attached'[u] # 0
    BY <1>3, <1>5, <1>6 DEF MapsInv, Introduced
  <2>2. \A u \in Tabs : page'[u] = "none" => idOf'[u] = 0
    BY <1>4, <1>5 DEF MapsInv, Introduced
  <2>3. ASSUME NEW u \in Tabs, attached'[u] # 0 PROVE tabOf'[attached'[u]] \in {u, None}
    <3>1. CASE u = t  BY <3>1, <1>6, <1>7
    <3>2. CASE u # t
      <4>1. attached'[u] = attached[u] /\ attached[u] # 0 BY <2>3, <3>2, <1>6
      <4>2. attached[u] \in Ids /\ attached[u] <= count
        BY <4>1 DEF MapsInv, TypeOK, Numbered, Ids
      <4>3. attached[u] # count + 1 BY <1>3, <4>2
      <4>4. tabOf'[attached[u]] = tabOf[attached[u]]
        BY <1>4, <4>2, <4>3
      <4>. QED BY <4>1, <4>4 DEF MapsInv, Introduced
    <3>. QED BY <3>1, <3>2
  <2>. QED BY <2>1, <2>2, <2>3 DEF Introduced
<1>11. Known'
  BY <1>1, <1>5 DEF MapsInv, TypeOK, Known
<1>. QED BY <1>4, <1>8, <1>9, <1>10, <1>11 DEF MapsInv

LEMMA TabMadeMaps ==
    ASSUME MapsInv, NEW c \in Opens, TabMade(c)
    PROVE  MapsInv'
<1>. USE Constants
<1>. DEFINE t == open[c].tab
<1>1. t \in Tabs /\ page[t] # "none"
  BY DEF TabMade, MapsInv, TypeOK, Walk, Opening, Known
<1>2. /\ AddPage(t)
      /\ open' = [open EXCEPT ![c].at = "done"]
      /\ UNCHANGED <<running, doc, page, attached, closing, cache, observe, base, late>>
  BY DEF TabMade, observeVars
<1>. HIDE DEF t
<1>3. /\ count' \in Ids
      /\ count' >= count
      /\ tabOf' \in [Ids -> Tabs \cup {None}]
      /\ idOf' \in [Tabs -> 0..MaxIds]
      /\ TabMapsAgree'
      /\ \A u \in Tabs : u # t => idOf'[u] = idOf[u]
      /\ \A i \in Ids : i > count' => tabOf'[i] = None
      /\ \A i \in Ids : tabOf'[i] # tabOf[i] =>
            tabOf[i] = None /\ tabOf'[i] = t /\ i = count + 1
  BY <1>1, <1>2, Adding
<1>4. \A d \in Opens : open'[d].tab = open[d].tab
  BY <1>2 DEF MapsInv, TypeOK
<1>5. TypeOK'
  <2>1. /\ open' \in [Opens -> Opening]
        /\ \A d \in Opens : open'[d].tab # None <=> open'[d].at \in {"made", "done"}
    BY <1>1, <1>2 DEF MapsInv, TypeOK, Walk, Opening, t
  <2>. QED BY <1>2, <1>3, <2>1 DEF MapsInv, TypeOK
<1>6. Numbered'
  <2>1. \A u \in Tabs : attached'[u] \in Nat /\ attached'[u] <= count /\ count \in Nat
    BY <1>2 DEF MapsInv, TypeOK, Numbered
  <2>. QED BY <1>3, <2>1 DEF Numbered
<1>7. Introduced'
  <2>1. ASSUME NEW u \in Tabs, attached[u] # 0 PROVE tabOf'[attached[u]] = tabOf[attached[u]]
    <3>1. attached[u] \in Ids /\ attached[u] <= count /\ count \in Nat
      BY <2>1 DEF MapsInv, TypeOK, Numbered, Ids
    <3>2. attached[u] # count + 1 BY <3>1
    <3>. QED BY <1>3, <3>1, <3>2
  <2>. QED BY <1>1, <1>2, <1>3, <2>1 DEF MapsInv, Introduced
<1>8. Known' BY <1>2, <1>4 DEF MapsInv, Known
<1>. QED BY <1>3, <1>5, <1>6, <1>7, <1>8 DEF MapsInv

LEMMA RemovingMaps ==
    ASSUME MapsInv, NEW i \in Ids, RemovePage(i),
           page' \in [Tabs -> {"none", "open", "gone"}],
           \A u \in Tabs : /\ page'[u] = "none" <=> page[u] = "none"
                           /\ page'[u] = "open" => page[u] = "open",
           closing' \subseteq Tabs,
           UNCHANGED <<running, doc, count, attached, open, observe, base, late>>
    PROVE  MapsInv'
<1>. USE Constants
<1>1. /\ tabOf' \in [Ids -> Tabs \cup {None}]
      /\ idOf' \in [Tabs -> 0..MaxIds]
      /\ cache' \in [Ids -> Entry]
      /\ TabMapsAgree'
      /\ \A j \in Ids : tabOf'[j] = IF j = i THEN None ELSE tabOf[j]
      /\ \A u \in Tabs : idOf'[u] = IF idOf[u] = i THEN 0 ELSE idOf[u]
  BY Removing
<1>2. TypeOK' BY <1>1 DEF MapsInv, TypeOK
<1>3. Numbered' BY <1>1 DEF MapsInv, Numbered
<1>4. Introduced'
  <2>1. \A u \in Tabs : attached[u] # 0 => attached[u] \in Ids
    BY DEF MapsInv, TypeOK, Ids
  <2>2. \A u \in Tabs : page'[u] = "none" => attached'[u] = 0 /\ idOf'[u] = 0
    BY <1>1 DEF MapsInv, Introduced
  <2>3. \A u \in Tabs : page'[u] = "open" => attached'[u] # 0
    BY DEF MapsInv, Introduced
  <2>4. \A u \in Tabs : attached'[u] # 0 => tabOf'[attached'[u]] \in {u, None}
    BY <1>1, <2>1 DEF MapsInv, Introduced
  <2>. QED BY <2>2, <2>3, <2>4 DEF Introduced
<1>5. Known'
  <2>1. \A c \in Opens : open[c].tab \in Tabs \cup {None} BY DEF MapsInv, TypeOK, Opening
  <2>2. \A c \in Opens : open'[c].tab # None => page'[open'[c].tab] # "none"
    BY <2>1 DEF MapsInv, Known
  <2>3. \A o \in Observes : observe'[o].at # "idle" =>
          /\ observe'[o].id \in Ids
          /\ observe'[o].tab \in Tabs
          /\ page'[observe'[o].tab] # "none"
    BY DEF MapsInv, Known
  <2>. QED BY <2>2, <2>3 DEF Known
<1>. QED BY <1>1, <1>2, <1>3, <1>4, <1>5 DEF MapsInv

\* Whatever leaves the maps alone.
LEMMA ElsewhereMaps ==
    ASSUME MapsInv, UNCHANGED tabVars, TypeOK', Known'
    PROVE  MapsInv'
BY DEF MapsInv, tabVars, TabMapsAgree, Numbered, Introduced

LEMMA ObserveMaps ==
    ASSUME MapsInv, NEW o \in Observes,
           (\E i \in Ids : Observe(o, i)) \/ Walked(o) \/ Cached(o)
    PROVE  MapsInv'
<1>. USE Constants
<1>1. ASSUME NEW i \in Ids, Observe(o, i) PROVE MapsInv'
  <2>1. tabOf[i] \in Tabs /\ page[tabOf[i]] # "none"
    BY <1>1 DEF Observe, MapsInv, TypeOK, TabMapsAgree, Introduced
  <2>2. \A p \in Observes : observe'[p] = IF p = o
              THEN [at |-> "walking", id |-> i, tab |-> tabOf[i], doc |-> 0] ELSE observe[p]
    BY <1>1 DEF Observe, MapsInv, TypeOK
  <2>3. Known' BY <1>1, <2>1, <2>2 DEF Observe, tabVars, MapsInv, Known
  <2>4. TypeOK'
    <3>1. observe' \in [Observes -> Walk]
      BY <1>1, <2>1 DEF Observe, MapsInv, TypeOK, Walk, Opening
    <3>. QED BY <1>1, <3>1 DEF Observe, tabVars, MapsInv, TypeOK
  <2>. QED BY <1>1, <2>3, <2>4, ElsewhereMaps DEF Observe
<1>2. CASE Walked(o)
  <2>1. PICK seen \in {0, doc[observe[o].tab]} :
            observe' = [observe EXCEPT ![o].at = "walked", ![o].doc = seen]
    BY <1>2 DEF Walked
  <2>2. observe[o].tab \in Tabs /\ seen \in 0..MaxDocs
    BY <1>2, <2>1 DEF Walked, MapsInv, TypeOK, Known
  <2>3. \A p \in Observes : /\ observe'[p].id = observe[p].id /\ observe'[p].tab = observe[p].tab
                            /\ observe'[p].at # "idle" => observe[p].at # "idle"
    BY <1>2, <2>1 DEF Walked, MapsInv, TypeOK
  <2>4. Known' BY <1>2, <2>3 DEF Walked, tabVars, MapsInv, Known
  <2>5. TypeOK'
    <3>1. observe' \in [Observes -> Walk]
      <4>1. observe[o] \in Walk BY DEF MapsInv, TypeOK
      <4>2. [observe[o] EXCEPT !.at = "walked", !.doc = seen] \in Walk BY <2>2, <4>1 DEF Walk
      <4>3. observe' = [observe EXCEPT ![o] = [observe[o] EXCEPT !.at = "walked", !.doc = seen]]
        BY <2>1 DEF MapsInv, TypeOK
      <4>. QED BY <4>2, <4>3 DEF MapsInv, TypeOK
    <3>. QED BY <1>2, <3>1 DEF Walked, tabVars, MapsInv, TypeOK
  <2>. QED BY <1>2, <2>4, <2>5, ElsewhereMaps DEF Walked
<1>3. CASE Cached(o)
  <2>1. observe' = [observe EXCEPT ![o].at = "done"] /\ observe[o].at # "idle"
    BY <1>3 DEF Cached
  <2>2. observe[o].id \in Ids /\ observe[o].doc \in 0..MaxDocs
    BY <2>1 DEF MapsInv, TypeOK, Walk, Opening, Known
  <2>3. \A p \in Observes : /\ observe'[p].id = observe[p].id /\ observe'[p].tab = observe[p].tab
                            /\ observe'[p].at # "idle" => observe[p].at # "idle"
    BY <2>1 DEF MapsInv, TypeOK
  <2>4. Known' BY <1>3, <2>3 DEF Cached, tabVars, MapsInv, Known
  <2>5. TypeOK'
    <3>1. observe' \in [Observes -> Walk]
      <4>1. observe[o] \in Walk BY DEF MapsInv, TypeOK
      <4>2. [observe[o] EXCEPT !.at = "done"] \in Walk BY <4>1 DEF Walk
      <4>. QED BY <2>1, <4>2 DEF MapsInv, TypeOK
    <3>2. [by |-> o, doc |-> observe[o].doc] \in Entry /\ cache[observe[o].id] \in Entry
      BY <2>2 DEF MapsInv, TypeOK, Entry
    <3>3. cache' \in [Ids -> Entry] /\ base' \in [Observes -> Entry] /\ late' \subseteq Observes
      BY <1>3, <3>2 DEF Cached, MapsInv, TypeOK
    <3>. QED BY <1>3, <3>1, <3>3 DEF Cached, tabVars, MapsInv, TypeOK
  <2>. QED BY <1>3, <2>4, <2>5, ElsewhereMaps DEF Cached
<1>. QED BY <1>1, <1>2, <1>3

LEMMA NextMaps == MapsInv /\ [Next]_vars => MapsInv'
<1>. USE Constants
<1>. SUFFICES ASSUME MapsInv, [Next]_vars PROVE MapsInv' OBVIOUS
<1>1. CASE SessionCloses
  <2>1. TypeOK' /\ Known'
    BY <1>1 DEF SessionCloses, tabVars, observeVars, MapsInv, TypeOK, Known
  <2>. QED BY <1>1, <2>1, ElsewhereMaps DEF SessionCloses
<1>2. ASSUME NEW c \in Opens, OpenTab(c) \/ NewPageFails(c) PROVE MapsInv'
  <2>1. \A d \in Opens : open'[d].tab = open[d].tab \/ open'[d].tab = None
    BY <1>2 DEF OpenTab, NewPageFails, MapsInv, TypeOK, Walk, Opening
  <2>2. Known'
    BY <1>2, <2>1 DEF OpenTab, NewPageFails, tabVars, observeVars, MapsInv, Known
  <2>3. TypeOK'
    <3>1. PICK stage \in {"asked", "failed"} : open' = [open EXCEPT ![c].at = stage]
      BY <1>2 DEF OpenTab, NewPageFails
    <3>2. open[c].tab = None BY <1>2 DEF OpenTab, NewPageFails, MapsInv, TypeOK
    <3>3. \A d \in Opens : /\ open'[d].tab = open[d].tab
                            /\ open'[d].at = IF d = c THEN stage ELSE open[d].at
      BY <3>1 DEF MapsInv, TypeOK
    <3>4. /\ open' \in [Opens -> Opening]
          /\ \A d \in Opens : open'[d].tab # None <=> open'[d].at \in {"made", "done"}
      BY <3>1, <3>2, <3>3 DEF MapsInv, TypeOK, Walk, Opening
    <3>. QED BY <1>2, <3>4 DEF OpenTab, NewPageFails, tabVars, observeVars, MapsInv, TypeOK
  <2>. QED BY <1>2, <2>2, <2>3, ElsewhereMaps DEF OpenTab, NewPageFails
<1>3. ASSUME NEW c \in Opens, TabMade(c) PROVE MapsInv'
  BY <1>3, TabMadeMaps
<1>4. ASSUME NEW c \in Opens, NEW t \in Tabs, TabAppears(c, t) PROVE MapsInv'
  BY <1>4, AppearsMaps DEF TabAppears
<1>5. ASSUME NEW t \in Tabs, PopupAppears(t) PROVE MapsInv'
  BY <1>5, AppearsMaps DEF PopupAppears
<1>6. ASSUME NEW t \in Tabs, PageCloses(t) PROVE MapsInv'
  <2>1. attached[t] \in Ids
    BY <1>6 DEF PageCloses, MapsInv, TypeOK, Introduced, Ids
  <2>2. /\ page' \in [Tabs -> {"none", "open", "gone"}]
        /\ \A u \in Tabs : /\ page'[u] = "none" <=> page[u] = "none"
                           /\ page'[u] = "open" => page[u] = "open"
    BY <1>6 DEF PageCloses, MapsInv, TypeOK
  <2>. QED BY <1>6, <2>1, <2>2, RemovingMaps DEF PageCloses, observeVars, MapsInv, TypeOK
<1>7. ASSUME NEW t \in Tabs, NewDocument(t) PROVE MapsInv'
  <2>1. NoEntry \in Entry /\ doc[t] + 1 \in 0..MaxDocs
    BY <1>7 DEF NoEntry, Entry, NewDocument, MapsInv, TypeOK
  <2>2. TypeOK' /\ Known'
    BY <1>7, <2>1 DEF NewDocument, ClearCache, tabVars, observeVars, MapsInv, TypeOK, Known
  <2>. QED BY <1>7, <2>2, ElsewhereMaps DEF NewDocument
<1>8. ASSUME NEW i \in Ids, CloseTab(i) PROVE MapsInv'
  <2>1. tabOf[i] \in Tabs BY <1>8 DEF CloseTab, MapsInv, TypeOK
  <2>. QED BY <1>8, <2>1, RemovingMaps DEF CloseTab, observeVars, MapsInv, TypeOK
<1>9. ASSUME NEW o \in Observes, (\E i \in Ids : Observe(o, i)) \/ Walked(o) \/ Cached(o)
      PROVE  MapsInv'
  BY <1>9, ObserveMaps
<1>10. CASE UNCHANGED vars
  <2>1. TypeOK' /\ Known' BY <1>10 DEF vars, tabVars, observeVars, MapsInv, TypeOK, Known
  <2>. QED BY <1>10, <2>1, ElsewhereMaps DEF vars
<1>. QED BY <1>1, <1>2, <1>3, <1>4, <1>5, <1>6, <1>7, <1>8, <1>9, <1>10 DEF Next

-----------------------------------------------------------------------------
\* The list of tabs, action by action.
ListInv == ListIsTrue /\ OrphansExplained

LEMMA AppearsList ==
    ASSUME MapsInv, ListInv, NEW t \in Tabs, Appears(t),
           \A c \in Opens : open[c].at = "done" => open'[c] = open[c]
    PROVE  ListInv'
<1>. USE Constants
<1>1. AddPage(t) /\ page[t] = "none" /\ closing' = closing BY DEF Appears
<1>2. idOf[t] = 0 BY <1>1 DEF MapsInv, Introduced
<1>3. /\ idOf'[t] # 0
      /\ \A u \in Tabs : u # t => idOf'[u] = idOf[u]
      /\ \A i \in Ids : tabOf'[i] # tabOf[i] =>
            tabOf[i] = None /\ tabOf'[i] = t /\ i = count + 1
  BY <1>1, Adding
<1>4. \A u \in Tabs : /\ page'[u] = IF u = t THEN "open" ELSE page[u]
                      /\ attached'[u] = IF u = t THEN count + 1 ELSE attached[u]
  BY DEF Appears, MapsInv, TypeOK
<1>5. \A i \in Ids : tabOf[i] # t BY <1>2 DEF MapsInv, TabMapsAgree
<1>6. \A u \in Tabs : page'[u] = "open" => idOf'[u] # 0 \/ u \in closing'
  BY <1>1, <1>3, <1>4 DEF ListInv, ListIsTrue
<1>7. ASSUME NEW i \in Ids, tabOf'[i] # None, attached'[tabOf'[i]] # i
      PROVE  /\ tabOf'[i] = tabOf[i]
             /\ tabOf[i] \in Tabs
             /\ tabOf[i] # t
             /\ attached[tabOf[i]] # i
  <2>1. tabOf'[i] = tabOf[i] BY <1>3, <1>4, <1>7
  <2>2. tabOf[i] \in Tabs BY <2>1, <1>7 DEF MapsInv, TypeOK
  <2>. QED BY <2>1, <2>2, <1>4, <1>5, <1>7
<1>8. OrphansExplained'
  <2>1. SUFFICES ASSUME NEW i \in Ids, tabOf'[i] # None, attached'[tabOf'[i]] # i
                 PROVE  \/ i = 1 /\ tabOf'[i] = First
                        \/ \E c \in Opens : open'[c] = [at |-> "done", tab |-> tabOf'[i]]
    BY DEF OrphansExplained, Listed, Orphaned
  <2>2. \/ i = 1 /\ tabOf[i] = First
        \/ \E c \in Opens : open[c] = [at |-> "done", tab |-> tabOf[i]]
    BY <1>7, <2>1 DEF ListInv, OrphansExplained, Listed, Orphaned
  <2>. QED BY <1>7, <2>1, <2>2
<1>9. ASSUME NEW i \in Ids, tabOf'[i] # None
      PROVE  page'[tabOf'[i]] = "open" \/ attached'[tabOf'[i]] # i
  <2>1. CASE tabOf'[i] = t  BY <1>4, <2>1
  <2>2. CASE tabOf'[i] # t
    <3>1. tabOf'[i] = tabOf[i] /\ tabOf[i] \in Tabs
      BY <1>3, <1>9, <2>2 DEF MapsInv, TypeOK
    <3>2. page[tabOf[i]] = "open" \/ attached[tabOf[i]] # i
      BY <1>9, <3>1 DEF ListInv, ListIsTrue, Listed, Orphaned
    <3>. QED BY <1>4, <2>2, <3>1, <3>2
  <2>. QED BY <2>1, <2>2
<1>10. ListIsTrue' BY <1>6, <1>9 DEF ListIsTrue, Listed, Orphaned
<1>. QED BY <1>8, <1>10 DEF ListInv

LEMMA TabMadeList ==
    ASSUME MapsInv, ListInv, NEW c \in Opens, TabMade(c)
    PROVE  ListInv'
<1>. USE Constants
<1>. DEFINE t == open[c].tab
<1>1. t \in Tabs /\ page[t] # "none" /\ open[c].at = "made"
  BY DEF TabMade, MapsInv, TypeOK, Walk, Opening, Known
<1>2. AddPage(t) /\ UNCHANGED <<page, attached, closing>> BY DEF TabMade
<1>3. /\ \A d \in Opens : d # c => open'[d] = open[d]
      /\ open'[c] = [at |-> "done", tab |-> t]
  BY DEF TabMade, MapsInv, TypeOK, Walk, Opening
<1>. HIDE DEF t
<1>4. /\ idOf'[t] # 0
      /\ \A u \in Tabs : u # t => idOf'[u] = idOf[u]
      /\ \A i \in Ids : tabOf'[i] # tabOf[i] =>
            tabOf[i] = None /\ tabOf'[i] = t /\ i = count + 1
  BY <1>1, <1>2, Adding
<1>5. \A u \in Tabs : page'[u] = "open" => idOf'[u] # 0 \/ u \in closing'
  BY <1>2, <1>4 DEF ListInv, ListIsTrue
<1>6. OrphansExplained'
  <2>1. SUFFICES ASSUME NEW i \in Ids, tabOf'[i] # None, attached[tabOf'[i]] # i
                 PROVE  \/ i = 1 /\ tabOf'[i] = First
                        \/ \E d \in Opens : open'[d] = [at |-> "done", tab |-> tabOf'[i]]
    BY <1>2 DEF OrphansExplained, Listed, Orphaned
  <2>2. CASE tabOf'[i] # tabOf[i]  BY <1>3, <1>4, <2>2
  <2>3. CASE tabOf'[i] = tabOf[i]
    <3>1. CASE i = 1 /\ tabOf[i] = First  BY <2>3, <3>1
    <3>2. ASSUME NEW d \in Opens, open[d] = [at |-> "done", tab |-> tabOf[i]]
          PROVE  open'[d] = [at |-> "done", tab |-> tabOf'[i]]
      <4>1. d # c BY <1>1, <3>2
      <4>. QED BY <1>3, <2>3, <3>2, <4>1
    <3>. QED BY <2>1, <2>3, <3>1, <3>2 DEF ListInv, OrphansExplained, Listed, Orphaned
  <2>. QED BY <2>2, <2>3
<1>7. ASSUME NEW i \in Ids, tabOf'[i] # None
      PROVE  page[tabOf'[i]] = "open" \/ attached[tabOf'[i]] # i
  <2>1. CASE tabOf'[i] = tabOf[i]
    BY <1>7, <2>1 DEF ListInv, ListIsTrue, Listed, Orphaned
  <2>2. CASE tabOf'[i] # tabOf[i]
    <3>1. tabOf'[i] = t /\ i = count + 1 BY <1>4, <2>2
    <3>2. attached[t] <= count /\ count \in Nat /\ attached[t] \in Nat
      BY <1>1 DEF MapsInv, TypeOK, Numbered
    <3>. QED BY <3>1, <3>2
  <2>. QED BY <2>1, <2>2
<1>8. ListIsTrue' BY <1>2, <1>5, <1>7 DEF ListIsTrue, Listed, Orphaned
<1>. QED BY <1>6, <1>8 DEF ListInv

LEMMA CloseTabList ==
    ASSUME MapsInv, ListInv, NEW i \in Ids, CloseTab(i)
    PROVE  ListInv'
<1>. USE Constants
<1>1. /\ \A j \in Ids : tabOf'[j] = IF j = i THEN None ELSE tabOf[j]
      /\ \A u \in Tabs : idOf'[u] = IF idOf[u] = i THEN 0 ELSE idOf[u]
  BY Removing DEF CloseTab
<1>2. closing' = closing \cup {tabOf[i]} /\ UNCHANGED <<page, attached, open>>
  BY DEF CloseTab
<1>3. \A u \in Tabs : idOf[u] = i => tabOf[i] = u BY DEF MapsInv, TabMapsAgree
<1>4. \A u \in Tabs : page'[u] = "open" => idOf'[u] # 0 \/ u \in closing'
  BY <1>1, <1>2, <1>3 DEF ListInv, ListIsTrue
<1>5. \A j \in Ids : tabOf'[j] # None =>
          tabOf'[j] = tabOf[j] /\ (page[tabOf[j]] = "open" \/ attached[tabOf[j]] # j)
  BY <1>1 DEF ListInv, ListIsTrue, Listed, Orphaned
<1>6. ListIsTrue' BY <1>2, <1>4, <1>5 DEF ListIsTrue, Listed, Orphaned
<1>7. OrphansExplained'
  BY <1>2, <1>5 DEF ListInv, OrphansExplained, Listed, Orphaned
<1>. QED BY <1>6, <1>7 DEF ListInv

LEMMA PageClosesList ==
    ASSUME MapsInv, ListInv, NEW t \in Tabs, PageCloses(t)
    PROVE  ListInv'
<1>. USE Constants
<1>. DEFINE i == attached[t]
<1>1. i \in Ids BY DEF PageCloses, MapsInv, TypeOK, Introduced, Ids
<1>2. /\ \A j \in Ids : tabOf'[j] = IF j = i THEN None ELSE tabOf[j]
      /\ \A u \in Tabs : idOf'[u] = IF idOf[u] = i THEN 0 ELSE idOf[u]
  BY <1>1, Removing DEF PageCloses
<1>3. /\ \A u \in Tabs : page'[u] = IF u = t THEN "gone" ELSE page[u]
      /\ UNCHANGED <<attached, closing, open>>
  BY DEF PageCloses, MapsInv, TypeOK
<1>4. ASSUME NEW u \in Tabs, idOf[u] = i PROVE u = t
  <2>1. tabOf[i] = u BY <1>1, <1>4 DEF MapsInv, TabMapsAgree
  <2>2. tabOf[i] \in {t, None} BY <1>1 DEF MapsInv, Introduced
  <2>. QED BY <2>1, <2>2
<1>5. \A u \in Tabs : page'[u] = "open" => idOf'[u] # 0 \/ u \in closing'
  BY <1>2, <1>3, <1>4 DEF ListInv, ListIsTrue
<1>6. ASSUME NEW j \in Ids, tabOf'[j] # None
      PROVE  /\ tabOf'[j] = tabOf[j]
             /\ page'[tabOf[j]] = "open" \/ attached[tabOf[j]] # j
  <2>1. j # i /\ tabOf'[j] = tabOf[j] /\ tabOf[j] \in Tabs
    BY <1>2, <1>6 DEF MapsInv, TypeOK
  <2>2. page[tabOf[j]] = "open" \/ attached[tabOf[j]] # j
    BY <1>6, <2>1 DEF ListInv, ListIsTrue, Listed, Orphaned
  <2>. QED BY <1>3, <2>1, <2>2
<1>7. ListIsTrue' BY <1>3, <1>5, <1>6 DEF ListIsTrue, Listed, Orphaned
<1>8. OrphansExplained'
  BY <1>3, <1>6 DEF ListInv, OrphansExplained, Listed, Orphaned
<1>. QED BY <1>7, <1>8 DEF ListInv

LEMMA NextList == MapsInv /\ ListInv /\ [Next]_vars => ListInv'
<1>. USE Constants
<1>. SUFFICES ASSUME MapsInv, ListInv, [Next]_vars PROVE ListInv' OBVIOUS
<1>1. ASSUME UNCHANGED tabVars, \A c \in Opens : open[c].at = "done" => open'[c] = open[c]
      PROVE  ListInv'
  <2>1. ListIsTrue' BY <1>1 DEF tabVars, ListInv, ListIsTrue, Listed, Orphaned
  <2>2. OrphansExplained'
    <3>1. SUFFICES ASSUME NEW i \in Ids, tabOf[i] # None, attached[tabOf[i]] # i
                   PROVE  \/ i = 1 /\ tabOf[i] = First
                          \/ \E c \in Opens : open'[c] = [at |-> "done", tab |-> tabOf[i]]
      BY <1>1 DEF tabVars, OrphansExplained, Listed, Orphaned
    <3>2. \/ i = 1 /\ tabOf[i] = First
          \/ \E c \in Opens : open[c] = [at |-> "done", tab |-> tabOf[i]]
      BY <3>1 DEF ListInv, OrphansExplained, Listed, Orphaned
    <3>. QED BY <1>1, <3>2
  <2>. QED BY <2>1, <2>2 DEF ListInv
<1>2. CASE SessionCloses  BY <1>1, <1>2 DEF SessionCloses
<1>3. ASSUME NEW c \in Opens, OpenTab(c) \/ NewPageFails(c) PROVE ListInv'
  <2>1. \A d \in Opens : open[d].at = "done" => open'[d] = open[d]
    BY <1>3 DEF OpenTab, NewPageFails, MapsInv, TypeOK
  <2>. QED BY <1>1, <1>3, <2>1 DEF OpenTab, NewPageFails
<1>4. ASSUME NEW c \in Opens, TabMade(c) PROVE ListInv'
  BY <1>4, TabMadeList
<1>5. ASSUME NEW c \in Opens, NEW t \in Tabs, TabAppears(c, t) PROVE ListInv'
  <2>1. \A d \in Opens : open[d].at = "done" => open'[d] = open[d]
    BY <1>5 DEF TabAppears, MapsInv, TypeOK
  <2>. QED BY <1>5, <2>1, AppearsList DEF TabAppears
<1>6. ASSUME NEW t \in Tabs, PopupAppears(t) PROVE ListInv'
  BY <1>6, AppearsList DEF PopupAppears
<1>7. ASSUME NEW t \in Tabs, PageCloses(t) PROVE ListInv'
  BY <1>7, PageClosesList
<1>8. ASSUME NEW t \in Tabs, NewDocument(t) PROVE ListInv'
  BY <1>1, <1>8 DEF NewDocument
<1>9. ASSUME NEW i \in Ids, CloseTab(i) PROVE ListInv'
  BY <1>9, CloseTabList
<1>10. ASSUME NEW o \in Observes, (\E i \in Ids : Observe(o, i)) \/ Walked(o) \/ Cached(o)
       PROVE  ListInv'
  BY <1>1, <1>10 DEF Observe, Walked, Cached
<1>11. CASE UNCHANGED vars  BY <1>1, <1>11 DEF vars
<1>. QED BY <1>2, <1>3, <1>4, <1>5, <1>6, <1>7, <1>8, <1>9, <1>10, <1>11 DEF Next

-----------------------------------------------------------------------------
\* The observation cache, action by action.
Current(i) ==
    cache[i] # NoEntry =>
        \/ cache[i].by \in late
        \/ Orphaned(i)
        \/ tabOf[i] # None /\ cache[i].doc \in {0, doc[tabOf[i]]}

\* An entry that stays is as current as it was, if nothing it speaks of changes.
LEMMA StaysCurrent ==
    ASSUME NEW i \in Ids, Current(i), cache'[i] = cache[i], late \subseteq late',
           tabOf[i] # None => /\ tabOf'[i] = tabOf[i]
                              /\ attached'[tabOf[i]] = attached[tabOf[i]]
                              /\ doc'[tabOf[i]] = doc[tabOf[i]]
    PROVE  Current(i)'
BY DEF Current, Orphaned

LEMMA AppearsCurrent ==
    ASSUME MapsInv, NEW t \in Tabs, Appears(t), NEW i \in Ids, Current(i)
    PROVE  Current(i)'
<1>. USE Constants
<1>1. AddPage(t) /\ page[t] = "none" /\ UNCHANGED <<cache, late>>
  BY DEF Appears, observeVars
<1>2. idOf[t] = 0 BY <1>1 DEF MapsInv, Introduced
<1>3. tabOf'[i] # tabOf[i] => tabOf[i] = None BY <1>1, Adding
<1>4. tabOf[i] # t BY <1>2 DEF MapsInv, TabMapsAgree
<1>5. \A u \in Tabs : u # t => attached'[u] = attached[u] /\ doc'[u] = doc[u]
  BY DEF Appears, MapsInv, TypeOK
<1>6. tabOf[i] # None => tabOf[i] \in Tabs BY DEF MapsInv, TypeOK
<1>. QED BY <1>1, <1>3, <1>4, <1>5, <1>6, StaysCurrent

LEMMA NewDocumentCurrent ==
    ASSUME MapsInv, NEW t \in Tabs, NewDocument(t), NEW i \in Ids, Current(i)
    PROVE  Current(i)'
<1>. USE Constants
<1>1. /\ UNCHANGED <<tabOf, attached, late>>
      /\ cache' = [cache EXCEPT ![attached[t]] = NoEntry]
      /\ \A u \in Tabs : u # t => doc'[u] = doc[u]
  BY DEF NewDocument, ClearCache, tabVars, observeVars, MapsInv, TypeOK
<1>2. CASE i = attached[t]
  <2>1. cache'[i] = NoEntry BY <1>1, <1>2 DEF MapsInv, TypeOK
  <2>. QED BY <2>1 DEF Current, NoEntry
<1>3. CASE i # attached[t] /\ tabOf[i] = t
  BY <1>1, <1>3 DEF Current, Orphaned
<1>4. CASE i # attached[t] /\ tabOf[i] # t
  <2>1. cache'[i] = cache[i] BY <1>1, <1>4 DEF MapsInv, TypeOK
  <2>2. tabOf[i] # None => tabOf[i] \in Tabs BY DEF MapsInv, TypeOK
  <2>. QED BY <1>1, <1>4, <2>1, <2>2, StaysCurrent
<1>. QED BY <1>2, <1>3, <1>4

LEMMA RemovingCurrent ==
    ASSUME MapsInv, NEW j \in Ids, RemovePage(j), UNCHANGED <<attached, doc, late>>,
           NEW i \in Ids, Current(i)
    PROVE  Current(i)'
<1>1. /\ tabOf'[i] = IF i = j THEN None ELSE tabOf[i]
      /\ cache'[i] = IF i = j THEN NoEntry ELSE cache[i]
  BY Removing
<1>2. CASE i = j
  <2>1. cache'[i] = NoEntry BY <1>1, <1>2
  <2>. QED BY <2>1 DEF Current, NoEntry
<1>3. CASE i # j
  BY <1>1, <1>3, StaysCurrent
<1>. QED BY <1>2, <1>3

LEMMA CachedCurrent ==
    ASSUME MapsInv, NEW o \in Observes, Cached(o), NEW i \in Ids, Current(i)
    PROVE  Current(i)'
<1>. USE Constants
<1>1. /\ observe[o].id \in Ids /\ observe[o].tab \in Tabs
      /\ cache' = [cache EXCEPT ![observe[o].id] = [by |-> o, doc |-> observe[o].doc]]
      /\ late' = IF MovedOn(o) THEN late \cup {o} ELSE late
      /\ UNCHANGED <<tabOf, attached, doc>>
  BY DEF Cached, tabVars, MapsInv, Known
<1>2. CASE i = observe[o].id
  <2>1. cache'[i] = [by |-> o, doc |-> observe[o].doc] BY <1>1, <1>2 DEF MapsInv, TypeOK
  <2>2. CASE MovedOn(o)  BY <1>1, <2>1, <2>2 DEF Current
  <2>3. CASE ~MovedOn(o)
    <3>1. tabOf[i] = observe[o].tab /\ observe[o].doc \in {0, doc[observe[o].tab]}
      BY <1>2, <2>3 DEF MovedOn
    <3>. QED BY <1>1, <2>1, <3>1 DEF Current
  <2>. QED BY <2>2, <2>3
<1>3. CASE i # observe[o].id
  <2>1. cache'[i] = cache[i] BY <1>1, <1>3 DEF MapsInv, TypeOK
  <2>. QED BY <1>1, <2>1, StaysCurrent
<1>. QED BY <1>2, <1>3

CacheInv == \A i \in Ids : Current(i)

LEMMA NextCache == MapsInv /\ CacheInv /\ [Next]_vars => CacheInv'
<1>. USE Constants
<1>. SUFFICES ASSUME MapsInv, CacheInv, [Next]_vars, NEW i \in Ids PROVE Current(i)'
  BY DEF CacheInv
<1>1. Current(i) BY DEF CacheInv
<1>2. ASSUME UNCHANGED <<tabOf, attached, doc, cache, late>> PROVE Current(i)'
  BY <1>1, <1>2, StaysCurrent
<1>3. CASE SessionCloses  BY <1>2, <1>3 DEF SessionCloses, tabVars, observeVars
<1>4. ASSUME NEW c \in Opens, OpenTab(c) \/ NewPageFails(c) PROVE Current(i)'
  BY <1>2, <1>4 DEF OpenTab, NewPageFails, tabVars, observeVars
<1>5. ASSUME NEW c \in Opens, TabMade(c) PROVE Current(i)'
  <2>1. open[c].tab \in Tabs BY <1>5 DEF TabMade, MapsInv, TypeOK, Walk, Opening
  <2>2. tabOf'[i] # tabOf[i] => tabOf[i] = None
    BY <1>5, <2>1, Adding DEF TabMade
  <2>. QED BY <1>1, <1>5, <2>2, StaysCurrent DEF TabMade, observeVars
<1>6. ASSUME NEW t \in Tabs, Appears(t) PROVE Current(i)'
  BY <1>1, <1>6, AppearsCurrent
<1>7. ASSUME NEW t \in Tabs, PageCloses(t) PROVE Current(i)'
  <2>1. attached[t] \in Ids
    BY <1>7 DEF PageCloses, MapsInv, TypeOK, Introduced, Ids
  <2>. QED BY <1>1, <1>7, <2>1, RemovingCurrent DEF PageCloses, observeVars
<1>8. ASSUME NEW t \in Tabs, NewDocument(t) PROVE Current(i)'
  BY <1>1, <1>8, NewDocumentCurrent
<1>9. ASSUME NEW j \in Ids, CloseTab(j) PROVE Current(i)'
  BY <1>1, <1>9, RemovingCurrent DEF CloseTab, observeVars
<1>10. ASSUME NEW o \in Observes, (\E j \in Ids : Observe(o, j)) \/ Walked(o) PROVE Current(i)'
  BY <1>2, <1>10 DEF Observe, Walked, tabVars
<1>11. ASSUME NEW o \in Observes, Cached(o) PROVE Current(i)'
  BY <1>1, <1>11, CachedCurrent
<1>12. CASE UNCHANGED vars  BY <1>2, <1>12 DEF vars, tabVars, observeVars
<1>. QED
  BY <1>3, <1>4, <1>5, <1>6, <1>7, <1>8, <1>9, <1>10, <1>11, <1>12
  DEF Next, TabAppears, PopupAppears

-----------------------------------------------------------------------------
\* Diffs: what was compared does not change, and the page's listeners keep their id.
LEMMA NextDiff ==
    MapsInv /\ CacheInv /\ DiffOfOneDocument /\ [Next]_vars => DiffOfOneDocument'
<1>. USE Constants
<1>. DEFINE Compared(o) ==
        observe[o].at = "done" /\ base[o] # NoEntry /\ 0 \notin {base[o].doc, observe[o].doc} =>
            \/ base[o].doc = observe[o].doc
            \/ o \in late \/ base[o].by \in late
            \/ attached[observe[o].tab] # observe[o].id
<1>. SUFFICES ASSUME MapsInv, CacheInv, DiffOfOneDocument, [Next]_vars, NEW o \in Observes
              PROVE  Compared(o)'
  BY DEF DiffOfOneDocument
<1>1. Compared(o) BY DEF DiffOfOneDocument
<1>2. ASSUME observe'[o] = observe[o], base'[o] = base[o], late \subseteq late',
             \A t \in Tabs : page[t] # "none" => attached'[t] = attached[t]
      PROVE  Compared(o)'
  <2>1. SUFFICES ASSUME observe[o].at = "done" PROVE Compared(o)' BY <1>2
  <2>2. attached'[observe[o].tab] = attached[observe[o].tab]
    BY <1>2, <2>1 DEF MapsInv, Known
  <2>. QED BY <1>1, <1>2, <2>2
<1>3. ASSUME UNCHANGED <<attached, observe, base, late>> PROVE Compared(o)'
  BY <1>1, <1>3
<1>4. ASSUME NEW t \in Tabs, Appears(t) PROVE Compared(o)'
  <2>1. \A u \in Tabs : page[u] # "none" => attached'[u] = attached[u]
    BY <1>4 DEF Appears, MapsInv, TypeOK
  <2>. QED BY <1>2, <1>4, <2>1 DEF Appears, observeVars
<1>5. ASSUME NEW p \in Observes, (\E i \in Ids : Observe(p, i)) \/ Walked(p) PROVE Compared(o)'
  <2>1. UNCHANGED <<attached, base, late>> BY <1>5 DEF Observe, Walked, tabVars
  <2>2. CASE p = o
    <3>1. observe'[o].at # "done" BY <1>5, <2>2 DEF Observe, Walked, MapsInv, TypeOK, Walk, Opening
    <3>. QED BY <3>1
  <2>3. CASE p # o
    <3>1. observe'[o] = observe[o] BY <1>5, <2>3 DEF Observe, Walked, MapsInv, TypeOK
    <3>. QED BY <1>2, <2>1, <3>1
  <2>. QED BY <2>2, <2>3
<1>6. ASSUME NEW p \in Observes, Cached(p), p # o PROVE Compared(o)'
  <2>1. observe'[o] = observe[o] /\ base'[o] = base[o]
    BY <1>6 DEF Cached, MapsInv, TypeOK
  <2>. QED BY <1>2, <1>6, <2>1 DEF Cached, tabVars
<1>7. CASE Cached(o)
  <2>. DEFINE i == observe[o].id
              t == observe[o].tab
  <2>1. i \in Ids /\ t \in Tabs BY <1>7 DEF Cached, MapsInv, Known
  <2>2. /\ observe'[o].id = i /\ observe'[o].tab = t /\ observe'[o].doc = observe[o].doc
        /\ base'[o] = cache[i]
        /\ late' = IF MovedOn(o) THEN late \cup {o} ELSE late
        /\ UNCHANGED attached
    BY <1>7 DEF Cached, tabVars, MapsInv, TypeOK
  <2>3. CASE MovedOn(o)  BY <2>2, <2>3
  <2>4. CASE ~MovedOn(o)
    <3>1. tabOf[i] = t /\ observe[o].doc \in {0, doc[t]} BY <2>4 DEF MovedOn
    <3>2. Current(i) BY <2>1 DEF CacheInv
    <3>. QED BY <2>1, <2>2, <2>4, <3>1, <3>2 DEF Current, Orphaned
  <2>. QED BY <2>3, <2>4
<1>8. ASSUME NEW c \in Opens, OpenTab(c) \/ NewPageFails(c) \/ TabMade(c) PROVE Compared(o)'
  BY <1>3, <1>8 DEF OpenTab, NewPageFails, TabMade, tabVars, observeVars
<1>9. ASSUME NEW t \in Tabs, PageCloses(t) \/ NewDocument(t) PROVE Compared(o)'
  BY <1>3, <1>9 DEF PageCloses, NewDocument, tabVars, observeVars
<1>10. ASSUME NEW i \in Ids, CloseTab(i) PROVE Compared(o)'
  BY <1>3, <1>10 DEF CloseTab, observeVars
<1>11. CASE SessionCloses \/ UNCHANGED vars
  BY <1>3, <1>11 DEF SessionCloses, vars, tabVars, observeVars
<1>. QED
  BY <1>4, <1>5, <1>6, <1>7, <1>8, <1>9, <1>10, <1>11 DEF Next, TabAppears, PopupAppears

\* closeTab() leaves another listed tab, and the list is true.
LEMMA CloseLeavesTab ==
    ASSUME MapsInv, ListIsTrue', NEW i \in Ids, CloseTab(i)
    PROVE  \E j \in Listed' : page'[tabOf'[j]] = "open" \/ attached'[tabOf'[j]] # j
<1>. USE Constants
<1>1. \A j \in Ids : tabOf'[j] = IF j = i THEN None ELSE tabOf[j]
  BY Removing DEF CloseTab
<1>2. PICK j \in Listed : j # i
  <2>1. SUFFICES ASSUME Listed \subseteq {i} PROVE FALSE OBVIOUS
  <2>2. Listed = {i} BY <2>1 DEF CloseTab, Listed
  <2>3. Cardinality(Listed) = 1 BY <2>2, FS_Singleton
  <2>. QED BY <2>3 DEF CloseTab
<1>3. j \in Listed' BY <1>1, <1>2 DEF Listed
<1>. QED BY <1>3 DEF ListIsTrue, Orphaned

-----------------------------------------------------------------------------
PagesInv == MapsInv /\ ListInv /\ CacheInv /\ DiffOfOneDocument

LEMMA Inductive == Spec => []PagesInv
<1>1. Init => PagesInv
  <2>. SUFFICES ASSUME Init PROVE PagesInv OBVIOUS
  <2>1. MapsInv BY InitMaps
  <2>2. ListInv
    BY Constants DEF Init, ListInv, ListIsTrue, OrphansExplained, Listed, Orphaned
  <2>3. CacheInv /\ DiffOfOneDocument
    BY DEF Init, CacheInv, Current, DiffOfOneDocument, NoObserve
  <2>. QED BY <2>1, <2>2, <2>3 DEF PagesInv
<1>2. PagesInv /\ [Next]_vars => PagesInv'
  BY NextMaps, NextList, NextCache, NextDiff DEF PagesInv
<1>. QED BY <1>1, <1>2, PTL DEF Spec

\* Every variable keeps its type, for every number of pages, requests and ids.
THEOREM PagesTyping == Spec => []TypeOK
<1>1. PagesInv => TypeOK BY DEF PagesInv, MapsInv
<1>. QED BY <1>1, Inductive, PTL

\* The two page maps of a session are inverse to each other, whoever writes them.
THEOREM MapsAgree == Spec => []TabMapsAgree
<1>1. PagesInv => TabMapsAgree BY DEF PagesInv, MapsInv
<1>. QED BY <1>1, Inductive, PTL

\* The list of tabs shows the open pages that closeTab() was not asked to close,
\* and pages that are gone only if they are orphans.
THEOREM ListTruth == Spec => []ListIsTrue
<1>1. PagesInv => ListIsTrue BY DEF PagesInv, ListInv
<1>. QED BY <1>1, Inductive, PTL

\* Orphans are the first page, closed during launch(), and pages that openTab()
\* listed after they had been removed.
THEOREM Orphans == Spec => []OrphansExplained
<1>1. PagesInv => OrphansExplained BY DEF PagesInv, ListInv
<1>. QED BY <1>1, Inductive, PTL

\* The page maps agree, and the list is true but for the two kinds of orphan.
THEOREM TabsTracked == Spec => []TabsAreTracked
<1>1. TabMapsAgree /\ ListIsTrue /\ OrphansExplained => TabsAreTracked
  BY DEF TabsAreTracked
<1>. QED BY <1>1, MapsAgree, ListTruth, Orphans, PTL

\* The cache speaks of the present document of a listed page, unless it was
\* written by an observe whose page had moved on, or the page is an orphan.
THEOREM CacheCurrent == Spec => []CacheIsCurrent
<1>1. PagesInv => CacheIsCurrent BY DEF PagesInv, CacheInv, Current, CacheIsCurrent
<1>. QED BY <1>1, Inductive, PTL

\* With the same exceptions, a diff compares two observations of one document.
THEOREM DiffSound == Spec => []DiffOfOneDocument
<1>1. PagesInv => DiffOfOneDocument BY DEF PagesInv
<1>. QED BY <1>1, Inductive, PTL

\* Cache and diffs speak of one document, with those exceptions.
THEOREM ObservationsCurrent == Spec => []ObservationsAreCurrent
<1>1. CacheIsCurrent /\ DiffOfOneDocument => ObservationsAreCurrent
  BY DEF ObservationsAreCurrent
<1>. QED BY <1>1, CacheCurrent, DiffSound, PTL

\* closeTab() leaves an open tab listed, unless an orphan deceives it.
THEOREM LastTab == Spec => LastTabStays
<1>. DEFINE Left == closing' # closing =>
        \E i \in Listed' : page'[tabOf'[i]] = "open" \/ attached'[tabOf'[i]] # i
<1>1. PagesInv /\ PagesInv' /\ [Next]_vars => [Left]_vars
  <2>1. SUFFICES ASSUME PagesInv, PagesInv', Next, closing' # closing
                 PROVE  \E i \in Listed' : page'[tabOf'[i]] = "open" \/ attached'[tabOf'[i]] # i
    OBVIOUS
  <2>2. PICK i \in Ids : CloseTab(i)
    BY <2>1 DEF Next, SessionCloses, OpenTab, NewPageFails, TabMade, TabAppears, PopupAppears,
                Appears, PageCloses, NewDocument, Observe, Walked, Cached, tabVars, observeVars
  <2>. QED BY <2>1, <2>2, CloseLeavesTab DEF PagesInv, ListInv
<1>. QED BY <1>1, Inductive, PTL DEF Spec, LastTabStays
=============================================================================
