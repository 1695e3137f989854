------------------------------- MODULE Pages -------------------------------
(***************************************************************************)
(* The tabs of one session (src/src/sessions/session.ts), the page         *)
(* listeners that keep them in step with the browser (manager.ts), and the *)
(* observation cache that observe.ts writes.                               *)
(*                                                                         *)
(* A tab has two entries, id to page and page to id.  They are written by  *)
(* the context's "page" listener, by openTab() once newPage() has resolved,*)
(* by closeTab() before it awaits page.close(), and by the page's own      *)
(* "close" listener, in whatever order the browser brings about.  An       *)
(* observation walks the page over awaits and is cached at the end,        *)
(* whatever has become of the page meanwhile.                              *)
(***************************************************************************)
EXTENDS Integers, FiniteSets

CONSTANTS Tabs,      \* pages of the browser
          First,     \* the one that is there at launch
          Opens,     \* openTab requests
          Observes,  \* observe requests
          None,      \* not a tab, not an observe request
          MaxIds,    \* bound: page ids handed out
          MaxDocs    \* bound: documents loaded by a page

ASSUME PagesAssumption ==
    /\ First \in Tabs
    /\ None \notin Tabs \cup Observes
    /\ MaxIds \in Nat \ {0}
    /\ MaxDocs \in Nat \ {0}

VARIABLES running,    \* is the session's state "running"
          page,       \* what a page is to Playwright
          doc,        \* the document it shows
          tabOf,      \* _pages
          idOf,       \* _pageIds, 0 if it has none
          count,      \* page ids handed out
          attached,   \* the id the listeners of a page were given
          closing,    \* pages that closeTab() has been asked to close
          open,       \* where an openTab is, and the page made for it
          cache,      \* _observeCache: who observed, and which document
          observe,    \* where an observe is, its page, and the document it walked
          base,       \* the cached observation its diff was computed against
          late        \* history: observes cached for a page that had moved on

tabVars == <<page, tabOf, idOf, count, attached, closing>>
observeVars == <<observe, base, late>>
vars == <<running, doc, tabVars, open, cache, observeVars>>

Ids == 1..MaxIds
NoEntry == [by |-> None, doc |-> 0]      \* a walk that found nothing has document 0
NoObserve == [at |-> "idle", id |-> 0, tab |-> None, doc |-> 0]

Listed == {i \in Ids : tabOf[i] # None}

\* launch() has just registered the session.  setContext() listed the first
\* page; the listeners came later, after awaits if the browser is headed or
\* debugged, and a page that closed in between has none.
Init ==
    /\ running = TRUE
    /\ \E first \in {"open", "gone"} :
          /\ page = [t \in Tabs |-> IF t = First THEN first ELSE "none"]
          /\ attached = [t \in Tabs |-> IF t = First /\ first = "open" THEN 1 ELSE 0]
    /\ doc = [t \in Tabs |-> IF t = First THEN 1 ELSE 0]
    /\ tabOf = [i \in Ids |-> IF i = 1 THEN First ELSE None]
    /\ idOf = [t \in Tabs |-> IF t = First THEN 1 ELSE 0]
    /\ count = 1
    /\ closing = {}
    /\ open = [c \in Opens |-> [at |-> "idle", tab |-> None]]
    /\ cache = [i \in Ids |-> NoEntry]
    /\ observe = [o \in Observes |-> NoObserve]
    /\ base = [o \in Observes |-> NoEntry]
    /\ late = {}

(***************************************************************************)
(* The page maps.                                                          *)
(***************************************************************************)
\* addPage: a page that has an id keeps it.
AddPage(t) ==
    \/ idOf[t] # 0 /\ UNCHANGED <<count, tabOf, idOf>>
    \/ /\ idOf[t] = 0
       /\ count < MaxIds
       /\ count' = count + 1
       /\ tabOf' = [tabOf EXCEPT ![count + 1] = t]
       /\ idOf' = [idOf EXCEPT ![t] = count + 1]

ClearCache(i) == cache' = [cache EXCEPT ![i] = NoEntry]

\* removePage: nothing but the cache is touched if the id is not listed.
RemovePage(i) ==
    /\ ClearCache(i)
    /\ tabOf' = [tabOf EXCEPT ![i] = None]
    /\ idOf' = [t \in Tabs |-> IF tabOf[i] = t THEN 0 ELSE idOf[t]]

(***************************************************************************)
(* Tabs.                                                                   *)
(***************************************************************************)
OpenTab(c) ==
    /\ running
    /\ open[c].at = "idle"
    /\ open' = [open EXCEPT ![c].at = "asked"]
    /\ UNCHANGED <<running, doc, tabVars, cache, observeVars>>

\* Defective variant: the new page gets no listeners.
AppearsUnheard(t) ==
    /\ page[t] = "none"
    /\ page' = [page EXCEPT ![t] = "open"]
    /\ doc' = [doc EXCEPT ![t] = 1]
    /\ AddPage(t)
    /\ UNCHANGED <<running, attached, closing, cache, observeVars>>

\* The browser has a new page: the "page" listener lists it and attaches the
\* listeners under the id it got.
Appears(t) ==
    /\ page[t] = "none"
    /\ page' = [page EXCEPT ![t] = "open"]
    /\ doc' = [doc EXCEPT ![t] = 1]
    /\ AddPage(t)
    /\ attached' = [attached EXCEPT ![t] = count + 1]
    /\ UNCHANGED <<running, closing, cache, observeVars>>

\* A popup, or a tab the human opened.
PopupAppears(t) == Appears(t) /\ UNCHANGED open

\* newPage() makes the page of an openTab ...
TabAppears(c, t) ==
    /\ open[c].at = "asked"
    /\ Appears(t)
    /\ open' = [open EXCEPT ![c] = [at |-> "made", tab |-> t]]

\* ... or fails, with the context.
NewPageFails(c) ==
    /\ open[c].at = "asked"
    /\ open' = [open EXCEPT ![c].at = "failed"]
    /\ UNCHANGED <<running, doc, tabVars, cache, observeVars>>

\* ... and when newPage() has resolved openTab() lists it, to be sure.
TabMade(c) ==
    /\ open[c].at = "made"
    /\ AddPage(open[c].tab)
    /\ open' = [open EXCEPT ![c].at = "done"]
    /\ UNCHANGED <<running, doc, page, attached, closing, cache, observeVars>>

\* closeTab, up to page.close(), which may fail or never settle.
CloseTab(i) ==
    /\ tabOf[i] # None
    /\ Cardinality(Listed) > 1
    /\ RemovePage(i)
    /\ closing' = closing \cup {tabOf[i]}
    /\ UNCHANGED <<running, doc, page, count, attached, open, observeVars>>

\* A page closes, for whatever reason: the "close" listener removes its id.
PageCloses(t) ==
    /\ page[t] = "open"
    /\ page' = [page EXCEPT ![t] = "gone"]
    /\ RemovePage(attached[t])
    /\ UNCHANGED <<running, doc, count, attached, closing, open, observeVars>>

\* close() or DELETE: no more tabs are opened.
SessionCloses ==
    /\ running
    /\ running' = FALSE
    /\ UNCHANGED <<doc, tabVars, open, cache, observeVars>>

\* The main frame of a page shows a new document: the "framenavigated" listener
\* clears the cache of the id it was given.
NewDocument(t) ==
    /\ page[t] = "open"
    /\ doc[t] < MaxDocs
    /\ doc' = [doc EXCEPT ![t] = doc[t] + 1]
    /\ ClearCache(attached[t])
    /\ UNCHANGED <<running, tabVars, open, observeVars>>

(***************************************************************************)
(* Observe.                                                                *)
(***************************************************************************)
Observe(o, i) ==
    /\ observe[o].at = "idle"
    /\ tabOf[i] # None
    /\ observe' = [observe EXCEPT ![o] = [at |-> "walking", id |-> i, tab |-> tabOf[i], doc |-> 0]]
    /\ UNCHANGED <<running, doc, tabVars, open, cache, base, late>>

\* The walk has read the document, or has found nothing: an error in a frame is
\* swallowed.  What follows awaits only frames and handles.
Walked(o) ==
    /\ observe[o].at = "walking"
    /\ \E seen \in {0, doc[observe[o].tab]} :
          /\ seen # 0 => page[observe[o].tab] = "open"
          /\ observe' = [observe EXCEPT ![o].at = "walked", ![o].doc = seen]
    /\ UNCHANGED <<running, doc, tabVars, open, cache, base, late>>

MovedOn(o) ==
    \/ tabOf[observe[o].id] # observe[o].tab
    \/ observe[o].doc \notin {0, doc[observe[o].tab]}

\* Defective variant: the diff is against what was cached by somebody before.
CachedOver(o) ==
    /\ observe[o].at = "walked"
    /\ observe' = [observe EXCEPT ![o].at = "done"]
    /\ \E i \in Ids : base' = [base EXCEPT ![o] = cache[i]]
    /\ cache' = [cache EXCEPT ![observe[o].id] = [by |-> o, doc |-> observe[o].doc]]
    /\ late' = IF MovedOn(o) THEN late \cup {o} ELSE late
    /\ UNCHANGED <<running, doc, tabVars, open>>

\* The diff is computed against the cached observation, which is replaced.
Cached(o) ==
    /\ observe[o].at = "walked"
    /\ observe' = [observe EXCEPT ![o].at = "done"]
    /\ base' = [base EXCEPT ![o] = cache[observe[o].id]]
    /\ cache' = [cache EXCEPT ![observe[o].id] = [by |-> o, doc |-> observe[o].doc]]
    /\ late' = IF MovedOn(o) THEN late \cup {o} ELSE late
    /\ UNCHANGED <<running, doc, tabVars, open>>

Next ==
    \/ SessionCloses
    \/ \E c \in Opens :
          \/ OpenTab(c) \/ NewPageFails(c) \/ TabMade(c)
          \/ \E t \in Tabs : TabAppears(c, t)
    \/ \E t \in Tabs : PopupAppears(t) \/ PageCloses(t) \/ NewDocument(t)
    \/ \E i \in Ids : CloseTab(i)
    \/ \E o \in Observes : (\E i \in Ids : Observe(o, i)) \/ Walked(o) \/ Cached(o)

Spec == Init /\ [][Next]_vars

(***************************************************************************)
(* Properties.                                                             *)
(***************************************************************************)
Entry == [by : Observes \cup {None}, doc : 0..MaxDocs]
Walk == [at : {"idle", "walking", "walked", "done"}, id : 0..MaxIds,
         tab : Tabs \cup {None}, doc : 0..MaxDocs]
Opening == [at : {"idle", "asked", "made", "done", "failed"}, tab : Tabs \cup {None}]

\* Every variable keeps its type, and an openTab has a page once newPage() made it.
TypeOK ==
    /\ running \in BOOLEAN
    /\ page \in [Tabs -> {"none", "open", "gone"}]
    /\ doc \in [Tabs -> 0..MaxDocs]
    /\ tabOf \in [Ids -> Tabs \cup {None}]
    /\ idOf \in [Tabs -> 0..MaxIds]
    /\ count \in Ids
    /\ attached \in [Tabs -> 0..MaxIds]
    /\ closing \subseteq Tabs
    /\ open \in [Opens -> Opening]
    /\ \A c \in Opens : open[c].tab # None <=> open[c].at \in {"made", "done"}
    /\ cache \in [Ids -> Entry]
    /\ observe \in [Observes -> Walk]
    /\ base \in [Observes -> Entry]
    /\ late \subseteq Observes

\* Each page map is the inverse of the other, in whatever order listeners,
\* openTab() and closeTab() write them.
TabMapsAgree == \A i \in Ids, t \in Tabs : tabOf[i] = t <=> idOf[t] = i

\* A page listed under an id that no listener of it knows.
Orphaned(i) == tabOf[i] # None /\ attached[tabOf[i]] # i

\* The list of tabs is the truth: an open page is listed unless closeTab() was
\* asked to close it, and a page that is gone is not listed, unless orphaned.
ListIsTrue ==
    /\ \A t \in Tabs : page[t] = "open" => idOf[t] # 0 \/ t \in closing
    /\ \A i \in Listed : page[tabOf[i]] = "open" \/ Orphaned(i)

\* An orphan is the first page, gone while launch() was on its way to the
\* listeners, or the page of an openTab() that listed it again: it had been
\* removed by its listener or by closeTab() before newPage() resolved.
OrphansExplained ==
    \A i \in Listed : Orphaned(i) =>
        \/ i = 1 /\ tabOf[i] = First
        \/ \E c \in Opens : open[c] = [at |-> "done", tab |-> tabOf[i]]

\* closeTab() does not take away the last tab ("closing the last tab is
\* refused"): an open one stays listed, unless an orphan deceives it.
LastTabStays ==
    [][closing' # closing =>
          \E i \in Listed' : page'[tabOf'[i]] = "open" \/ attached'[tabOf'[i]] # i]_vars

\* What the cache holds for an id is of a listed page and its present document
\* ("refs are always scoped to the current page state"), unless it was written
\* by an observe whose page had moved on, or for an orphan.
CacheIsCurrent ==
    \A i \in Ids : cache[i] # NoEntry =>
        \/ cache[i].by \in late
        \/ Orphaned(i)
        \/ tabOf[i] # None /\ cache[i].doc \in {0, doc[tabOf[i]]}

\* A diff compares two observations of one document ("null on the first observe
\* after navigation"), unless one of them was late or found nothing, or the page
\* was orphaned.
DiffOfOneDocument ==
    \A o \in Observes :
        observe[o].at = "done" /\ base[o] # NoEntry /\ 0 \notin {base[o].doc, observe[o].doc} =>
            \/ base[o].doc = observe[o].doc
            \/ o \in late \/ base[o].by \in late
            \/ attached[observe[o].tab] # observe[o].id

\* The maps agree with each other and the list with the browser, but for the
\* two kinds of orphan.
TabsAreTracked == TabMapsAgree /\ ListIsTrue /\ OrphansExplained

\* What observe() keeps and compares is of one document, but for late observes
\* and orphans.
ObservationsAreCurrent == CacheIsCurrent /\ DiffOfOneDocument
=============================================================================
