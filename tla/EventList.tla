------------------------------- MODULE EventList -------------------------------
(***************************************************************************)
(* The list of the event page: the event store with its filters, the       *)
(* search box of EventFilters with its two effects and its debounce, the   *)
(* buttons of the page and the dialog of EventStream.                      *)
(*                                                                         *)
(* The store lives as long as the tab, the rest as long as the page.  A    *)
(* render and the effects after it follow a user's event at once: timers   *)
(* and other events wait for them (Quiet).                                 *)
(***************************************************************************)
EXTENDS Integers, Sequences, FiniteSets

CONSTANTS MAX_EVENTS,     \* length of the list (1000)
          Tables,         \* table names, "" for an event that has none
          Operations,     \* operations, "" for an event that has none
          Words           \* what the user searches for

NoText == "no timer"
ListAssumption == MAX_EVENTS \in Nat /\ {"", NoText} \cap Words = {}

Texts == Words \cup {""}
Events == [table : Tables, operation : Operations]

VARIABLES
    events,         \* the list, newest first
    isPaused,
    tables,         \* filters.tables, their order left out
    operations,     \* filters.operations
    searchQuery,    \* filters.searchQuery
    visited,        \* "yes" while the page is mounted
    localSearch,    \* what the search box holds
    debounced,      \* debouncedSearch
    timer,          \* the text the timer of useDebounce will deliver
    selectedEvent,  \* the event of the dialog, as a set of one; {} for null
    modalOpen

filterVars == <<tables, operations, searchQuery>>
searchVars == <<localSearch, debounced, timer>>
dialogVars == <<selectedEvent, modalOpen>>
vars == <<events, isPaused, filterVars, visited, searchVars, dialogVars>>

Init ==
    /\ events = <<>> /\ isPaused = FALSE
    /\ tables = {} /\ operations = {} /\ searchQuery = ""
    /\ visited = "no"
    /\ localSearch = "" /\ debounced = "" /\ timer = NoText
    /\ selectedEvent = {} /\ modalOpen = FALSE

-----------------------------------------------------------------------------
(* What the page computes from the store.                                  *)

\* The query is the text of nothing but a table or an operation here.
Contains(e, query) == query = "" \/ query \in {e.table, e.operation}

Passes(e) ==
    /\ tables = {} \/ e.table \in tables
    /\ operations = {} \/ e.operation \in operations
    /\ Contains(e, searchQuery)

filteredEvents == SelectSeq(events, Passes)

Listed == {events[i] : i \in DOMAIN events}
uniqueTables == {e.table : e \in Listed} \ {""}
uniqueOperations == {e.operation : e \in Listed} \ {""}

hasFilters == tables # {} \/ operations # {} \/ searchQuery # ""

\* With an empty list EventStream renders no dialog, though its state stays.
DialogShown == visited = "yes" /\ modalOpen /\ filteredEvents # <<>>

EffectsDue == debounced # searchQuery \/ localSearch # searchQuery
Quiet == visited = "no" \/ ~EffectsDue

\* The dialog is modal: it keeps the user from the page behind it.
UserActs == visited = "yes" /\ Quiet /\ ~DialogShown

-----------------------------------------------------------------------------
(* The store                                                               *)

\* Mutant: the list is cut before the event is added.
AddEventUncut(e) ==
    /\ Quiet /\ ~isPaused
    /\ events' = <<e>> \o events /\ Len(events) <= MAX_EVENTS
    /\ UNCHANGED <<isPaused, filterVars, visited, searchVars, dialogVars>>

\* addEvent, of a page that may have been left.
AddEvent(e) ==
    /\ Quiet /\ ~isPaused
    /\ events' = SubSeq(<<e>> \o events, 1,
                        IF Len(events) < MAX_EVENTS THEN Len(events) + 1 ELSE MAX_EVENTS)
    /\ UNCHANGED <<isPaused, filterVars, visited, searchVars, dialogVars>>

ClearEvents ==
    /\ UserActs
    /\ events' = <<>>
    /\ UNCHANGED <<isPaused, filterVars, visited, searchVars, dialogVars>>

TogglePause ==
    /\ UserActs
    /\ isPaused' = ~isPaused
    /\ UNCHANGED <<events, filterVars, visited, searchVars, dialogVars>>

FilterTables(S) ==
    /\ UserActs
    /\ tables' = S
    /\ UNCHANGED <<events, isPaused, operations, searchQuery, visited, searchVars, dialogVars>>

FilterOperations(S) ==
    /\ UserActs
    /\ operations' = S
    /\ UNCHANGED <<events, isPaused, tables, searchQuery, visited, searchVars, dialogVars>>

\* The selects offer what the list holds and is not chosen, the badges what is.
AddTable(t) == t \in uniqueTables \ tables /\ FilterTables(tables \cup {t})
RemoveTable(t) == t \in tables /\ FilterTables(tables \ {t})
AddOperation(o) == o \in uniqueOperations \ operations /\ FilterOperations(operations \cup {o})
RemoveOperation(o) == o \in operations /\ FilterOperations(operations \ {o})

\* resetFilters, by the button that is there when hasFilters.
Reset ==
    /\ UserActs /\ hasFilters
    /\ tables' = {} /\ operations' = {} /\ searchQuery' = ""
    /\ UNCHANGED <<events, isPaused, visited, searchVars, dialogVars>>

-----------------------------------------------------------------------------
(* The search box                                                          *)

Type(text) ==
    /\ UserActs /\ text # localSearch
    /\ localSearch' = text /\ timer' = text
    /\ UNCHANGED <<events, isPaused, filterVars, visited, debounced, dialogVars>>

\* Mutant: the effect hands up what is typed, without the debounce.
EffectsSwap ==
    /\ visited = "yes" /\ EffectsDue
    /\ searchQuery' = localSearch
    /\ localSearch' = searchQuery
    /\ timer' = IF localSearch' # localSearch THEN localSearch' ELSE timer
    /\ UNCHANGED <<events, isPaused, tables, operations, visited, debounced, dialogVars>>

\* The value of searchQuery a render passed down decides both effects: the one
\* that hands the debounced text up and the one that takes the query back down.
\* The effect of useDebounce sets its timer anew for every other text.
Effects ==
    /\ visited = "yes" /\ EffectsDue
    /\ searchQuery' = debounced
    /\ localSearch' = searchQuery
    /\ timer' = IF localSearch' # localSearch THEN localSearch' ELSE timer
    /\ UNCHANGED <<events, isPaused, tables, operations, visited, debounced, dialogVars>>

Debounce ==
    /\ visited = "yes" /\ Quiet /\ timer # NoText
    /\ debounced' = timer /\ timer' = NoText
    /\ UNCHANGED <<events, isPaused, filterVars, visited, localSearch, dialogVars>>

-----------------------------------------------------------------------------
(* The page and its dialog                                                 *)

Enter ==
    /\ visited = "no"
    /\ visited' = "yes"
    /\ localSearch' = searchQuery /\ debounced' = searchQuery /\ timer' = searchQuery
    /\ UNCHANGED <<events, isPaused, filterVars, dialogVars>>

Leave ==
    /\ UserActs
    /\ visited' = "no"
    /\ localSearch' = "" /\ debounced' = "" /\ timer' = NoText
    /\ selectedEvent' = {} /\ modalOpen' = FALSE
    /\ UNCHANGED <<events, isPaused, filterVars>>

\* handleEventClick
Click(e) ==
    /\ UserActs
    /\ \E i \in DOMAIN filteredEvents : filteredEvents[i] = e
    /\ selectedEvent' = {e} /\ modalOpen' = TRUE
    /\ UNCHANGED <<events, isPaused, filterVars, visited, searchVars>>

CloseDialog ==
    /\ DialogShown /\ Quiet
    /\ modalOpen' = FALSE
    /\ UNCHANGED <<events, isPaused, filterVars, visited, searchVars, selectedEvent>>

-----------------------------------------------------------------------------
Next ==
    \/ \E e \in Events : AddEvent(e) \/ Click(e)
    \/ \E t \in Tables : AddTable(t) \/ RemoveTable(t)
    \/ \E o \in Operations : AddOperation(o) \/ RemoveOperation(o)
    \/ \E text \in Texts : Type(text)
    \/ ClearEvents \/ TogglePause \/ Reset
    \/ Effects \/ Debounce
    \/ Enter \/ Leave \/ CloseDialog

(* React runs the effects of a render and the browser its timers.          *)
Fairness == WF_vars(Effects) /\ WF_vars(Debounce)

Spec == Init /\ [][Next]_vars /\ Fairness

-----------------------------------------------------------------------------
(* The values of the variables; the list never outgrows MAX_EVENTS and an  *)
(* event without a table or an operation never becomes a filter.           *)
TypeOK ==
    /\ events \in Seq(Events) /\ Len(events) <= MAX_EVENTS
    /\ tables \subseteq Tables \ {""} /\ operations \subseteq Operations \ {""}
    /\ {searchQuery, localSearch, debounced} \subseteq Texts
    /\ timer \in Texts \cup {NoText}
    /\ selectedEvent \in {{}} \cup {{e} : e \in Events}
    /\ isPaused \in BOOLEAN /\ modalOpen \in BOOLEAN /\ visited \in {"yes", "no"}

(* The two effects that copy the text up and the query down do not go on   *)
(* undoing each other: the box, its debounced text and the query of the    *)
(* store agree again whatever the user types and resets.                   *)
SearchSettles == []<>~EffectsDue

=============================================================================
