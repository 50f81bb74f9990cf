------------------------------ MODULE MCEventList ------------------------------
(* The search box of EventList with what its user has last asked for. *)
EXTENDS EventList

VARIABLE typed      \* the text the user typed last; "" after a reset or a visit

SearchInit == Init /\ typed = ""

SearchNext ==
    /\ Next
    /\ typed' = IF \E text \in Texts : Type(text) THEN localSearch'
                ELSE IF Reset \/ Leave THEN "" ELSE typed

SearchSpec == SearchInit /\ [][SearchNext]_<<vars, typed>> /\ Fairness

\* A text that is typed becomes the query of the store once the debounce is
\* over, unless the user types another, resets the filters or leaves: the search
\* query of EventFilters, debounced by useDebounce.
SearchApplies ==
    \A text \in Words : typed = text ~> (searchQuery = text \/ typed # text)
=============================================================================
