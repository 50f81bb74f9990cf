------------------------------- MODULE JobPaging -------------------------------
(***************************************************************************)
(* The pages of the list of jobs: the filter and the page number the list  *)
(* keeps, the answers the queries keep for each pair of them, and what the *)
(* table makes of one, against a server whose jobs change meanwhile.       *)
(***************************************************************************)
EXTENDS Integers, FiniteSets

CONSTANTS PAGE_SIZE,      \* page_size (20)
          Kinds,          \* statuses of jobs
          Rows,           \* places for jobs: a bound of the jobs at a time
          MaxChanges      \* bound: changes of the jobs

PagingAssumption == PAGE_SIZE \in Nat \ {0} /\ IsFiniteSet(Rows) /\ {"all", "none"} \cap Kinds = {}

VARIABLES
    rows,           \* per place: the status of its job, "none" where there is no job
    changes,        \* creations, deletions and changes of status so far
    statusFilter,   \* "all" or a status
    pageNo,         \* page
    cache,          \* per filter and page: the answer last loaded, as a set of at most one,
                    \* with the number of its items in their place
    \* history
    fresh,          \* the answers loaded since a job was last deleted or changed its status
    reached         \* "next" while the page is the one a button of a fresh answer has led to
                    \* and no job was deleted or changed since, else "other"

vars == <<rows, changes, statusFilter, pageNo, cache, fresh, reached>>

Filters == Kinds \cup {"all"}
Pages(total) == (total + PAGE_SIZE - 1) \div PAGE_SIZE
MaxPages == Pages(Cardinality(Rows))
Keys == Filters \X (1..(MaxPages + 1))

Init ==
    /\ rows = [i \in Rows |-> "none"] /\ changes = 0
    /\ statusFilter = "all" /\ pageNo = 1
    /\ cache = [k \in Keys |-> {}]
    /\ fresh = {} /\ reached = "other"

-----------------------------------------------------------------------------
(* The server                                                              *)

Matching(filter) == {i \in Rows : rows[i] = filter \/ (filter = "all" /\ rows[i] # "none")}

\* list_jobs of the service and of the route: of the jobs that match, those the
\* offset and the limit leave.
list_jobs(filter, n) ==
    LET total == Cardinality(Matching(filter))
        offset == (n - 1) * PAGE_SIZE
    IN  [items |-> Cardinality({k \in 1..total : offset < k /\ k <= offset + PAGE_SIZE}),
         total |-> total,
         pages |-> Pages(total)]

Change(i, kind) ==
    /\ changes < MaxChanges
    /\ changes' = changes + 1
    /\ rows' = [rows EXCEPT ![i] = kind]
    /\ UNCHANGED <<statusFilter, pageNo, cache>>

Create(i) ==
    /\ rows[i] = "none"
    /\ \E kind \in Kinds : Change(i, kind)
    /\ UNCHANGED <<fresh, reached>>
Delete(i) ==
    /\ rows[i] # "none"
    /\ Change(i, "none")
    /\ fresh' = {} /\ reached' = "other"
Move(i) ==
    /\ rows[i] # "none"
    /\ \E kind \in Kinds \ {rows[i]} : Change(i, kind)
    /\ fresh' = {} /\ reached' = "other"

-----------------------------------------------------------------------------
(* The list                                                                *)

Key == <<statusFilter, pageNo>>
Data == CHOOSE d \in cache[Key] : TRUE
Loaded == cache[Key] # {}

\* A load, a poll or the Refresh button.
Load ==
    /\ LET answer == list_jobs(statusFilter, pageNo)
       IN  cache' = [cache EXCEPT ![Key] = {answer}]
    /\ fresh' = fresh \cup {Key}
    /\ UNCHANGED <<rows, changes, statusFilter, pageNo, reached>>

\* setStatusFilter leaves the page as it is.
SetFilter(filter) ==
    /\ filter # statusFilter
    /\ statusFilter' = filter
    /\ reached' = "other"
    /\ UNCHANGED <<rows, changes, pageNo, cache, fresh>>

\* The buttons stand below a table that has rows.
TurnTo(n) ==
    /\ Loaded /\ Data.items > 0 /\ Data.pages > 1
    /\ pageNo' = n
    /\ reached' = IF Key \in fresh THEN "next" ELSE "other"
    /\ UNCHANGED <<rows, changes, statusFilter, cache, fresh>>

Previous == pageNo > 1 /\ TurnTo(pageNo - 1)

\* Mutant: the button is there on the last page too.
NextAlways == Loaded /\ pageNo <= Data.pages /\ TurnTo(pageNo + 1)

NextPage == Loaded /\ pageNo < Data.pages /\ TurnTo(pageNo + 1)

\* The list is left and opened again; the queries have kept their answers or not.
Reopen ==
    /\ statusFilter' = "all" /\ pageNo' = 1 /\ reached' = "other"
    /\ \/ UNCHANGED <<cache, fresh>>
       \/ cache' = [k \in Keys |-> {}] /\ fresh' = {}
    /\ UNCHANGED <<rows, changes>>

Next ==
    \/ \E i \in Rows : Create(i) \/ Delete(i) \/ Move(i)
    \/ Load \/ \E filter \in Filters : SetFilter(filter)
    \/ Previous \/ NextPage \/ Reopen

Spec == Init /\ [][Next]_vars

-----------------------------------------------------------------------------
\* "No jobs found", without the buttons that would lead back.
Stranded == Loaded /\ Data.items = 0 /\ Data.total > 0

(* The buttons of a fresh answer lead to no page that comes out empty, nor *)
(* do jobs created meanwhile make it so.  A later page does when the       *)
(* filter is changed on it, or when jobs are deleted or change their       *)
(* status, the answer the buttons stand on being older than that or not:   *)
(* the list says then that there are no jobs and shows no way back.        *)
ButtonsLeadSomewhere ==
    [][reached' = "next" /\ pageNo' = pageNo /\ cache' # cache => ~Stranded']_vars
=============================================================================
