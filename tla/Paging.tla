------------------------------- MODULE Paging -------------------------------
(***************************************************************************)
(* Walking a Work Queue page with "Show more" (internal/tablesort,         *)
(* reports.ListBucketFiltered, web.handleQueueBucket) while the worker     *)
(* moves rows in and out of the bucket and restamps the column the walk is *)
(* sorted by.  Each page is one query that starts strictly after the last  *)
(* row of the page before it; nothing is kept between two requests but the *)
(* cursor in the link.                                                     *)
(***************************************************************************)
EXTENDS Integers, FiniteSets

CONSTANTS
    Ids,          \* row ids, positive integers
    Vals,         \* sort values, positive integers
    TooLong,      \* the values whose encoded cursor exceeds MaxCursorBytes
    PageSize,     \* queuePageSize
    MaxChanges    \* bound on the rows that change during a walk

VARIABLES
    order,     \* the walk's sort: "asc", "desc", or "id" for none
    val,       \* each row's sort value, Null when the column is NULL
    member,    \* the rows the bucket and its filter hold now
    cursor,    \* the link's cursor: the last row's id and value, or the top
    more,      \* the page offered a next page
    times,     \* how often each row was listed by this walk
    steady,    \* rows that stayed in the bucket under an unchanged value
    changes

vars == <<order, val, member, cursor, more, times, steady, changes>>

Null == 0
Top == [id |-> 0, v |-> Null]

TypeOK ==
    /\ order \in {"asc", "desc", "id"}
    /\ val \in [Ids -> Vals \cup {Null}]
    /\ member \subseteq Ids
    /\ cursor \in [id : Ids \cup {0}, v : Vals \cup {Null}]
    /\ more \in {"yes", "no", "cut"}
    /\ times \in [Ids -> Nat]
    /\ steady \subseteq member
    /\ changes \in 0..MaxChanges

Init ==
    /\ order \in {"asc", "desc", "id"}
    /\ val \in [Ids -> Vals \cup {Null}]
    /\ member \in SUBSET Ids
    /\ cursor = Top
    /\ more = "yes"
    /\ times = [i \in Ids |-> 0]
    /\ steady = member
    /\ changes = 0

Further(a, b) == IF order = "desc" THEN a < b ELSE a > b

(* ORDER BY: NULLs last in both directions, then the value, then the id.     *)
OrderBy(i, j) ==
    \/ order = "id" /\ i < j
    \/ /\ order # "id"
       /\ \/ val[i] # Null /\ val[j] = Null
          \/ val[i] # Null /\ val[j] # Null /\ Further(val[j], val[i])
          \/ val[i] = val[j] /\ Further(j, i)

(* Mutants: a cursor inside the values never reaches the NULL rows; ties are *)
(* cut on the value alone.                                                  *)
KeysetNoNulls(i) ==
    \/ cursor.id = 0
    \/ order = "id" /\ i > cursor.id
    \/ /\ order # "id" /\ cursor.v = Null
       /\ val[i] = Null /\ Further(i, cursor.id)
    \/ /\ order # "id" /\ cursor.v # Null /\ val[i] # Null
       /\ \/ Further(val[i], cursor.v)
          \/ val[i] = cursor.v /\ Further(i, cursor.id)
KeysetTies(i) ==
    \/ cursor.id = 0
    \/ order = "id" /\ i > cursor.id
    \/ /\ order # "id" /\ cursor.v = Null
       /\ val[i] = Null /\ Further(i, cursor.id)
    \/ /\ order # "id" /\ cursor.v # Null
       /\ \/ val[i] # Null /\ ~Further(cursor.v, val[i])
          \/ val[i] = Null

(* WHERE: the rows strictly after the cursor. *)
Keyset(i) ==
    \/ cursor.id = 0
    \/ order = "id" /\ i > cursor.id
    \/ /\ order # "id" /\ cursor.v = Null
       /\ val[i] = Null /\ Further(i, cursor.id)
    \/ /\ order # "id" /\ cursor.v # Null
       /\ \/ val[i] # Null /\ Further(val[i], cursor.v)
          \/ val[i] = cursor.v /\ Further(i, cursor.id)
          \/ val[i] = Null

(* LIMIT: the first n of the matching rows. *)
Limit(n) ==
    LET M == {i \in member : Keyset(i)}
    IN  {i \in M : Cardinality({j \in M : OrderBy(j, i)}) < n}

\* Mutant: the extra row is dropped from the page but is where the next starts.
LastFetched(P) == LET F == Limit(PageSize + 1)
                  IN  CHOOSE i \in F : \A j \in F \ {i} : OrderBy(j, i)
Last(P) == CHOOSE i \in P : \A j \in P \ {i} : OrderBy(j, i)
SortVal(i) == IF order = "id" THEN Null ELSE val[i]

(* One request: a page of rows, and a link to the next when one more row was *)
(* fetched than the page shows and its cursor is one the decoder accepts.   *)
handleQueueBucket ==
    /\ more = "yes"
    /\ LET P == Limit(PageSize)
           extra == Cardinality(Limit(PageSize + 1)) > PageSize
       IN  /\ times' = [i \in Ids |-> times[i] + IF i \in P THEN 1 ELSE 0]
           /\ IF extra /\ SortVal(Last(P)) \notin TooLong
              THEN /\ more' = "yes"
                   /\ cursor' = [id |-> Last(P), v |-> SortVal(Last(P))]
              ELSE /\ more' = IF extra THEN "cut" ELSE "no"
                   /\ UNCHANGED cursor
    /\ UNCHANGED <<order, val, member, steady, changes>>

(* The worker restamps a row, or moves it into or out of the bucket.         *)
Change(i) ==
    /\ more = "yes" /\ changes < MaxChanges
    /\ \/ \E v \in Vals \cup {Null} : v # val[i] /\ val' = [val EXCEPT ![i] = v]
                                      /\ UNCHANGED member
       \/ member' = (member \ {i}) \cup ({i} \ member) /\ UNCHANGED val
    /\ steady' = IF order = "id" /\ i \in member /\ i \in member' THEN steady
                 ELSE steady \ {i}
    /\ changes' = changes + 1
    /\ UNCHANGED <<order, cursor, more, times>>

(* A header or a filter starts the walk again. *)
Restart ==
    /\ more # "yes"
    /\ changes < MaxChanges
    /\ order' \in {"asc", "desc", "id"}
    /\ cursor' = Top /\ more' = "yes" /\ steady' = member
    /\ times' = [i \in Ids |-> 0]
    /\ changes' = changes + 1
    /\ UNCHANGED <<val, member>>

Next == handleQueueBucket \/ (\E i \in Ids : Change(i)) \/ Restart
Spec == Init /\ [][Next]_vars

(* A walk lists no steady row twice, and a walk that reaches its end has      *)
(* listed every steady row: whatever the worker does to the other rows       *)
(* between two pages, and wherever NULLs and ties fall (tablesort.go Keyset  *)
(* against OrderBy; bucket.go "stable for rows that stay in the bucket").    *)
SteadyListedOnce ==
    \A i \in steady : times[i] <= 1 /\ (more = "no" => times[i] = 1)
=============================================================================
