------------------------------ MODULE ListPaging ------------------------------
(***************************************************************************)
(* ListPayments: a caller reads the payments page by page, newest first,   *)
(* by LIMIT and OFFSET, while payments are created and change status.      *)
(*                                                                         *)
(* Every page is a SELECT of its own, so the list moves under the reader:  *)
(* rows arrive above the offset, not always in the order of their ids      *)
(* (an id is allotted before its INSERT commits), and with a filter on the *)
(* status rows leave the list too.                                         *)
(***************************************************************************)
EXTENDS Integers, FiniteSets

CONSTANTS
    MaxId,          \* bound: payments created
    Limits,         \* limits a caller may ask for
    DefaultLimit,   \* 100, for a limit that is not given
    MaxLimit,       \* 500
    Filters         \* filters in this instance: a status, or "any"

ASSUME LimitsAssumption ==
    /\ MaxId \in Nat
    /\ Limits \subseteq Int
    /\ MaxLimit \in Nat \ {0} /\ DefaultLimit \in 1..MaxLimit
ASSUME FiltersAssumption == Filters \subseteq {"any", "pending", "paid"}

Ids == 1..MaxId

VARIABLES
    allotted,   \* the last id given to an INSERT
    row,        \* payments: status by id, "absent" before the INSERT commits
    filter, limit,
    offset,     \* of the next page
    reader,     \* "ready", "reading", "done" or "refused"
    seen,       \* ids returned so far
    repeated,   \* rows returned a second time
    kept,       \* ids that matched when reading began and have matched since
    came, left  \* rows that entered and left the list since

askVars == <<filter, limit>>
readerVars == <<offset, reader, seen, repeated>>
listVars == <<kept, came, left>>
vars == <<allotted, row, askVars, readerVars, listVars>>

Matching == {i \in Ids : row[i] # "absent" /\ filter \in {"any", row[i]}}

\* The table as other callers left it, and a caller about to ask for filter.
Init ==
    /\ row \in [Ids -> {"absent", "pending", "paid"}]
    /\ allotted \in 0..MaxId
    /\ \A i \in Ids : row[i] # "absent" => i <= allotted
    /\ filter \in Filters
    /\ limit \in Limits
    /\ offset = 0 /\ reader = "ready"
    /\ seen = {} /\ repeated = 0
    /\ kept = Matching /\ came = 0 /\ left = 0

-------------------------------------------------------------------------------
(* The table.                                                              *)

\* An INSERT gets its AUTO_INCREMENT id.
Allot ==
    /\ allotted < MaxId
    /\ allotted' = allotted + 1
    /\ UNCHANGED <<row, askVars, readerVars, listVars>>

\* What a step of the table does to the list a caller is reading, or about to.
ListMoves ==
    CASE reader = "ready" -> kept' = Matching' /\ UNCHANGED <<came, left>>
      [] reader = "reading" ->
            /\ kept' = kept \cap Matching'
            /\ came' = came + Cardinality(Matching' \ Matching)
            /\ left' = left + Cardinality(Matching \ Matching')
      [] OTHER -> UNCHANGED listVars

Commit(i) ==
    /\ i <= allotted
    /\ row[i] = "absent"
    /\ row' = [row EXCEPT ![i] = "pending"]
    /\ UNCHANGED <<allotted, askVars, readerVars>>
    /\ ListMoves

\* A webhook or a job gives payment i its outcome.
GetsPaid(i) ==
    /\ row[i] = "pending"
    /\ row' = [row EXCEPT ![i] = "paid"]
    /\ UNCHANGED <<allotted, askVars, readerVars>>
    /\ ListMoves

-------------------------------------------------------------------------------
(* The reader.                                                             *)

\* Mutant: only negative limits are refused.
UncappedLimit(n) == IF n = 0 THEN DefaultLimit ELSE IF n > 0 THEN n ELSE 0

\* Validate: the limit to use, or 0 if the request is refused.
ValidLimit(n) ==
    IF n = 0 THEN DefaultLimit ELSE IF n \in 1..MaxLimit THEN n ELSE 0

\* SELECT ... WHERE status = ? ORDER BY id DESC: the place of row i.
Place(i) == Cardinality({j \in Matching : j >= i})

\* Mutant: OFFSET counts from one.
PageFromOne == {i \in Matching : Place(i) \in offset + 2 .. offset + limit + 1}

\* Mutant: the last row of the page before comes first.
PageFromLast == {i \in Matching : Place(i) \in offset .. offset + limit}

\* LIMIT limit OFFSET offset.
Page == {i \in Matching : Place(i) \in offset + 1 .. offset + limit}

Ask ==
    /\ reader = "ready"
    /\ limit' = ValidLimit(limit)
    /\ reader' = IF limit' = 0 THEN "refused" ELSE "reading"
    /\ UNCHANGED <<allotted, row, filter, offset, seen, repeated, listVars>>

\* The caller goes on behind what it has until a page is empty.
ListPayments ==
    /\ reader = "reading"
    /\ seen' = seen \cup Page
    /\ repeated' = repeated + Cardinality(seen \cap Page)
    /\ offset' = offset + Cardinality(Page)
    /\ reader' = IF Page = {} THEN "done" ELSE "reading"
    /\ UNCHANGED <<allotted, row, askVars, listVars>>

Next ==
    \/ Allot
    \/ \E i \in Ids : Commit(i)
    \/ \E i \in Ids : GetsPaid(i)
    \/ Ask
    \/ ListPayments

Spec == Init /\ [][Next]_vars

-------------------------------------------------------------------------------
\* Types; no page is longer than MaxLimit allows.
TypeOK ==
    /\ allotted \in 0..MaxId
    /\ row \in [Ids -> {"absent", "pending", "paid"}]
    /\ filter \in Filters
    /\ limit \in Int /\ (reader = "reading" => limit \in 1..MaxLimit)
    /\ offset \in Nat /\ repeated \in Nat /\ came \in Nat /\ left \in Nat
    /\ reader \in {"ready", "reading", "done", "refused"}
    /\ seen \subseteq Ids /\ kept \subseteq Ids

\* A caller that pages to the end misses a payment it could have seen all along
\* only for every one that left the list meanwhile: none at all without a
\* filter on the status, whatever is created in the meantime (List: ORDER BY id
\* DESC LIMIT ? OFFSET ?).
MissesAreCovered == reader = "done" => Cardinality(kept \ seen) <= left

\* And it sees a payment twice only for every one that entered the list.
RepeatsAreCovered == repeated <= came
===============================================================================
