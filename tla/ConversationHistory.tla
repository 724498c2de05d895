------------------------- MODULE ConversationHistory -------------------------
(***************************************************************************)
(* The conversation repository (app/repositories/postgres.py) as the       *)
(* history endpoint sees it: GET /v1/conversations/{user_id}, called by    *)
(* clients that walk the pages while interactions of the same user are     *)
(* stored and settled.                                                     *)
(*                                                                         *)
(* The total and the page are two statements, each with a snapshot of its  *)
(* own (READ COMMITTED).  created_at is the time the inserting transaction *)
(* began, so rows may become visible in another order than they are        *)
(* listed in; no two of them have the same time.                           *)
(***************************************************************************)
EXTENDS Integers, FiniteSets

CONSTANTS
    Rows,       \* interactions of one user
    Walkers,    \* clients that walk through the pages
    Limit       \* limit, the size of a page

ASSUME HistoryAssumption == Limit \in Nat \ {0}

VARIABLES
    status,     \* the stored status of each row
    createdAt,  \* the start of the transaction that inserts it
    at,         \* where each client is: before a count, before a page, at the end
    offset,     \* the offset it asks for
    total,      \* the count that comes with its next page
    page,       \* history: the rows of its last page, and the total they came with
    stored,     \* history: the rows that were stored when its walk began
    shown       \* history: the rows its walk has been shown

walkVars == <<at, offset, total, page, stored, shown>>
vars == <<status, createdAt, walkVars>>

NotBegun == 0
NoPage == [rows |-> {}, offset |-> 0, total |-> 0]

Outcomes == {"completed", "failed", "blocked"}

Init ==
    /\ status = [r \in Rows |-> "absent"]
    /\ createdAt = [r \in Rows |-> NotBegun]
    /\ at = [w \in Walkers |-> "start"]
    /\ offset = [w \in Walkers |-> 0]
    /\ total = [w \in Walkers |-> 0]
    /\ page = [w \in Walkers |-> NoPage]
    /\ stored = [w \in Walkers |-> {}]
    /\ shown = [w \in Walkers |-> {}]

-----------------------------------------------------------------------------
(* create_pending, mark_completed, mark_failed and mark_blocked *)

\* The transaction of create_pending begins: now() will be its row's created_at.
Begin(r) ==
    /\ createdAt[r] = NotBegun
    /\ createdAt' = [createdAt EXCEPT ![r] =
                       Cardinality({q \in Rows : createdAt[q] # NotBegun}) + 1]
    /\ UNCHANGED <<status, walkVars>>

CommitPending(r) ==
    /\ createdAt[r] # NotBegun /\ status[r] = "absent"
    /\ status' = [status EXCEPT ![r] = "pending"]
    /\ UNCHANGED <<createdAt, walkVars>>

\* The row is there (_get), and no other transaction settles it.
CommitOutcome(r, outcome) ==
    /\ status[r] = "pending"
    /\ status' = [status EXCEPT ![r] = outcome]
    /\ UNCHANGED <<createdAt, walkVars>>

-----------------------------------------------------------------------------
(* list_by_user, again and again *)

\* The rows of the user, whatever their status.
Listed == {r \in Rows : status[r] # "absent"}

\* Mutant of Newer: the order is that of updated_at, which settled rows lead.
NewerByUpdate(r) ==
    {q \in Listed : \/ status[q] # "pending" /\ status[r] = "pending"
                    \/ /\ status[q] # "pending" <=> status[r] # "pending"
                       /\ createdAt[q] > createdAt[r]}

\* The rows listed before r.
Newer(r) == {q \in Listed : createdAt[q] > createdAt[r]}

\* ORDER BY created_at DESC LIMIT limit OFFSET offset.
PageAt(o) == {r \in Listed : o <= Cardinality(Newer(r)) /\ Cardinality(Newer(r)) < o + Limit}

\* The first statement; a walk begins with the one at offset 0.
Count(w) ==
    /\ at[w] \in {"start", "count"}
    /\ at' = [at EXCEPT ![w] = "page"]
    /\ total' = [total EXCEPT ![w] = Cardinality(Listed)]
    /\ stored' = IF at[w] = "start" THEN [stored EXCEPT ![w] = Listed] ELSE stored
    /\ UNCHANGED <<status, createdAt, offset, page, shown>>

\* A full page may not be the last one: the client asks for the next.
Turn(w, rows) ==
    IF Cardinality(rows) = Limit
      THEN /\ at' = [at EXCEPT ![w] = "count"]
           /\ offset' = [offset EXCEPT ![w] = @ + Limit]
      ELSE /\ at' = [at EXCEPT ![w] = "end"]
           /\ offset' = [offset EXCEPT ![w] = 0]

\* Mutant of ReadPage: the rows are read before they are counted.
ReadPageFirst(w) ==
    LET rows == PageAt(offset[w]) IN
    /\ at[w] \in {"start", "count"}
    /\ \E n \in Cardinality(Listed)..Cardinality(Rows) :
          page' = [page EXCEPT ![w] = [rows |-> rows, offset |-> offset[w], total |-> n]]
    /\ shown' = [shown EXCEPT ![w] = @ \cup rows]
    /\ Turn(w, rows)
    /\ UNCHANGED <<status, createdAt, total, stored>>

\* The second statement, and the response.
ReadPage(w) ==
    LET rows == PageAt(offset[w]) IN
    /\ at[w] = "page"
    /\ page' = [page EXCEPT ![w] = [rows |-> rows, offset |-> offset[w], total |-> total[w]]]
    /\ shown' = [shown EXCEPT ![w] = @ \cup rows]
    /\ total' = [total EXCEPT ![w] = 0]
    /\ Turn(w, rows)
    /\ UNCHANGED <<status, createdAt, stored>>

\* The walk is over, and another may begin.
EndWalk(w) ==
    /\ at[w] = "end"
    /\ at' = [at EXCEPT ![w] = "start"]
    /\ page' = [page EXCEPT ![w] = NoPage]
    /\ stored' = [stored EXCEPT ![w] = {}]
    /\ shown' = [shown EXCEPT ![w] = {}]
    /\ UNCHANGED <<status, createdAt, offset, total>>

Next ==
    \/ \E r \in Rows :
          Begin(r) \/ CommitPending(r) \/ \E outcome \in Outcomes : CommitOutcome(r, outcome)
    \/ \E w \in Walkers : Count(w) \/ ReadPage(w) \/ EndWalk(w)

Spec == Init /\ [][Next]_vars

-----------------------------------------------------------------------------
(* Properties *)

TypeOK ==
    /\ status \in [Rows -> {"absent", "pending"} \cup Outcomes]
    /\ createdAt \in [Rows -> Nat]
    /\ at \in [Walkers -> {"start", "count", "page", "end"}]
    /\ offset \in [Walkers -> Nat]
    /\ total \in [Walkers -> Nat]
    /\ page \in [Walkers -> [rows : SUBSET Rows, offset : Nat, total : Nat]]
    /\ stored \in [Walkers -> SUBSET Rows]
    /\ shown \in [Walkers -> SUBSET Rows]

\* A page is never shorter than the total it comes with says (postgres.py:120-129):
\* rows stored between the two statements may lengthen it, nothing shortens it.
PageAsPromised ==
    \A w \in Walkers :
        \/ Cardinality(page[w].rows) >= page[w].total - page[w].offset
        \/ Cardinality(page[w].rows) = Limit

\* Walking the pages until one is short shows every row that was stored when the
\* walk began, whatever is stored, committed out of order or settled on the way:
\* rows shift towards later pages only.
WalkMissesNothing ==
    \A w \in Walkers : at[w] = "end" => stored[w] \subseteq shown[w]

=============================================================================
