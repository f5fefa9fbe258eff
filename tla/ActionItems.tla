----------------------------- MODULE ActionItems -----------------------------
(***************************************************************************)
(* The table action_items as the checks of a sweep use it: analysis.py      *)
(* upsert_system_action raises an item, a check's UPDATE dismisses it, and  *)
(* actions.py resolve_action is the user closing it.  This is the common    *)
(* ground of OutsideChecks and AccountChecks.                               *)
(*                                                                         *)
(* The checks share no state with each other: each reads its own corner of  *)
(* the outside world and writes its own categories.  So a behaviour follows *)
(* ONE check, named by focus, and the behaviours of all checks together are *)
(* the union over focus, not a product.                                     *)
(*                                                                         *)
(* Only the newest item of a key is kept: one "open" item is the most a     *)
(* single writer makes.  A key is what tells the items of a check apart,    *)
(* its category or its ref_key.                                             *)
(***************************************************************************)
EXTENDS Naturals, FiniteSets

CONSTANT MaxChanges   \* bound: changes of the world and clicks of the user

ASSUME ChangesAssumption == MaxChanges \in Nat

VARIABLES
    focus,    \* the check this behaviour follows
    world,    \* what its lookups would be answered now (a record, per check)
    memory,   \* what its own table keeps for the next run: due, and more
    items,    \* the newest item of each key of the check
    unsure,   \* history: the newest run lacked an answer its verdict rests on
    changes   \* changes and clicks so far (see MaxChanges)

checksVars == <<focus, world, memory, items, unsure, changes>>

Statuses == {"none", "open", "done", "dismissed"}
Closed   == {"done", "dismissed"}

IsOpen(k) == items[k] = "open"

(***************************************************************************)
(* What one run of a check does to its items: an upsert of every key in     *)
(* raised, and UPDATE ... SET status='dismissed' WHERE ... status='open'    *)
(* for the keys in cleared.                                                 *)
(***************************************************************************)
Dismiss(k) == IF IsOpen(k) THEN "dismissed" ELSE items[k]

Settle(raised, cleared) ==
    items' = [k \in DOMAIN items |->
                IF k \in raised THEN "open"
                ELSE IF k \in cleared THEN Dismiss(k) ELSE items[k]]

\* A new row makes the subject fresh until the recheck window has passed.
Checked == memory' = [memory EXCEPT !.due = FALSE]

\* The window has passed; the next sweep checks the subject again.
Age ==
    /\ ~memory.due
    /\ memory' = [memory EXCEPT !.due = TRUE]
    /\ UNCHANGED <<focus, world, items, unsure, changes>>

\* The user closes an open item on the page or the command line.
Resolve(k, status) ==
    /\ changes < MaxChanges
    /\ IsOpen(k)
    /\ items' = [items EXCEPT ![k] = status]
    /\ changes' = changes + 1
    /\ UNCHANGED <<focus, world, memory, unsure>>
=============================================================================
