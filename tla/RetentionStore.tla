--------------------------- MODULE RetentionStore ---------------------------
(***************************************************************************)
(* What a yard promises: a flat store of blobs, records and wants.  Only   *)
(* `collect` hides blobs, and only ones nobody owns; after a crash, a      *)
(* power failure or a restart everything that was flushed and owned is     *)
(* there again.  Blobs that were hidden may come back with a restart.      *)
(***************************************************************************)
EXTENDS Retention

VARIABLES
    open,      \* some process holds the store
    visible,   \* blobs a snapshot lists
    records,   \* records a snapshot replays
    wants,     \* requests a snapshot lists
    safe       \* items no failure may take back

vars == <<open, visible, records, wants, safe>>

Owners == records \cup wants

(* The records, the wants, and every blob they own. *)
Owned == Owners \cup (Keep(visible, Owners, NoRoots) \cap visible)

Init == open = FALSE /\ visible = {} /\ records = {} /\ wants = {} /\ safe \subseteq Items

Put(b) ==
    /\ open /\ visible' = visible \cup {b}
    /\ UNCHANGED <<open, records, wants, safe>>

Insert(r) ==
    /\ open /\ records' = records \cup {r}
    /\ UNCHANGED <<open, visible, wants, safe>>

Want(w) ==
    /\ open /\ wants' = wants \cup {w}
    /\ UNCHANGED <<open, visible, records, safe>>

(* A collection that hides something. *)
Collect(roots) ==
    /\ open /\ UNCHANGED <<open, records, wants, safe>>
    /\ visible' # visible /\ visible' = visible \cap Keep(visible, Owners, roots)

(* A flush that makes something safe. *)
Flush ==
    /\ open /\ UNCHANGED <<open, visible, records, wants>>
    /\ safe' # safe /\ safe' = safe \cup Owned

(* The process ends, in order or not. *)
Stop ==
    /\ open /\ open' = FALSE
    /\ visible' = {} /\ records' = {} /\ wants' = {}
    /\ safe' = safe \/ safe' = safe \cup Owned

(* The store is opened: everything safe is there. *)
Reopen ==
    /\ ~open /\ open' = TRUE
    /\ visible' \subseteq Blobs /\ records' \subseteq Records /\ wants' \subseteq Wants
    /\ safe \subseteq visible' \cup records' \cup wants'
    /\ UNCHANGED safe

(* A sync has failed, and the caller was told: some items are no longer    *)
(* promised.                                                               *)
Withdraw ==
    /\ open /\ safe' \subseteq safe
    /\ UNCHANGED <<open, visible, records, wants>>

Next ==
    \/ \E b \in Blobs : Put(b)
    \/ \E r \in Records : Insert(r)
    \/ \E w \in Wants : Want(w)
    \/ \E roots \in Roots : Collect(roots)
    \/ Flush \/ Stop \/ Reopen \/ Withdraw

Spec == Init /\ [][Next]_vars

=============================================================================
