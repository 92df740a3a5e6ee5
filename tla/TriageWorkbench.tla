--------------------------- MODULE TriageWorkbench ---------------------------
(***************************************************************************)
(* The workbench on which the repository triager groups discovery          *)
(* candidates (agents/triage/workbench_state.py, reached through the tools *)
(* of workbench_tools.py).                                                 *)
(*                                                                         *)
(* A group keeps or suppresses a set of items.  Its texts are abstracted   *)
(* to whether the fields a kept case needs (summary, category, evidence)   *)
(* are all present, and whether a suppression reason is.  The order of a   *)
(* group's items only decides how a result is printed and is left out.     *)
(***************************************************************************)
EXTENDS Integers, Sequences, FiniteSets

CONSTANTS
    CreatePayloads,  \* the groups a create call may carry
    UpdatePayloads,  \* the changes an update call may carry
    Same,            \* a field an update leaves alone
    MaxBatch,        \* bound on the groups of one batch call
    MaxEdits         \* bound on the edits of one agent pass, and on the
                     \* numbers its refused calls use up

VARIABLES
    items,           \* items_by_id: the candidate ids on the workbench
    groups,          \* the groups by number (group-<n>)
    nextNumber,      \* _next_group_number
    edits            \* edit_events of the running pass

workbenchVars == <<items, groups, nextNumber, edits>>

-----------------------------------------------------------------------------
(***************************************************************************)
(* What the argument models check before the workbench is touched          *)
(***************************************************************************)

\* A kept group needs its case texts, a suppressed one its reason.
Complete(g) == IF g.kind = "keep" THEN g.text ELSE g.reason

validate_create(p) == p.items # {} /\ Complete(p)

validate_update(p) == p.items # {}

Known(p) == p.items # Same => p.items \subseteq items

\* A batch of calls: the payloads in call order.
BatchesOf(S) == UNION {[1 .. n -> S] : n \in 1 .. MaxBatch}

-----------------------------------------------------------------------------
\* The first unused group numbers from nextNumber on, in order.
NumberOf(k) ==
    CHOOSE n \in nextNumber .. nextNumber + Cardinality(DOMAIN groups) + k :
        /\ n \notin DOMAIN groups
        /\ Cardinality({m \in nextNumber .. n : m \notin DOMAIN groups}) = k

_next_create_group_ids(count) == {NumberOf(k) : k \in 1 .. count}

\* What later groups of the same batch took from the k-th one.
ClaimedAfter(ps, k) == UNION {ps[j].items : j \in {i \in DOMAIN ps : i > k /\ ps[i].items # Same}}

Without(g, taken) == [g EXCEPT !.items = @ \ taken]

\* _replace_group_items: the items a call names leave every other group.
_create_groups(ps) ==
    LET new == [n \in _next_create_group_ids(Len(ps)) |->
                    CHOOSE k \in DOMAIN ps : NumberOf(k) = n]
    IN [n \in DOMAIN groups \cup DOMAIN new |->
            IF n \in DOMAIN new
            THEN Without(ps[new[n]], ClaimedAfter(ps, new[n]))
            ELSE Without(groups[n], ClaimedAfter(ps, 0))]

\* The value a field of group n has after the updates ps: what the last of
\* them that names the field says.
Updates(ps, n) == {k \in DOMAIN ps : ps[k].group = n}
LastOf(S) == CHOOSE k \in S : \A j \in S : j <= k

UpdatedItems(ps, n) ==
    LET named == {k \in Updates(ps, n) : ps[k].items # Same}
    IN IF named = {} THEN groups[n].items \ ClaimedAfter(ps, 0)
       ELSE ps[LastOf(named)].items \ ClaimedAfter(ps, LastOf(named))

UpdatedKind(ps, n) ==
    LET named == {k \in Updates(ps, n) : ps[k].kind # Same}
    IN IF named = {} THEN groups[n].kind ELSE ps[LastOf(named)].kind

UpdatedText(ps, n) ==
    LET named == {k \in Updates(ps, n) : ps[k].text # Same}
    IN IF named = {} THEN groups[n].text ELSE ps[LastOf(named)].text

UpdatedReason(ps, n) ==
    LET named == {k \in Updates(ps, n) : ps[k].reason # Same}
    IN IF named = {} THEN groups[n].reason ELSE ps[LastOf(named)].reason

_update_groups(ps) ==
    [n \in DOMAIN groups |-> [kind |-> UpdatedKind(ps, n), items |-> UpdatedItems(ps, n),
                              text |-> UpdatedText(ps, n), reason |-> UpdatedReason(ps, n)]]

-----------------------------------------------------------------------------
(***************************************************************************)
(* The tools                                                               *)
(***************************************************************************)

_record_edit(operation) ==
    /\ Len(edits) < MaxEdits
    /\ edits' = Append(edits, operation)

\* from_candidates: candidates with the id of an earlier one are dropped.
from_candidates(ids) ==
    /\ items' = ids
    /\ groups' = << >>
    /\ nextNumber' = 1
    /\ edits' = << >>

\* The number is taken before the items are looked up, so an unknown item
\* costs a number and creates nothing.
create_group(p) ==
    /\ validate_create(p)
    /\ nextNumber' = NumberOf(1) + 1
    /\ \/ /\ Known(p)
          /\ groups' = _create_groups(<<p>>)
          /\ _record_edit("create_group")
       \/ /\ ~Known(p) /\ nextNumber <= MaxEdits
          /\ UNCHANGED <<groups, edits>>
    /\ UNCHANGED items

\* A batch is staged on a copy, and no number is taken: a deleted group's
\* number can be given again.
create_groups(ps) ==
    /\ \A k \in DOMAIN ps : validate_create(ps[k]) /\ Known(ps[k])
    /\ groups' = _create_groups(ps)
    /\ _record_edit("create_groups")
    /\ UNCHANGED <<items, nextNumber>>

update_group(p) ==
    /\ validate_update(p) /\ p.group \in DOMAIN groups /\ Known(p)
    /\ groups' = _update_groups(<<p>>)
    /\ _record_edit("update_group")
    /\ UNCHANGED <<items, nextNumber>>

update_groups(ps) ==
    /\ \A k \in DOMAIN ps :
        validate_update(ps[k]) /\ ps[k].group \in DOMAIN groups /\ Known(ps[k])
    /\ groups' = _update_groups(ps)
    /\ _record_edit("update_groups")
    /\ UNCHANGED <<items, nextNumber>>

\* Deleting a number no group has succeeds and changes nothing.
Dropped(gone) == [n \in DOMAIN groups \ gone |-> groups[n]]

delete_group(n) ==
    /\ groups' = Dropped({n})
    /\ _record_edit("delete_group")
    /\ UNCHANGED <<items, nextNumber>>

delete_groups(gone) ==
    /\ gone # {}
    /\ groups' = Dropped(gone)
    /\ _record_edit("delete_groups")
    /\ UNCHANGED <<items, nextNumber>>

Edit ==
    \/ \E p \in CreatePayloads : create_group(p)
    \/ \E ps \in BatchesOf(CreatePayloads) : create_groups(ps)
    \/ \E p \in UpdatePayloads : update_group(p)
    \/ \E ps \in BatchesOf(UpdatePayloads) : update_groups(ps)
    \/ \E n \in DOMAIN groups : delete_group(n)
    \/ \E gone \in SUBSET DOMAIN groups : delete_groups(gone)

-----------------------------------------------------------------------------
_unprocessed_item_ids == items \ UNION {groups[n].items : n \in DOMAIN groups}

\* Mutant: candidates no group mentions are not asked for.
constraints_IgnoresUnprocessed ==
    \A n \in DOMAIN groups : groups[n].items # {} /\ Complete(groups[n])

constraints ==
    /\ _unprocessed_item_ids = {}
    /\ \A n \in DOMAIN groups : groups[n].items # {} /\ Complete(groups[n])

\* Kept groups become cases, identified by their members (_stable_case_id);
\* the members of suppressed groups become suppressions.
ExportedCases ==
    {groups[n].items : n \in {m \in DOMAIN groups :
                                  groups[m].kind = "keep" /\ groups[m].items # {}}}

ExportedSuppressions ==
    UNION {groups[n].items : n \in {m \in DOMAIN groups : groups[m].kind = "suppress"}}

-----------------------------------------------------------------------------
\* No item is ever in two groups: every call that gives a group items takes
\* them from the others, in a batch as much as alone.
GroupsAreDisjoint ==
    \A m, n \in DOMAIN groups : m # n => groups[m].items \cap groups[n].items = {}

=============================================================================
