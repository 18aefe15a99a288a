---------------------------- MODULE PriolistOps ----------------------------
(***************************************************************************)
(* The priority list of src/proto/priolist.rs as operators on a record     *)
(* [items, current].  Every protocol that load-balances its sends or       *)
(* fair-queues its receives owns one; the state machine of the list alone  *)
(* is module Priolist.                                                     *)
(*                                                                         *)
(* `items' is the vector of the code, with indices from 1 instead of 0.    *)
(* `current' is the code's Option<(usize, u8)>: the index the next pop     *)
(* will take, and the priority that index had when it was chosen.  None is *)
(* represented by index 0.                                                 *)
(***************************************************************************)
EXTENDS Naturals, Sequences, FiniteSetsExt

\* The bound of the loop `for prio in lower_priority..17'.
LowestPriority == 16

Current(i, p) == [index |-> i, priority |-> p]

NoCurrent == Current(0, 0)

EmptyPriolist == [items |-> << >>, current |-> NoCurrent]

NewItem(id, prio) == [value |-> id, priority |-> prio, active |-> FALSE]

Values(items) == {items[i].value : i \in DOMAIN items}

\* find_by_id_in_all: the first index that holds id.
IndexOf(items, id) == Min({i \in DOMAIN items : items[i].value = id})

ActiveIndices(items) == {i \in DOMAIN items : items[i].active}

ActiveAt(items, prio) == {i \in ActiveIndices(items) : items[i].priority = prio}

\* The priorities below prio (numerically above it) that have an active item.
LowerPriorities(items, prio) ==
    {items[i].priority : i \in {j \in ActiveIndices(items) :
                                  items[j].priority \in (prio + 1) .. LowestPriority}}

\* Seeded fault: lower priorities are not looked at.
ComputeNextSamePriority(items, pivot, prio) ==
    LET same  == ActiveAt(items, prio)
        after == {i \in same : i >= pivot}
    IN  IF after # {} THEN Current(Min(after), prio)
        ELSE IF same # {} THEN Current(Min(same), prio)
        ELSE NoCurrent

\* Seeded fault: every search starts from the first item.
ComputeNextFromStart(items, pivot, prio) ==
    LET same  == ActiveAt(items, prio)
        lower == LowerPriorities(items, prio)
    IN  IF same # {} THEN Current(Min(same), prio)
        ELSE IF lower # {} THEN Current(Min(ActiveAt(items, Min(lower))), Min(lower))
        ELSE NoCurrent

\* The `current' that compute_next leaves: the next active item of the same
\* priority, searching from the pivot to the end and then from the start,
\* else the first active item of the nearest lower priority.
ComputeNext(items, pivot, prio) ==
    LET same  == ActiveAt(items, prio)
        after == {i \in same : i >= pivot}
        lower == LowerPriorities(items, prio)
    IN  IF after # {} THEN Current(Min(after), prio)
        ELSE IF same # {} THEN Current(Min(same), prio)
        ELSE IF lower # {} THEN Current(Min(ActiveAt(items, Min(lower))), Min(lower))
        ELSE NoCurrent

\* Seeded fault: the last element is copied and not taken away.
SwapWithoutRemove(items, i) == [items EXCEPT ![i] = items[Len(items)]]

\* Vec::swap_remove: the last element takes the place of the removed one.
SwapRemove(items, i) ==
    [j \in 1 .. (Len(items) - 1) |-> IF j = i THEN items[Len(items)] ELSE items[j]]

SetActive(items, i, active) == [items EXCEPT ![i].active = active]

-----------------------------------------------------------------------------
(* The operations.  Remove, Activate and Deactivate of an absent id change *)
(* nothing.                                                                *)

Insert(l, id, prio) == [l EXCEPT !.items = Append(@, NewItem(id, prio))]

\* remove_at_index: only the removal of the current item moves `current'.
RemoveAtIndex(l, i) ==
    LET items == SwapRemove(l.items, i)
        prio  == l.items[i].priority
    IN  [items   |-> items,
         current |-> IF l.current = Current(i, prio)
                     THEN ComputeNext(items, i, prio)
                     ELSE l.current]

Remove(l, id) ==
    IF id \in Values(l.items) THEN RemoveAtIndex(l, IndexOf(l.items, id)) ELSE l

\* Seeded fault: a more urgent item does not displace the current one.
ActivateFirstCome(l, i) ==
    [items   |-> SetActive(l.items, i, TRUE),
     current |-> IF l.current = NoCurrent
                 THEN Current(i, l.items[i].priority)
                 ELSE l.current]

\* Seeded fault: the index of `current' is off by one.
ActivateOffByOne(l, i) ==
    LET prio == l.items[i].priority
    IN  [items   |-> SetActive(l.items, i, TRUE),
         current |-> IF l.current = NoCurrent \/ prio < l.current.priority
                     THEN Current(i - 1, prio)
                     ELSE l.current]

ActivateAtIndex(l, i) ==
    LET prio == l.items[i].priority
    IN  [items   |-> SetActive(l.items, i, TRUE),
         current |-> IF l.current = NoCurrent \/ prio < l.current.priority
                     THEN Current(i, prio)
                     ELSE l.current]

Activate(l, id) ==
    IF id \in Values(l.items) /\ ~l.items[IndexOf(l.items, id)].active
    THEN ActivateAtIndex(l, IndexOf(l.items, id))
    ELSE l

\* Seeded fault: the current item may stop being active.
DeactivateKeepingCurrent(l, i) ==
    [l EXCEPT !.items = SetActive(l.items, i, FALSE)]

DeactivateAtIndex(l, i) ==
    LET items == SetActive(l.items, i, FALSE)
        prio  == l.items[i].priority
    IN  [items   |-> items,
         current |-> IF l.current = Current(i, prio)
                     THEN ComputeNext(items, i, prio)
                     ELSE l.current]

Deactivate(l, id) ==
    IF id \in Values(l.items) /\ l.items[IndexOf(l.items, id)].active
    THEN DeactivateAtIndex(l, IndexOf(l.items, id))
    ELSE l

Peek(l) == l.current # NoCurrent

\* pop indexes the vector with `current' unchecked: it panics when that index
\* is past the end.
PopPanics(l) == Peek(l) /\ l.current.index \notin DOMAIN l.items

PopValue(l) == l.items[l.current.index].value

\* Seeded fault: the item popped stays active.
PopKeepingActive(l) ==
    [l EXCEPT !.current = ComputeNext(l.items, l.current.index, l.current.priority)]

\* The list pop leaves.  It is used only when Peek(l) /\ ~PopPanics(l).
Pop(l) ==
    LET items == SetActive(l.items, l.current.index, FALSE)
    IN  [items   |-> items,
         current |-> ComputeNext(items, l.current.index, l.current.priority)]
=============================================================================
