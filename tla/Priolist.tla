------------------------------ MODULE Priolist ------------------------------
(***************************************************************************)
(* The state machine of a priority list (src/proto/priolist.rs) driven the *)
(* way the protocols drive it: an endpoint is inserted when its pipe is    *)
(* opened, activated and deactivated by the readiness events of the pipe,  *)
(* removed when the pipe closes or fails, and popped when a message is to  *)
(* be sent or received.                                                    *)
(***************************************************************************)
EXTENDS PriolistOps

CONSTANTS
    Eid,        \* endpoint ids
    Priority,   \* the priorities a socket may give its endpoints
    Removable   \* the endpoints whose pipe may close or fail

\* "Highest priority is 1, lowest priority is 16" (facade/socket.rs:245).
ASSUME PriorityAssumption == Priority \subseteq 1 .. LowestPriority

ASSUME RemovableAssumption == Removable \subseteq Eid

ASSUME EidAssumption == Eid \subseteq Nat \ {0}

VARIABLES
    list,       \* the Priolist structure: [items, current]
    popped,     \* what the last operation returned: an id if it was a pop
    panicked    \* a pop indexed past the end: the I/O thread is gone

vars == <<list, popped, panicked>>

NoEid == 0

Item == [value : Eid, priority : Priority, active : BOOLEAN]

CurrentType == {NoCurrent} \cup [index : Nat \ {0}, priority : Priority]

TypeOK ==
    /\ list \in [items : Seq(Item), current : CurrentType]
    /\ popped \in Eid \cup {NoEid}
    /\ panicked \in BOOLEAN

Init ==
    /\ list = EmptyPriolist
    /\ popped = NoEid
    /\ panicked = FALSE

InsertItem(id, prio) ==
    /\ ~panicked
    /\ id \notin Values(list.items)
    /\ list' = Insert(list, id, prio)
    /\ popped' = NoEid
    /\ UNCHANGED panicked

RemoveItem(id) ==
    /\ ~panicked
    /\ id \in Values(list.items)
    /\ list' = Remove(list, id)
    /\ popped' = NoEid
    /\ UNCHANGED panicked

ActivateItem(id) ==
    /\ ~panicked
    /\ id \in Values(list.items)
    /\ list' = Activate(list, id)
    /\ popped' = NoEid
    /\ UNCHANGED panicked

DeactivateItem(id) ==
    /\ ~panicked
    /\ id \in Values(list.items)
    /\ list' = Deactivate(list, id)
    /\ popped' = NoEid
    /\ UNCHANGED panicked

\* The panic leaves the list as `current.take()' left it.
PopItem ==
    /\ ~panicked
    /\ Peek(list)
    /\ \/ /\ ~PopPanics(list)
          /\ list' = Pop(list)
          /\ popped' = PopValue(list)
          /\ UNCHANGED panicked
       \/ /\ PopPanics(list)
          /\ list' = [list EXCEPT !.current = NoCurrent]
          /\ popped' = NoEid
          /\ panicked' = TRUE

Next ==
    \/ \E id \in Eid, prio \in Priority : InsertItem(id, prio)
    \/ \E id \in Removable : RemoveItem(id)
    \/ \E id \in Eid : ActivateItem(id) \/ DeactivateItem(id)
    \/ PopItem

Spec == Init /\ [][Next]_vars

\* A protocol that has messages to move keeps popping.
FairSpec == Spec /\ WF_vars(PopItem)

-----------------------------------------------------------------------------
\* As long as an endpoint is ready there is a current one: peek() answers for
\* the whole list (is_send_ready, is_recv_ready and try_send rest on it), so a
\* ready pipe is never forgotten by activate, deactivate, remove or pop.
NoReadyItemForgotten ==
    ~panicked /\ ActiveIndices(list.items) # {} => Peek(list)

\* The priority recorded in `current' is at least as urgent as that of every
\* ready endpoint, so that compute_next, which never looks at a more urgent
\* priority than the one it is given, cannot miss an item.
CurrentIsMostUrgent ==
    Peek(list) =>
        \A i \in ActiveIndices(list.items) :
            list.current.priority <= list.items[i].priority

\* Every endpoint is stored at most once, whatever swap_remove moves around:
\* find_by_id then finds the only one.
NoDuplicates ==
    \A i, j \in DOMAIN list.items :
        list.items[i].value = list.items[j].value => i = j

\* The endpoint that pop will return is stored, ready, and has the priority
\* recorded with it ("Select 'new' current amongst active items").
CurrentIsActive ==
    Peek(list) =>
        /\ list.current.index \in ActiveIndices(list.items)
        /\ list.items[list.current.index].priority = list.current.priority

\* As long as no endpoint goes away the list keeps that promise: pop always
\* returns a ready endpoint.
StableCurrentIsActive == Removable = {} => CurrentIsActive

\* The refinement mapping to ReadySet: forget the order and `current'.
Known == {[value |-> list.items[i].value, priority |-> list.items[i].priority] :
              i \in DOMAIN list.items}

Ready == {list.items[i].value : i \in ActiveIndices(list.items)}

Abstract == INSTANCE ReadySet WITH known <- Known, ready <- Ready, taken <- popped

\* Without removals the list implements ReadySet: in particular every pop takes
\* a ready endpoint of the most urgent priority (load balancing of push and
\* req, fair queueing of the receiving protocols).
ImplementsReadySet == Abstract!Spec

\* Round robin: without removals, an endpoint of the most urgent priority that
\* is ready is popped after finitely many pops, whatever the others do.
IsUrgent(id) ==
    \E i \in ActiveIndices(list.items) :
        /\ list.items[i].value = id
        /\ \A prio \in Priority : list.items[i].priority <= prio

EveryReadyItemIsServed == \A id \in Eid : IsUrgent(id) ~> ~IsUrgent(id)
=============================================================================
