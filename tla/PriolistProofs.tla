--------------------------- MODULE PriolistProofs ---------------------------
(***************************************************************************)
(* Theorems about the priority list, for every set of endpoints and every  *)
(* set of priorities in 1 .. 16.                                           *)
(***************************************************************************)
EXTENDS Priolist, WellFoundedInduction, SequenceTheorems, TLAPS

\* Min (the first index, or the most urgent priority, that the loops of `find'
\* and compute_next stop at) is a member of the set and bounds it from below.
LEMMA MinNat ==
    ASSUME NEW S \in SUBSET Nat, S # {}
    PROVE  /\ Min(S) \in S
           /\ \A y \in S : Min(S) <= y
<1> DEFINE R == OpToRel(<, Nat)
<1>1. IsWellFoundedOn(R, Nat)
    BY NatLessThanWellFounded
<1>2. \E x \in S : \A y \in S : ~(<<y, x>> \in R)
    <2> HIDE DEF R
    <2> QED BY <1>1, WFMin
<1>3. \A x, y \in Nat : y < x => <<y, x>> \in R
    BY DEF OpToRel
<1>4. \E x \in S : \A y \in S : x <= y
    <2> HIDE DEF R
    <2>1. PICK x \in S : \A y \in S : ~(<<y, x>> \in R)
        BY <1>2
    <2>2. ASSUME NEW y \in S PROVE x <= y
        <3>1. x \in Nat /\ y \in Nat
            OBVIOUS
        <3>2. ~(y < x)
            BY <1>3, <2>1, <3>1
        <3> QED BY <3>1, <3>2
    <2> QED BY <2>2
<1> QED BY <1>4 DEF Min

\* The vector of items as a function on its indices.
LEMMA ItemsFacts ==
    ASSUME NEW items \in Seq(Item)
    PROVE  /\ Len(items) \in Nat
           /\ DOMAIN items = 1 .. Len(items)
           /\ DOMAIN items \subseteq Nat \ {0}
           /\ ActiveIndices(items) \subseteq DOMAIN items
           /\ \A i \in DOMAIN items :
                /\ items[i] \in Item
                /\ items[i].value \in Eid
                /\ items[i].priority \in Priority
                /\ items[i].active \in BOOLEAN
<1>1. /\ Len(items) \in Nat
      /\ DOMAIN items = 1 .. Len(items)
      /\ \A i \in DOMAIN items : items[i] \in Item
    BY LenProperties
<1>2. DOMAIN items \subseteq Nat \ {0}
    BY <1>1
<1>3. ActiveIndices(items) \subseteq DOMAIN items
    BY DEF ActiveIndices
<1> QED BY <1>1, <1>2, <1>3 DEF Item

\* find_by_id answers with an index that holds the id.
LEMMA IndexOfFinds ==
    ASSUME NEW items \in Seq(Item), NEW id \in Values(items)
    PROVE  /\ IndexOf(items, id) \in DOMAIN items
           /\ items[IndexOf(items, id)].value = id
<1> DEFINE S == {i \in DOMAIN items : items[i].value = id}
<1>1. S \in SUBSET Nat /\ S # {}
    BY ItemsFacts DEF Values
<1>2. Min(S) \in S
    BY <1>1, MinNat
<1> QED BY <1>2 DEF IndexOf

-----------------------------------------------------------------------------
(* compute_next, given a priority that no active item exceeds in urgency.  *)

\* The list has no active item more urgent than p.
NoneMoreUrgent(items, p) ==
    \A i \in ActiveIndices(items) : p <= items[i].priority

\* c is the choice compute_next must make in items.
GoodCurrent(items, c) ==
    /\ c \in CurrentType
    /\ c = NoCurrent => ActiveIndices(items) = {}
    /\ c # NoCurrent =>
        /\ c.index \in ActiveIndices(items)
        /\ items[c.index].priority = c.priority
        /\ NoneMoreUrgent(items, c.priority)

\* An active item that is not of priority p is in the range that the loop over the
\* lower priorities visits.
LEMMA OtherItemsAreLower ==
    ASSUME NEW items \in Seq(Item), NEW p \in Priority, NoneMoreUrgent(items, p),
           NEW i \in ActiveIndices(items), i \notin ActiveAt(items, p)
    PROVE  items[i].priority \in LowerPriorities(items, p)
<1>1. \A a, b \in 1 .. 16 : a <= b /\ a # b => b \in (a + 1) .. 16
    OBVIOUS
<1>2. items[i].priority \in 1 .. 16 /\ p \in 1 .. 16
    BY ItemsFacts, PriorityAssumption DEF LowestPriority
<1>3. p <= items[i].priority /\ p # items[i].priority
    BY DEF NoneMoreUrgent, ActiveAt
<1>4. items[i].priority \in (p + 1) .. LowestPriority
    BY <1>1, <1>2, <1>3 DEF LowestPriority
<1> QED BY <1>4 DEF LowerPriorities

\* compute_next picks an active item of the most urgent priority, and picks none
\* only when none is active.
LEMMA ComputeNextIsGood ==
    ASSUME NEW items \in Seq(Item), NEW pivot \in Nat, NEW p \in Priority,
           NoneMoreUrgent(items, p)
    PROVE  GoodCurrent(items, ComputeNext(items, pivot, p))
<1> DEFINE same  == ActiveAt(items, p)
           after == {i \in same : i >= pivot}
           lower == LowerPriorities(items, p)
<1>1. /\ ActiveIndices(items) \subseteq DOMAIN items
      /\ DOMAIN items \subseteq Nat \ {0}
      /\ \A i \in DOMAIN items : items[i] \in Item /\ items[i].priority \in Priority
    BY ItemsFacts
<1>2. /\ p \in Nat
      /\ \A q \in Priority : q \in 1 .. 16
    BY PriorityAssumption DEF LowestPriority
<1>3. ASSUME NEW i \in same
      PROVE  GoodCurrent(items, Current(i, p))
    BY <1>1, <1>2, <1>3 DEF ActiveAt, GoodCurrent, Current, NoCurrent, CurrentType
<1>4. CASE after # {}
    <2>1. Min(after) \in same
        BY <1>1, <1>4, MinNat DEF ActiveAt
    <2> QED BY <1>3, <1>4, <2>1 DEF ComputeNext
<1>5. CASE after = {} /\ same # {}
    <2>1. Min(same) \in same
        BY <1>1, <1>5, MinNat DEF ActiveAt
    <2> QED BY <1>3, <1>5, <2>1 DEF ComputeNext
<1>6. CASE after = {} /\ same = {} /\ lower # {}
    <2> DEFINE q == Min(lower)
    <2>1. lower \in SUBSET Nat /\ lower \subseteq Priority
        BY <1>1, <1>2 DEF LowerPriorities
    <2>2. q \in lower /\ \A y \in lower : q <= y
        BY <1>6, <2>1, MinNat
    <2>3. ActiveAt(items, q) \in SUBSET Nat /\ ActiveAt(items, q) # {}
        BY <1>1, <2>2 DEF ActiveAt, LowerPriorities
    <2>4. Min(ActiveAt(items, q)) \in ActiveAt(items, q)
        BY <2>3, MinNat
    <2>5. \A i \in ActiveIndices(items) : items[i].priority \in lower
        BY <1>6, OtherItemsAreLower
    <2>6. NoneMoreUrgent(items, q)
        BY <2>2, <2>5 DEF NoneMoreUrgent
    <2>7. GoodCurrent(items, Current(Min(ActiveAt(items, q)), q))
        <3> HIDE DEF q
        <3> QED BY <1>1, <2>1, <2>2, <2>4, <2>6
                DEF ActiveAt, GoodCurrent, Current, NoCurrent, CurrentType
    <2> QED BY <1>6, <2>7 DEF ComputeNext
<1>7. CASE after = {} /\ same = {} /\ lower = {}
    <2>1. ActiveIndices(items) = {}
        BY <1>7, OtherItemsAreLower
    <2>2. ComputeNext(items, pivot, p) = NoCurrent
        BY <1>7 DEF ComputeNext
    <2> QED BY <2>1, <2>2 DEF GoodCurrent, CurrentType
<1> QED BY <1>4, <1>5, <1>6, <1>7

-----------------------------------------------------------------------------
(* What the operations on the vector do.                                   *)

\* Setting the flag of one item leaves every id and priority in place.
LEMMA SetActiveFacts ==
    ASSUME NEW items \in Seq(Item), NEW i \in DOMAIN items, NEW b \in BOOLEAN
    PROVE  LET new == SetActive(items, i, b)
           IN  /\ new \in Seq(Item)
               /\ DOMAIN new = DOMAIN items
               /\ \A j \in DOMAIN items :
                    /\ new[j].value = items[j].value
                    /\ new[j].priority = items[j].priority
                    /\ new[j].active = IF j = i THEN b ELSE items[j].active
<1> DEFINE new == SetActive(items, i, b)
           e   == [items[i] EXCEPT !.active = b]
<1>1. i \in 1 .. Len(items) /\ DOMAIN items = 1 .. Len(items) /\ items[i] \in Item
    BY ItemsFacts
<1>2. /\ e \in Item
      /\ e.value = items[i].value
      /\ e.priority = items[i].priority
      /\ e.active = b
    BY <1>1 DEF Item
<1>3. new = [items EXCEPT ![i] = e]
    BY DEF SetActive
<1>4. /\ new \in Seq(Item)
      /\ Len(new) = Len(items)
      /\ \A j \in 1 .. Len(items) : new[j] = IF j = i THEN e ELSE items[j]
    <2> HIDE DEF e, new
    <2> QED BY <1>1, <1>2, <1>3, ExceptSeq
<1>5. DOMAIN new = DOMAIN items
    BY <1>1, <1>4, ItemsFacts
<1> HIDE DEF e
<1> QED BY <1>1, <1>2, <1>4, <1>5

\* Clearing the flag of item i: it is no longer active, the others are as before.
LEMMA DeactivatedFacts ==
    ASSUME NEW items \in Seq(Item), NEW i \in DOMAIN items
    PROVE  LET new == SetActive(items, i, FALSE)
           IN  /\ new \in Seq(Item)
               /\ DOMAIN new = DOMAIN items
               /\ \A j \in DOMAIN items :
                    /\ new[j].value = items[j].value
                    /\ new[j].priority = items[j].priority
                    /\ new[j].active = IF j = i THEN FALSE ELSE items[j].active
<1>1. ASSUME NEW b \in BOOLEAN, b = FALSE
      PROVE  /\ SetActive(items, i, b) \in Seq(Item)
             /\ DOMAIN SetActive(items, i, b) = DOMAIN items
             /\ \A j \in DOMAIN items :
                    /\ SetActive(items, i, b)[j].value = items[j].value
                    /\ SetActive(items, i, b)[j].priority = items[j].priority
                    /\ SetActive(items, i, b)[j].active = IF j = i THEN b ELSE items[j].active
    BY SetActiveFacts
<1> QED BY <1>1

\* swap_remove keeps every other item, the last one at the freed index.
LEMMA SwapRemoveFacts ==
    ASSUME NEW items \in Seq(Item), NEW i \in DOMAIN items
    PROVE  LET new == SwapRemove(items, i)
           IN  /\ new \in Seq(Item)
               /\ Len(new) = Len(items) - 1
               /\ DOMAIN new = 1 .. (Len(items) - 1)
               /\ \A j \in DOMAIN new :
                    new[j] = items[IF j = i THEN Len(items) ELSE j]
<1> DEFINE n   == Len(items)
           new == SwapRemove(items, i)
<1>1. n \in Nat \ {0} /\ i \in 1 .. n /\ DOMAIN items = 1 .. n
    BY ItemsFacts
<1>2. /\ DOMAIN new = 1 .. (n - 1)
      /\ \A j \in DOMAIN new : new[j] = items[IF j = i THEN n ELSE j]
    BY DEF SwapRemove
<1>3. \A j \in 1 .. (n - 1) : j \in 1 .. n /\ n \in 1 .. n
    BY <1>1
<1>4. \A j \in 1 .. (n - 1) : new[j] \in Item
    BY <1>1, <1>2, <1>3, ItemsFacts
<1>5. new \in [1 .. (n - 1) -> Item]
    BY <1>2, <1>4 DEF SwapRemove
<1>6. new \in Seq(Item) /\ Len(new) = n - 1
    <2> HIDE DEF new
    <2>1. n - 1 \in Nat
        BY <1>1
    <2> QED BY <1>5, <2>1
<1> QED BY <1>2, <1>6

\* push stores the item at the end, inactive.
LEMMA InsertFacts ==
    ASSUME NEW items \in Seq(Item), NEW id \in Eid, NEW prio \in Priority
    PROVE  LET new == Append(items, NewItem(id, prio))
           IN  /\ new \in Seq(Item)
               /\ DOMAIN new = 1 .. (Len(items) + 1)
               /\ \A j \in DOMAIN items : j \in DOMAIN new /\ new[j] = items[j]
               /\ new[Len(items) + 1] = NewItem(id, prio)
               /\ ActiveIndices(new) = ActiveIndices(items)
<1> DEFINE new == Append(items, NewItem(id, prio))
<1>1. NewItem(id, prio) \in Item /\ NewItem(id, prio).active = FALSE
    BY DEF NewItem, Item
<1>2. Len(items) \in Nat /\ DOMAIN items = 1 .. Len(items)
    BY ItemsFacts
<1>3. /\ new \in Seq(Item)
      /\ Len(new) = Len(items) + 1
      /\ \A j \in 1 .. Len(items) : new[j] = items[j]
      /\ new[Len(items) + 1] = NewItem(id, prio)
    BY <1>1, AppendProperties
<1>4. DOMAIN new = 1 .. (Len(items) + 1)
    BY <1>3, ItemsFacts
<1>5. \A j \in DOMAIN new : j \in DOMAIN items \/ j = Len(items) + 1
    BY <1>2, <1>4
<1>6. \A j \in DOMAIN items : j \in DOMAIN new
    BY <1>2, <1>4
<1>7. ActiveIndices(new) = ActiveIndices(items)
    <2> HIDE DEF new
    <2> QED BY <1>1, <1>2, <1>3, <1>5, <1>6 DEF ActiveIndices
<1> QED BY <1>2, <1>3, <1>4, <1>6, <1>7

-----------------------------------------------------------------------------
(* The inductive invariant.                                                *)

\* What every operation keeps of `current', even when a removal leaves it
\* pointing past or beside the item it was chosen for.
WeakCurrent(items, c) ==
    /\ c \in CurrentType
    /\ c = NoCurrent => ActiveIndices(items) = {}
    /\ c # NoCurrent => NoneMoreUrgent(items, c.priority)

IInv ==
    /\ TypeOK
    /\ NoDuplicates
    /\ ~panicked => WeakCurrent(list.items, list.current)
    /\ panicked => ~Peek(list)
    /\ Removable = {} => ~panicked /\ GoodCurrent(list.items, list.current)

\* What holds of the current item without removals implies what holds with them.
LEMMA GoodIsWeak ==
    ASSUME NEW items, NEW c, GoodCurrent(items, c)
    PROVE  WeakCurrent(items, c)
BY DEF GoodCurrent, WeakCurrent

\* A current that is not None has a real index and a documented priority.
LEMMA CurrentFacts ==
    ASSUME NEW c \in CurrentType, c # NoCurrent
    PROVE  /\ c \in [index : Nat \ {0}, priority : Priority]
           /\ c.index \in Nat \ {0}
           /\ c.priority \in Priority
           /\ c.priority \in Nat
<1>1. c \in [index : Nat \ {0}, priority : Priority]
    BY DEF CurrentType
<1>2. c.index \in Nat \ {0} /\ c.priority \in Priority
    BY <1>1
<1>3. \A p \in Priority : p \in Nat
    BY PriorityAssumption
<1> QED BY <1>1, <1>2, <1>3

\* Deactivating one item keeps `p is exceeded by no active item'.
LEMMA DeactivatedNoneMoreUrgent ==
    ASSUME NEW items \in Seq(Item), NEW i \in DOMAIN items, NEW p \in Priority,
           NoneMoreUrgent(items, p)
    PROVE  /\ NoneMoreUrgent(SetActive(items, i, FALSE), p)
           /\ ActiveIndices(SetActive(items, i, FALSE)) = ActiveIndices(items) \ {i}
<1> DEFINE new == SetActive(items, i, FALSE)
<1>1. /\ DOMAIN new = DOMAIN items
      /\ \A j \in DOMAIN items :
            /\ new[j].priority = items[j].priority
            /\ new[j].active = IF j = i THEN FALSE ELSE items[j].active
    BY DeactivatedFacts
<1> HIDE DEF new
<1>2. ActiveIndices(new) = ActiveIndices(items) \ {i}
    BY <1>1 DEF ActiveIndices
<1>3. \A j \in ActiveIndices(items) : j \in DOMAIN items
    BY DEF ActiveIndices
<1>4. NoneMoreUrgent(new, p)
    BY <1>1, <1>2, <1>3 DEF NoneMoreUrgent
<1> QED BY <1>2, <1>4 DEF new

\* Priolist::new: an empty list satisfies the inductive invariant.
LEMMA InitIInv == Init => IInv
<1> SUFFICES ASSUME Init PROVE IInv
    OBVIOUS
<1>1. list.items = << >> /\ list.current = NoCurrent /\ panicked = FALSE /\ popped = NoEid
    BY DEF Init, EmptyPriolist
<1>2. list \in [items : Seq(Item), current : CurrentType]
    BY DEF Init, EmptyPriolist, CurrentType
<1>3. DOMAIN list.items = {}
    BY <1>1
<1>4. ActiveIndices(list.items) = {}
    BY <1>3 DEF ActiveIndices
<1>5. GoodCurrent(list.items, list.current)
    BY <1>1, <1>4 DEF GoodCurrent, CurrentType
<1> QED BY <1>1, <1>2, <1>3, <1>5, GoodIsWeak DEF IInv, TypeOK, NoDuplicates

\* insert: the active items stay where they are.
LEMMA InsertKeepsIInv ==
    ASSUME NEW id \in Eid, NEW prio \in Priority, IInv, InsertItem(id, prio)
    PROVE  IInv'
<1> DEFINE items == list.items
           new   == Append(items, NewItem(id, prio))
<1>1. items \in Seq(Item) /\ list.current \in CurrentType
    BY DEF IInv, TypeOK
<1>2. list' = [items |-> new, current |-> list.current]
    BY DEF InsertItem, Insert, IInv, TypeOK
<1>3. /\ new \in Seq(Item)
      /\ DOMAIN new = 1 .. (Len(items) + 1)
      /\ \A j \in DOMAIN items : j \in DOMAIN new /\ new[j] = items[j]
      /\ new[Len(items) + 1] = NewItem(id, prio)
      /\ ActiveIndices(new) = ActiveIndices(items)
    BY <1>1, InsertFacts
<1>4. Len(items) \in Nat /\ DOMAIN items = 1 .. Len(items)
    BY <1>1, ItemsFacts
<1>5. ActiveIndices(items) \subseteq DOMAIN items
    BY DEF ActiveIndices
<1> HIDE DEF new, items
<1>6. TypeOK'
    BY <1>1, <1>2, <1>3 DEF TypeOK, InsertItem, IInv
<1>7. NoDuplicates'
    <2>1. \A j \in DOMAIN new : j \in DOMAIN items \/ j = Len(items) + 1
        BY <1>3, <1>4
    <2>2. \A j \in DOMAIN items : items[j].value # id
        BY DEF InsertItem, Values, items
    <2>3. NewItem(id, prio).value = id
        BY DEF NewItem
    <2>4. \A i, j \in DOMAIN items : items[i].value = items[j].value => i = j
        BY DEF IInv, NoDuplicates, items
    <2>5. \A i, j \in DOMAIN new : new[i].value = new[j].value => i = j
        BY <1>3, <2>1, <2>2, <2>3, <2>4
    <2> QED BY <1>2, <2>5 DEF NoDuplicates
<1>8. /\ WeakCurrent(items, list.current) => WeakCurrent(new, list.current)
      /\ GoodCurrent(items, list.current) => GoodCurrent(new, list.current)
    BY <1>3, <1>5 DEF WeakCurrent, GoodCurrent, NoneMoreUrgent
<1>9. list.items' = new /\ list.current' = list.current /\ panicked' = panicked
    BY <1>2 DEF InsertItem
<1>10. ~panicked
    BY DEF InsertItem
<1> QED BY <1>6, <1>7, <1>8, <1>9, <1>10 DEF IInv, items

\* remove: `current' is recomputed only when it is the item removed, and keeps
\* its priority otherwise.
LEMMA RemoveKeepsIInv ==
    ASSUME NEW id \in Removable, IInv, RemoveItem(id)
    PROVE  IInv'
<1> DEFINE items == list.items
           i     == IndexOf(items, id)
           new   == SwapRemove(items, i)
           prio  == items[i].priority
           cur   == IF list.current = Current(i, prio)
                    THEN ComputeNext(new, i, prio) ELSE list.current
<1>1. items \in Seq(Item) /\ list.current \in CurrentType /\ id \in Values(items)
    BY DEF IInv, TypeOK, RemoveItem
<1>2. i \in DOMAIN items /\ i \in Nat \ {0} /\ prio \in Priority
    BY <1>1, IndexOfFinds, ItemsFacts
<1>3. list' = [items |-> new, current |-> cur] /\ panicked' = panicked /\ popped' = NoEid
    BY <1>1 DEF RemoveItem, Remove, RemoveAtIndex
<1>4. /\ new \in Seq(Item)
      /\ DOMAIN new = 1 .. (Len(items) - 1)
      /\ \A j \in DOMAIN new : new[j] = items[IF j = i THEN Len(items) ELSE j]
    BY <1>1, <1>2, SwapRemoveFacts
<1>5. Len(items) \in Nat \ {0} /\ DOMAIN items = 1 .. Len(items)
    BY <1>1, <1>2, ItemsFacts
<1>6. \A j \in DOMAIN new : /\ j \in DOMAIN items
                             /\ j # Len(items)
                             /\ Len(items) \in DOMAIN items
    BY <1>4, <1>5
<1>7. ~panicked /\ WeakCurrent(items, list.current)
    BY DEF RemoveItem, IInv
<1> HIDE DEF new, items, i, prio
<1>8. NoDuplicates'
    <2>1. \A j, k \in DOMAIN items : items[j].value = items[k].value => j = k
        BY DEF IInv, NoDuplicates, items
    <2>2. \A j, k \in DOMAIN new : new[j].value = new[k].value => j = k
        BY <1>4, <1>6, <2>1
    <2> QED BY <1>3, <2>2 DEF NoDuplicates
<1>9. ASSUME NEW p \in Priority, NoneMoreUrgent(items, p)
      PROVE  NoneMoreUrgent(new, p)
    BY <1>4, <1>6, <1>9 DEF NoneMoreUrgent, ActiveIndices
<1>10. WeakCurrent(new, cur)
    <2>1. CASE list.current = Current(i, prio)
        <3>1. list.current # NoCurrent /\ list.current.priority = prio
            BY <1>2, <2>1 DEF Current, NoCurrent
        <3>2. NoneMoreUrgent(new, prio)
            BY <1>2, <1>7, <1>9, <3>1 DEF WeakCurrent
        <3>3. GoodCurrent(new, ComputeNext(new, i, prio))
            BY <1>2, <1>4, <3>2, ComputeNextIsGood
        <3> QED BY <2>1, <3>3, GoodIsWeak
    <2>2. CASE list.current # Current(i, prio) /\ list.current # NoCurrent
        <3>1. NoneMoreUrgent(new, list.current.priority)
            BY <1>1, <1>7, <1>9, <2>2, CurrentFacts DEF WeakCurrent
        <3> QED BY <1>1, <2>2, <3>1 DEF WeakCurrent
    <2>3. CASE list.current # Current(i, prio) /\ list.current = NoCurrent
        <3>1. ActiveIndices(new) = {}
            BY <1>4, <1>6, <1>7, <2>3 DEF WeakCurrent, ActiveIndices
        <3> QED BY <1>1, <2>3, <3>1 DEF WeakCurrent
    <2> QED BY <2>1, <2>2, <2>3
<1>11. TypeOK'
    <2> HIDE DEF cur
    <2>1. cur \in CurrentType
        BY <1>10 DEF WeakCurrent
    <2>2. panicked \in BOOLEAN
        BY DEF IInv, TypeOK
    <2> QED BY <1>3, <1>4, <2>1, <2>2 DEF TypeOK
<1>12. Removable # {}
    OBVIOUS
<1>13. list.items' = new /\ list.current' = cur
    BY <1>3
<1> QED BY <1>3, <1>7, <1>8, <1>10, <1>11, <1>12, <1>13 DEF IInv

\* activate: an item more urgent than `current' takes its place.
LEMMA ActivateKeepsIInv ==
    ASSUME NEW id \in Eid, IInv, ActivateItem(id)
    PROVE  IInv'
<1> DEFINE items == list.items
           i     == IndexOf(items, id)
           new   == SetActive(items, i, TRUE)
           prio  == items[i].priority
           cur   == IF list.current = NoCurrent \/ prio < list.current.priority
                    THEN Current(i, prio) ELSE list.current
<1>1. items \in Seq(Item) /\ list.current \in CurrentType /\ id \in Values(items)
    BY DEF IInv, TypeOK, ActivateItem
<1>2. i \in DOMAIN items /\ i \in Nat \ {0} /\ prio \in Priority /\ items[i].active \in BOOLEAN
    BY <1>1, IndexOfFinds, ItemsFacts
<1>3. \A p \in Priority : p \in Nat
    BY PriorityAssumption
<1>4. panicked' = panicked /\ panicked = FALSE /\ popped' = NoEid
    BY DEF ActivateItem, IInv, TypeOK
<1>5. CASE items[i].active
    <2>1. list' = list
        BY <1>1, <1>5 DEF ActivateItem, Activate
    <2> QED BY <1>4, <2>1 DEF IInv, TypeOK, NoDuplicates
<1>6. CASE ~items[i].active
    <2>1. list' = [items |-> new, current |-> cur]
        BY <1>1, <1>6 DEF ActivateItem, Activate, ActivateAtIndex
    <2>2. /\ new \in Seq(Item)
          /\ DOMAIN new = DOMAIN items
          /\ \A j \in DOMAIN items :
                /\ new[j].value = items[j].value
                /\ new[j].priority = items[j].priority
                /\ new[j].active = IF j = i THEN TRUE ELSE items[j].active
        BY <1>1, <1>2, SetActiveFacts
    <2>3. \A j \in DOMAIN items : items[j].priority \in Nat
        BY <1>1, <1>3, ItemsFacts
    <2>p. prio \in Nat /\ new[i].priority = prio
        BY <1>2, <1>3, <2>2
    <2> HIDE DEF new, items, i, prio
    <2>4. ActiveIndices(new) = ActiveIndices(items) \cup {i}
        BY <1>2, <2>2 DEF ActiveIndices
    <2>5. ActiveIndices(items) \subseteq DOMAIN items
        BY DEF ActiveIndices
    <2>6. WeakCurrent(items, list.current)
        BY <1>4 DEF IInv, items
    <2>7. ASSUME list.current = NoCurrent \/ prio < list.current.priority
          PROVE  GoodCurrent(new, Current(i, prio))
        <3>1. NoneMoreUrgent(new, prio)
            <4>1. CASE list.current = NoCurrent
                <5>1. ActiveIndices(new) = {i}
                    BY <2>4, <2>6, <4>1 DEF WeakCurrent
                <5> QED BY <2>p, <5>1 DEF NoneMoreUrgent
            <4>2. CASE list.current # NoCurrent
                <5>1. list.current.priority \in Nat /\ prio < list.current.priority
                    BY <1>1, <2>7, <4>2, CurrentFacts
                <5>2. \A j \in ActiveIndices(items) : list.current.priority <= items[j].priority
                    BY <2>6, <4>2 DEF WeakCurrent, NoneMoreUrgent
                <5>3. ASSUME NEW j \in ActiveIndices(items) PROVE prio <= new[j].priority
                    <6>1. new[j].priority \in Nat /\ list.current.priority <= new[j].priority
                        BY <2>2, <2>3, <2>5, <5>2
                    <6> QED BY <2>p, <5>1, <6>1
                <5>4. prio <= new[i].priority
                    BY <2>p
                <5> QED BY <2>4, <5>3, <5>4 DEF NoneMoreUrgent
            <4> QED BY <4>1, <4>2
        <3>2. Current(i, prio) \in CurrentType
            BY <1>2 DEF Current, CurrentType
        <3>3. Current(i, prio).index = i /\ Current(i, prio).priority = prio
            BY DEF Current
        <3>4. Current(i, prio) # NoCurrent
            BY <1>2 DEF Current, NoCurrent
        <3>5. i \in ActiveIndices(new) /\ new[i].priority = prio
            BY <1>2, <2>2, <2>4 DEF prio
        <3> QED BY <3>1, <3>2, <3>3, <3>4, <3>5 DEF GoodCurrent
    <2>8. ASSUME list.current # NoCurrent, ~(prio < list.current.priority)
          PROVE  NoneMoreUrgent(new, list.current.priority)
        <3>1. list.current.priority \in Nat
            BY <1>1, <2>8, CurrentFacts
        <3>2. \A j \in ActiveIndices(items) : list.current.priority <= items[j].priority
            BY <2>6, <2>8 DEF WeakCurrent, NoneMoreUrgent
        <3>3. list.current.priority <= new[i].priority
            BY <2>p, <2>8, <3>1
        <3> QED BY <2>2, <2>4, <2>5, <3>2, <3>3 DEF NoneMoreUrgent
    <2>9. WeakCurrent(new, cur)
        <3>1. CASE list.current = NoCurrent \/ prio < list.current.priority
            BY <2>7, <3>1, GoodIsWeak
        <3>2. CASE ~(list.current = NoCurrent \/ prio < list.current.priority)
            BY <1>1, <2>8, <3>2 DEF WeakCurrent
        <3> QED BY <3>1, <3>2
    <2>10. GoodCurrent(items, list.current) => GoodCurrent(new, cur)
        <3>1. CASE list.current = NoCurrent \/ prio < list.current.priority
            BY <2>7, <3>1
        <3>2. CASE ~(list.current = NoCurrent \/ prio < list.current.priority)
            BY <1>1, <2>2, <2>4, <2>5, <2>8, <3>2 DEF GoodCurrent
        <3> QED BY <3>1, <3>2
    <2> HIDE DEF cur
    <2>11. TypeOK'
        BY <1>4, <2>1, <2>2, <2>9 DEF TypeOK, WeakCurrent
    <2>12. NoDuplicates'
        <3>1. \A j, k \in DOMAIN items : items[j].value = items[k].value => j = k
            BY DEF IInv, NoDuplicates, items
        <3>2. \A j, k \in DOMAIN new : new[j].value = new[k].value => j = k
            BY <2>2, <3>1
        <3> QED BY <2>1, <3>2 DEF NoDuplicates
    <2>13. list.items' = new /\ list.current' = cur
        BY <2>1
    <2> QED BY <1>4, <2>9, <2>10, <2>11, <2>12, <2>13 DEF IInv, items
<1> QED BY <1>2, <1>5, <1>6

\* deactivate and pop: one item becomes inactive, and when it was the current
\* one compute_next chooses again.  c is the current item before the step.
LEMMA DeactivatedList ==
    ASSUME NEW items \in Seq(Item), NEW i \in DOMAIN items, NEW c \in CurrentType,
           WeakCurrent(items, c), c # NoCurrent
    PROVE  LET new == SetActive(items, i, FALSE)
           IN  /\ GoodCurrent(new, ComputeNext(new, i, c.priority))
               /\ WeakCurrent(new, c)
               /\ GoodCurrent(items, c) /\ c.index # i => GoodCurrent(new, c)
<1> DEFINE new == SetActive(items, i, FALSE)
<1>1. c.priority \in Priority /\ NoneMoreUrgent(items, c.priority)
    BY CurrentFacts DEF WeakCurrent
<1>2. NoneMoreUrgent(new, c.priority) /\ ActiveIndices(new) = ActiveIndices(items) \ {i}
    BY <1>1, DeactivatedNoneMoreUrgent
<1>3. /\ new \in Seq(Item)
      /\ \A j \in DOMAIN items : new[j].priority = items[j].priority
    BY DeactivatedFacts
<1>4. i \in Nat
    BY ItemsFacts
<1> HIDE DEF new
<1>5. GoodCurrent(new, ComputeNext(new, i, c.priority))
    BY <1>1, <1>2, <1>3, <1>4, ComputeNextIsGood
<1>6. WeakCurrent(new, c)
    BY <1>2 DEF WeakCurrent
<1>7. GoodCurrent(items, c) /\ c.index # i => GoodCurrent(new, c)
    BY <1>2, <1>3 DEF GoodCurrent, ActiveIndices
<1> QED BY <1>5, <1>6, <1>7 DEF new

\* A current is determined by its index and its priority.
LEMMA CurrentIsPair ==
    ASSUME NEW c \in CurrentType
    PROVE  c = Current(c.index, c.priority)
BY DEF CurrentType, Current, NoCurrent

\* A step that only changes flags keeps the ids distinct.
LEMMA FlagsKeepNoDuplicates ==
    ASSUME NEW i, IInv, i \in DOMAIN list.items, list.items' = SetActive(list.items, i, FALSE)
    PROVE  NoDuplicates'
<1> DEFINE items == list.items
           new   == SetActive(items, i, FALSE)
<1>1. items \in Seq(Item)
    BY DEF IInv, TypeOK
<1>2. DOMAIN new = DOMAIN items /\ \A j \in DOMAIN items : new[j].value = items[j].value
    BY <1>1, DeactivatedFacts
<1>3. \A j, k \in DOMAIN items : items[j].value = items[k].value => j = k
    BY DEF IInv, NoDuplicates
<1> HIDE DEF new, items
<1>4. \A j, k \in DOMAIN new : new[j].value = new[k].value => j = k
    BY <1>2, <1>3
<1> QED BY <1>4 DEF NoDuplicates, new, items

\* deactivate: compute_next runs only when the current item is deactivated.
LEMMA DeactivateKeepsIInv ==
    ASSUME NEW id \in Eid, IInv, DeactivateItem(id)
    PROVE  IInv'
<1> DEFINE items == list.items
           i     == IndexOf(items, id)
           new   == SetActive(items, i, FALSE)
           prio  == items[i].priority
           cur   == IF list.current = Current(i, prio)
                    THEN ComputeNext(new, i, prio) ELSE list.current
<1>1. items \in Seq(Item) /\ list.current \in CurrentType /\ id \in Values(items)
    BY DEF IInv, TypeOK, DeactivateItem
<1>2. i \in DOMAIN items /\ i \in Nat \ {0} /\ prio \in Priority /\ items[i].active \in BOOLEAN
    BY <1>1, IndexOfFinds, ItemsFacts
<1>3. panicked' = panicked /\ panicked = FALSE /\ popped' = NoEid
    BY DEF DeactivateItem, IInv, TypeOK
<1>4. WeakCurrent(items, list.current)
    BY <1>3 DEF IInv
<1>5. CASE ~items[i].active
    <2>1. list' = list
        BY <1>1, <1>5 DEF DeactivateItem, Deactivate
    <2> QED BY <1>3, <2>1 DEF IInv, TypeOK, NoDuplicates
<1>6. CASE items[i].active
    <2>1. list' = [items |-> new, current |-> cur]
        BY <1>1, <1>6 DEF DeactivateItem, Deactivate, DeactivateAtIndex
    <2>2. new \in Seq(Item)
        BY <1>1, <1>2, DeactivatedFacts
    <2>3. list.current # NoCurrent
        BY <1>2, <1>4, <1>6 DEF WeakCurrent, ActiveIndices
    <2>4. /\ GoodCurrent(new, ComputeNext(new, i, list.current.priority))
          /\ WeakCurrent(new, list.current)
          /\ GoodCurrent(items, list.current) /\ list.current.index # i
                => GoodCurrent(new, list.current)
        BY <1>1, <1>2, <1>4, <2>3, DeactivatedList
    <2>5. NoDuplicates'
        BY <1>2, <2>1, FlagsKeepNoDuplicates
    <2> HIDE DEF new, items, i, prio
    <2>6. WeakCurrent(new, cur)
        <3>1. CASE list.current = Current(i, prio)
            BY <2>4, <3>1, GoodIsWeak DEF Current
        <3>2. CASE list.current # Current(i, prio)
            BY <2>4, <3>2
        <3> QED BY <3>1, <3>2
    <2>7. GoodCurrent(items, list.current) => GoodCurrent(new, cur)
        <3>1. CASE list.current = Current(i, prio)
            BY <2>4, <3>1 DEF Current
        <3>2. CASE list.current # Current(i, prio)
            <4>1. GoodCurrent(items, list.current) => list.current.index # i
                BY <1>1, <2>3, <3>2, CurrentIsPair DEF GoodCurrent, prio
            <4> QED BY <2>4, <3>2, <4>1
        <3> QED BY <3>1, <3>2
    <2> HIDE DEF cur
    <2>8. TypeOK'
        BY <1>3, <2>1, <2>2, <2>6 DEF TypeOK, WeakCurrent
    <2>9. list.items' = new /\ list.current' = cur
        BY <2>1
    <2> QED BY <1>3, <2>5, <2>6, <2>7, <2>8, <2>9 DEF IInv, items
<1> QED BY <1>2, <1>5, <1>6

\* pop: the item popped becomes inactive and compute_next chooses the next one; a
\* pop past the end, possible only after a removal, leaves no current item.
LEMMA PopKeepsIInv ==
    ASSUME IInv, PopItem
    PROVE  IInv'
<1> DEFINE items == list.items
           i     == list.current.index
           new   == SetActive(items, i, FALSE)
           cur   == ComputeNext(new, i, list.current.priority)
<1>1. /\ items \in Seq(Item)
      /\ list.current \in CurrentType
      /\ list.current # NoCurrent
      /\ panicked = FALSE
      /\ list \in [items : Seq(Item), current : CurrentType]
    BY DEF IInv, TypeOK, PopItem, Peek
<1>2. WeakCurrent(items, list.current)
    BY <1>1 DEF IInv
<1>3. CASE i \notin DOMAIN items
    <2>1. /\ list' = [list EXCEPT !.current = NoCurrent]
          /\ popped' = NoEid
          /\ panicked' = TRUE
        BY <1>1, <1>3 DEF PopItem, PopPanics, Peek
    <2>2. list.items' = items /\ list' \in [items : Seq(Item), current : CurrentType]
        BY <1>1, <2>1 DEF CurrentType
    <2>3. Removable # {}
        BY <1>1, <1>3 DEF IInv, GoodCurrent, ActiveIndices
    <2>4. ~Peek(list')
        BY <1>1, <2>1 DEF Peek
    <2> QED BY <2>1, <2>2, <2>3, <2>4 DEF IInv, TypeOK, NoDuplicates
<1>4. CASE i \in DOMAIN items
    <2>1. /\ list' = [items |-> new, current |-> cur]
          /\ popped' = items[i].value
          /\ panicked' = FALSE
        BY <1>1, <1>4 DEF PopItem, PopPanics, Pop, PopValue, Peek
    <2>2. new \in Seq(Item)
        BY <1>1, <1>4, DeactivatedFacts
    <2>3. GoodCurrent(new, cur)
        BY <1>1, <1>2, <1>4, DeactivatedList
    <2>4. NoDuplicates'
        BY <1>4, <2>1, FlagsKeepNoDuplicates
    <2>5. items[i].value \in Eid
        BY <1>1, <1>4, ItemsFacts
    <2> HIDE DEF new, cur
    <2>6. TypeOK'
        BY <2>1, <2>2, <2>3, <2>5 DEF TypeOK, GoodCurrent
    <2>7. list.items' = new /\ list.current' = cur
        BY <2>1
    <2> QED BY <2>1, <2>3, <2>4, <2>6, <2>7, GoodIsWeak DEF IInv
<1> QED BY <1>3, <1>4

\* Every operation of the list preserves the inductive invariant.
LEMMA NextKeepsIInv == IInv /\ [Next]_vars => IInv'
<1> SUFFICES ASSUME IInv, [Next]_vars PROVE IInv'
    OBVIOUS
<1>1. ASSUME NEW id \in Eid, NEW prio \in Priority, InsertItem(id, prio) PROVE IInv'
    BY <1>1, InsertKeepsIInv
<1>2. ASSUME NEW id \in Removable, RemoveItem(id) PROVE IInv'
    BY <1>2, RemoveKeepsIInv
<1>3. ASSUME NEW id \in Eid, ActivateItem(id) PROVE IInv'
    BY <1>3, ActivateKeepsIInv
<1>4. ASSUME NEW id \in Eid, DeactivateItem(id) PROVE IInv'
    BY <1>4, DeactivateKeepsIInv
<1>5. CASE PopItem
    BY <1>5, PopKeepsIInv
<1>6. CASE UNCHANGED vars
    BY <1>6 DEF vars, IInv, TypeOK, NoDuplicates
<1> QED BY <1>1, <1>2, <1>3, <1>4, <1>5, <1>6 DEF Next

\* The inductive invariant holds in every reachable state of the list: the safety
\* theorems below are read off it.
THEOREM SpecIInv == Spec => []IInv
BY InitIInv, NextKeepsIInv, PTL DEF Spec

\* The type invariant: indices are positive, priorities are documented ones.
THEOREM TypeCorrect == Spec => []TypeOK
<1>1. IInv => TypeOK
    BY DEF IInv
<1> QED BY <1>1, SpecIInv, PTL

\* No operation forgets a ready endpoint: while one is active, peek() is true.
THEOREM ReadyItemsRemembered == Spec => []NoReadyItemForgotten
<1>1. IInv => NoReadyItemForgotten
    BY DEF IInv, NoReadyItemForgotten, WeakCurrent, Peek
<1> QED BY <1>1, SpecIInv, PTL

\* The priority kept in `current' is never less urgent than a ready endpoint's,
\* removals included.
THEOREM MostUrgentFirst == Spec => []CurrentIsMostUrgent
<1>1. IInv => CurrentIsMostUrgent
    <2> SUFFICES ASSUME IInv, Peek(list) PROVE
            \A i \in ActiveIndices(list.items) : list.current.priority <= list.items[i].priority
        BY DEF CurrentIsMostUrgent
    <2>1. CASE ~panicked
        BY <2>1 DEF IInv, WeakCurrent, NoneMoreUrgent, Peek
    <2>2. CASE panicked
        BY <2>2 DEF IInv
    <2> QED BY <2>1, <2>2
<1> QED BY <1>1, SpecIInv, PTL

\* swap_remove and push never store an endpoint twice.
THEOREM IdsDistinct == Spec => []NoDuplicates
<1>1. IInv => NoDuplicates
    BY DEF IInv
<1> QED BY <1>1, SpecIInv, PTL

\* As long as no endpoint is removed, pop returns a stored and ready endpoint.
THEOREM StablePopIsReady == Spec => []StableCurrentIsActive
<1>1. IInv => StableCurrentIsActive
    BY DEF IInv, StableCurrentIsActive, CurrentIsActive, GoodCurrent, Peek
<1> QED BY <1>1, SpecIInv, PTL

-----------------------------------------------------------------------------
(* The refinement of ReadySet.                                             *)

\* The mapped variables in terms of the items.
KnownOf(items) ==
    {[value |-> items[i].value, priority |-> items[i].priority] : i \in DOMAIN items}

ReadyOf(items) == {items[i].value : i \in ActiveIndices(items)}

\* The refinement mapping depends on the vector of items only.
LEMMA MappingFacts ==
    /\ Known = KnownOf(list.items)
    /\ Ready = ReadyOf(list.items)
BY DEF Known, KnownOf, Ready, ReadyOf

\* Setting a flag changes the ready ids only, and by that id only.
LEMMA FlagsMapped ==
    ASSUME NEW items \in Seq(Item), NEW i \in DOMAIN items, NEW b \in BOOLEAN,
           \A j, k \in DOMAIN items : items[j].value = items[k].value => j = k
    PROVE  LET new == SetActive(items, i, b)
           IN  /\ KnownOf(new) = KnownOf(items)
               /\ ReadyOf(new) = IF b THEN ReadyOf(items) \cup {items[i].value}
                                      ELSE ReadyOf(items) \ {items[i].value}
<1> DEFINE new == SetActive(items, i, b)
<1>1. /\ DOMAIN new = DOMAIN items
      /\ \A j \in DOMAIN items :
            /\ new[j].value = items[j].value
            /\ new[j].priority = items[j].priority
            /\ new[j].active = IF j = i THEN b ELSE items[j].active
    BY SetActiveFacts
<1> HIDE DEF new
<1>2. KnownOf(new) = KnownOf(items)
    BY <1>1 DEF KnownOf
<1>3. CASE b = TRUE
    <2>1. ActiveIndices(new) = ActiveIndices(items) \cup {i}
        BY <1>1, <1>3 DEF ActiveIndices
    <2>2. ReadyOf(new) = ReadyOf(items) \cup {items[i].value}
        BY <1>1, <2>1 DEF ReadyOf, ActiveIndices
    <2> QED BY <1>2, <1>3, <2>2 DEF new
<1>4. CASE b = FALSE
    <2>1. ActiveIndices(new) = ActiveIndices(items) \ {i}
        BY <1>1, <1>4 DEF ActiveIndices
    <2>2. \A j \in ActiveIndices(items) : j \in DOMAIN items
        BY DEF ActiveIndices
    <2>3. ReadyOf(new) = ReadyOf(items) \ {items[i].value}
        BY <1>1, <2>1, <2>2 DEF ReadyOf
    <2> QED BY <1>2, <1>4, <2>3 DEF new
<1> QED BY <1>3, <1>4

\* An empty list maps to a ReadySet that knows no endpoint.
LEMMA InitMapped == Init => Abstract!Init
<1> SUFFICES ASSUME Init PROVE Abstract!Init
    OBVIOUS
<1>1. list.items = << >> /\ popped = 0
    BY DEF Init, EmptyPriolist, NoEid
<1>2. DOMAIN list.items = {} /\ ActiveIndices(list.items) = {}
    BY <1>1 DEF ActiveIndices
<1> QED BY <1>1, <1>2 DEF Abstract!Init, Known, Ready

\* insert maps to Join: the new endpoint is known and not ready.
LEMMA InsertMapped ==
    ASSUME NEW id \in Eid, NEW prio \in Priority, IInv, InsertItem(id, prio)
    PROVE  Abstract!Join(id, prio)
<1> DEFINE items == list.items
           new   == Append(items, NewItem(id, prio))
<1>1. items \in Seq(Item)
    BY DEF IInv, TypeOK
<1>2. list.items' = new /\ popped' = 0
    BY DEF InsertItem, Insert, IInv, TypeOK, NoEid
<1>3. /\ DOMAIN new = 1 .. (Len(items) + 1)
      /\ \A j \in DOMAIN items : j \in DOMAIN new /\ new[j] = items[j]
      /\ new[Len(items) + 1] = NewItem(id, prio)
      /\ ActiveIndices(new) = ActiveIndices(items)
    BY <1>1, InsertFacts
<1>4. /\ \A j \in DOMAIN new : j \in DOMAIN items \/ j = Len(items) + 1
      /\ Len(items) + 1 \in DOMAIN new
    BY <1>1, <1>3, ItemsFacts
<1> HIDE DEF new, items
<1>5. KnownOf(new) = KnownOf(items) \cup {[value |-> id, priority |-> prio]}
    BY <1>3, <1>4 DEF KnownOf, NewItem
<1>6. ReadyOf(new) = ReadyOf(items)
    BY <1>3 DEF ReadyOf, ActiveIndices
<1>7. Known' = KnownOf(new) /\ Ready' = ReadyOf(new)
    BY <1>2 DEF Known, KnownOf, Ready, ReadyOf
<1> QED BY <1>2, <1>5, <1>6, <1>7, MappingFacts DEF Abstract!Join, items

\* The facts of a state in which the item at index i is about to change its flag.
LEMMA FlagStepMapped ==
    ASSUME NEW i, NEW b \in BOOLEAN, IInv, i \in DOMAIN list.items,
           list.items' = SetActive(list.items, i, b)
    PROVE  /\ Known' = Known
           /\ Ready' = IF b THEN Ready \cup {list.items[i].value}
                            ELSE Ready \ {list.items[i].value}
<1>1. /\ list.items \in Seq(Item)
      /\ \A j, k \in DOMAIN list.items : list.items[j].value = list.items[k].value => j = k
    BY DEF IInv, TypeOK, NoDuplicates
<1> DEFINE new == SetActive(list.items, i, b)
<1>2. /\ KnownOf(new) = KnownOf(list.items)
      /\ ReadyOf(new) = IF b THEN ReadyOf(list.items) \cup {list.items[i].value}
                                     ELSE ReadyOf(list.items) \ {list.items[i].value}
    BY <1>1, FlagsMapped
<1>3. Known' = KnownOf(new) /\ Ready' = ReadyOf(new)
    BY DEF Known, KnownOf, Ready, ReadyOf
<1> QED BY <1>2, <1>3, MappingFacts

\* activate maps to BecomeReady, also when the endpoint was ready already.
LEMMA ActivateMapped ==
    ASSUME NEW id \in Eid, IInv, ActivateItem(id)
    PROVE  Abstract!BecomeReady(id)
<1> DEFINE i == IndexOf(list.items, id)
<1>1. list.items \in Seq(Item) /\ id \in Values(list.items) /\ popped' = 0
    BY DEF IInv, TypeOK, ActivateItem, NoEid
<1>2. i \in DOMAIN list.items /\ list.items[i].value = id
    BY <1>1, IndexOfFinds
<1>3. \E k \in Known : k.value = id
    <2> DEFINE k == [value |-> list.items[i].value, priority |-> list.items[i].priority]
    <2>1. k \in Known
        BY <1>2 DEF Known
    <2>2. k.value = id
        BY <1>2
    <2> QED BY <2>1, <2>2
<1>4. CASE list.items[i].active
    <2>1. list' = list
        BY <1>1, <1>4 DEF ActivateItem, Activate
    <2>2. id \in Ready
        BY <1>2, <1>4 DEF Ready, ActiveIndices
    <2>3. Known' = Known /\ Ready' = Ready
        BY <2>1 DEF Known, Ready
    <2> QED BY <1>1, <1>3, <2>2, <2>3 DEF Abstract!BecomeReady
<1>5. CASE ~list.items[i].active
    <2>1. list.items' = SetActive(list.items, i, TRUE)
        BY <1>1, <1>5 DEF ActivateItem, Activate, ActivateAtIndex
    <2>2. ASSUME NEW b \in BOOLEAN, b = TRUE
          PROVE  Known' = Known /\ Ready' = Ready \cup {list.items[i].value}
        BY <1>2, <2>1, <2>2, FlagStepMapped
    <2>3. Known' = Known /\ Ready' = Ready \cup {id}
        BY <1>2, <2>2
    <2> QED BY <1>1, <1>3, <2>3 DEF Abstract!BecomeReady
<1> QED BY <1>4, <1>5

\* deactivate maps to LoseReady.
LEMMA DeactivateMapped ==
    ASSUME NEW id \in Eid, IInv, DeactivateItem(id)
    PROVE  Abstract!LoseReady(id)
<1> DEFINE i == IndexOf(list.items, id)
<1>1. list.items \in Seq(Item) /\ id \in Values(list.items) /\ popped' = 0
    BY DEF IInv, TypeOK, DeactivateItem, NoEid
<1>2. i \in DOMAIN list.items /\ list.items[i].value = id
    BY <1>1, IndexOfFinds
<1>3. CASE ~list.items[i].active
    <2>1. list' = list
        BY <1>1, <1>3 DEF DeactivateItem, Deactivate
    <2>2. id \notin Ready
        BY <1>2, <1>3 DEF IInv, NoDuplicates, Ready, ActiveIndices
    <2>3. Known' = Known /\ Ready' = Ready
        BY <2>1 DEF Known, Ready
    <2> QED BY <1>1, <2>2, <2>3 DEF Abstract!LoseReady
<1>4. CASE list.items[i].active
    <2>1. list.items' = SetActive(list.items, i, FALSE)
        BY <1>1, <1>4 DEF DeactivateItem, Deactivate, DeactivateAtIndex
    <2>2. ASSUME NEW b \in BOOLEAN, b = FALSE
          PROVE  Known' = Known /\ Ready' = Ready \ {list.items[i].value}
        BY <1>2, <2>1, <2>2, FlagStepMapped
    <2>3. Known' = Known /\ Ready' = Ready \ {id}
        BY <1>2, <2>2
    <2> QED BY <1>1, <2>3 DEF Abstract!LoseReady
<1> QED BY <1>3, <1>4

\* Without removals pop maps to Take: what it returns is ready, and no ready
\* endpoint is more urgent.
LEMMA PopMapped ==
    ASSUME IInv, PopItem, Removable = {}
    PROVE  \E id \in Eid : Abstract!Take(id)
<1> DEFINE items == list.items
           i     == list.current.index
           id    == items[i].value
<1>1. /\ items \in Seq(Item)
      /\ list.current # NoCurrent
      /\ GoodCurrent(items, list.current)
    BY DEF IInv, TypeOK, PopItem, Peek
<1>2. /\ i \in ActiveIndices(items)
      /\ i \in DOMAIN items
      /\ items[i].priority = list.current.priority
      /\ NoneMoreUrgent(items, list.current.priority)
    BY <1>1 DEF GoodCurrent, ActiveIndices
<1>3. list.items' = SetActive(items, i, FALSE) /\ popped' = id
    <2>1. ~PopPanics(list)
        BY <1>2 DEF PopPanics
    <2>2. list' = Pop(list) /\ popped' = PopValue(list)
        BY <2>1 DEF PopItem
    <2> QED BY <2>2 DEF Pop, PopValue
<1>4. ASSUME NEW b \in BOOLEAN, b = FALSE
      PROVE  Known' = Known /\ Ready' = Ready \ {id}
    BY <1>2, <1>3, <1>4, FlagStepMapped
<1>5. id \in Eid /\ id \in Ready
    BY <1>1, <1>2, ItemsFacts DEF Ready
<1>6. \E k \in Known : /\ k.value = id
                        /\ \A other \in Known : other.value \in Ready => k.priority <= other.priority
    <2> DEFINE k == [value |-> id, priority |-> items[i].priority]
    <2>1. k \in Known
        BY <1>2 DEF Known
    <2>2. ASSUME NEW other \in Known, other.value \in Ready
          PROVE  items[i].priority <= other.priority
        <3>1. PICK j \in DOMAIN items : other = [value |-> items[j].value, priority |-> items[j].priority]
            BY DEF Known
        <3>2. PICK l \in ActiveIndices(items) : other.value = items[l].value
            BY <2>2 DEF Ready
        <3>3. l \in DOMAIN items
            BY DEF ActiveIndices
        <3>4. j = l
            BY <3>1, <3>2, <3>3 DEF IInv, NoDuplicates
        <3> QED BY <1>2, <3>1, <3>4 DEF NoneMoreUrgent
    <2> QED BY <2>1, <2>2
<1> HIDE DEF id
<1>7. Abstract!Take(id)
    BY <1>3, <1>4, <1>5, <1>6 DEF Abstract!Take
<1> QED BY <1>5, <1>7

\* Without removals, the list of the code implements the set of ready endpoints:
\* every pop takes a ready endpoint of the most urgent priority.
THEOREM Refinement ==
    ASSUME Removable = {}
    PROVE  Spec => ImplementsReadySet
<1> DEFINE absVars == <<Known, Ready, popped>>
<1>1. IInv /\ [Next]_vars => [Abstract!Next]_absVars
    <2> SUFFICES ASSUME IInv, [Next]_vars PROVE [Abstract!Next]_absVars
        OBVIOUS
    <2>1. ASSUME NEW id \in Eid, NEW prio \in Priority, InsertItem(id, prio) PROVE Abstract!Next
        BY <2>1, InsertMapped DEF Abstract!Next
    <2>2. ASSUME NEW id \in Eid, ActivateItem(id) PROVE Abstract!Next
        BY <2>2, ActivateMapped DEF Abstract!Next
    <2>3. ASSUME NEW id \in Eid, DeactivateItem(id) PROVE Abstract!Next
        BY <2>3, DeactivateMapped DEF Abstract!Next
    <2>4. CASE PopItem
        BY <2>4, PopMapped DEF Abstract!Next
    <2>5. CASE UNCHANGED vars
        BY <2>5 DEF vars, Known, Ready
    <2> QED BY <2>1, <2>2, <2>3, <2>4, <2>5 DEF Next
<1> QED BY <1>1, InitMapped, SpecIInv, PTL DEF Spec, ImplementsReadySet, Abstract!Spec
=============================================================================
