---------------------------- MODULE IntrusiveList ----------------------------
(***************************************************************************)
(* The circular doubly linked list of                                      *)
(* app/qzap/common/utility/intrusive_list.h.  A link holds the distances   *)
(* of its neighbours from the list object, so that a memory block with the *)
(* list and its entries may be copied to another address; and a copy of    *)
(* them, so that a damaged link is noticed and followed no further.        *)
(***************************************************************************)
EXTENDS Integers, Sequences, SequencesExt, FiniteSets

CONSTANTS
    Objects,     \* the entries' addresses within the block
    Lists,       \* the lists' addresses within the block
    Bases,       \* the addresses the block is copied to
    Temp,        \* the address of swap's list, on the stack
    MaxDamage,   \* bound: damaged links
    NULL

VARIABLES
    base,        \* the address of the block
    links,       \* place in the block -> the intrusive_link at it
    damaged,     \* the places of links whose copy does not agree
    content      \* ghost: list -> its entries, first to last

vars == <<base, links, damaged, content>>

Places == Objects \cup Lists \cup {Temp}
Address(p) == IF p = Temp THEN Temp ELSE base + p
Reset == [next |-> 0, prev |-> 0]

-----------------------------------------------------------------------------
(* intrusive_link: a link of an entry of list l, or of l itself.           *)

PtrToOffset(l, p) == Address(p) - Address(l)

\* A distance that leads to no place is not followed.
OffsetToPtr(l, offset) ==
    LET found == {p \in Places : Address(p) = Address(l) + offset}
    IN  IF found = {} THEN NULL ELSE CHOOSE p \in found : TRUE

valid(p) == p \notin damaged

\* Variant: the copy is not compared.
nextUnchecked(lk, l, p) == OffsetToPtr(l, lk[p].next)

next(lk, l, p) == IF valid(p) THEN OffsetToPtr(l, lk[p].next) ELSE NULL
prev(lk, l, p) == IF valid(p) THEN OffsetToPtr(l, lk[p].prev) ELSE NULL

set_next(lk, l, p, to) ==
    IF valid(p) THEN [lk EXCEPT ![p].next = PtrToOffset(l, to)] ELSE lk

set_prev(lk, l, p, to) ==
    IF valid(p) THEN [lk EXCEPT ![p].prev = PtrToOffset(l, to)] ELSE lk

-----------------------------------------------------------------------------
(* intrusive_list: what an operation on list l makes of the links.  The    *)
(* list object itself is the end node.                                     *)

insert(lk, l, position, obj) ==
    IF position = NULL \/ prev(lk, l, position) = NULL
    THEN lk
    ELSE LET before == prev(lk, l, position)
             lk1 == set_prev(lk, l, position, obj)
             lk2 == set_next(lk1, l, obj, position)
             lk3 == set_prev(lk2, l, obj, before)
         IN  set_next(lk3, l, before, obj)

erase(lk, l, obj) ==
    IF next(lk, l, obj) = NULL \/ prev(lk, l, obj) = NULL
    THEN lk
    ELSE LET after == next(lk, l, obj)
             before == prev(lk, l, obj)
             lk1 == set_prev(lk, l, after, before)
             lk2 == set_next(lk1, l, before, after)
         IN  [lk2 EXCEPT ![obj] = Reset]

\* The end node is at distance 0 from itself.
clear(lk, l) == [lk EXCEPT ![l] = Reset]

\* The entries of src go to the end of dest one by one, each found before
\* its predecessor is taken out.
transfer(lk, src, dest) ==
    LET Move[n \in 0..Cardinality(Objects), p \in Places \cup {NULL},
             l \in [Places -> [next : Int, prev : Int]]] ==
          IF n = 0 \/ p = src
          THEN l
          ELSE Move[n - 1, next(l, src, p),
                    insert(erase(l, src, p), dest, dest, p)]
    IN  Move[Cardinality(Objects), next(lk, src, src), lk]

swap(lk, l, x) ==
    transfer(transfer(transfer(clear(lk, Temp), l, Temp), x, l), Temp, x)

-----------------------------------------------------------------------------
(* A program uses the lists: an entry is on one list at a time, and erased *)
(* from the list it is on.  An operation at a damaged link does nothing.   *)

Elsewhere(o) == \A l \in Lists : ~Contains(content[l], o)

Inserts(l, position, obj, index) ==
    /\ Elsewhere(obj)
    /\ links' = insert(links, l, position, obj)
    /\ content' = IF position = NULL \/ prev(links, l, position) = NULL
                  THEN content
                  ELSE [content EXCEPT ![l] = InsertAt(@, index, obj)]
    /\ UNCHANGED <<base, damaged>>

PushBack(l, o) == Inserts(l, l, o, Len(content[l]) + 1)

PushFront(l, o) == Inserts(l, next(links, l, l), o, 1)

InsertBefore(l, index, o) == Inserts(l, content[l][index], o, index)

Erases(l, obj) ==
    /\ links' = erase(links, l, obj)
    /\ content' = IF valid(obj)
                  THEN [content EXCEPT ![l] = Remove(@, obj)]
                  ELSE content
    /\ UNCHANGED <<base, damaged>>

Erase(l, index) == Erases(l, content[l][index])

\* On an empty list, too.
PopFront(l) == valid(l) /\ Erases(l, next(links, l, l))
PopBack(l) == valid(l) /\ Erases(l, prev(links, l, l))

Clear(l) ==
    /\ content[l] # <<>> \/ ~valid(l)
    /\ damaged' = damaged \ {l}
    /\ links' = clear(links, l)
    /\ content' = [content EXCEPT ![l] = <<>>]
    /\ UNCHANGED base

\* swap follows the links without regard to damage.
Swap(l, x) ==
    /\ damaged = {}
    /\ links' = swap(links, l, x)
    /\ content' = [content EXCEPT ![l] = content[x], ![x] = content[l]]
    /\ UNCHANGED <<base, damaged>>

\* The block is copied, or another process maps it at its own address.
Copy(b) ==
    /\ b # base
    /\ base' = b
    /\ UNCHANGED <<links, damaged, content>>

Damage(p) ==
    /\ Cardinality(damaged) < MaxDamage
    /\ valid(p)
    /\ damaged' = damaged \cup {p}
    /\ UNCHANGED <<base, links, content>>

Init ==
    /\ base \in Bases
    /\ links = [p \in Places |-> Reset]
    /\ damaged = {}
    /\ content = [l \in Lists |-> <<>>]

Next ==
    \/ \E l \in Lists, o \in Objects : PushBack(l, o) \/ PushFront(l, o)
    \/ \E l \in Lists : \E i \in DOMAIN content[l] :
         Erase(l, i) \/ \E o \in Objects : InsertBefore(l, i, o)
    \/ \E l \in Lists : PopFront(l) \/ PopBack(l) \/ Clear(l)
    \/ \E l, x \in Lists : l < x /\ Swap(l, x)
    \/ \E b \in Bases : Copy(b)
    \/ \E p \in Objects \cup Lists : Damage(p)

Spec == Init /\ [][Next]_vars

-----------------------------------------------------------------------------
(* Properties.                                                             *)

\* The entries met from the end node on, to the end node or a damaged link.
Walk(l, Step(_)) ==
    LET Met[n \in 0..(Cardinality(Objects) + 1), p \in Places \cup {NULL},
            met \in Seq(Places)] ==
          IF n = 0 \/ p \in {l, NULL}
          THEN met
          ELSE Met[n - 1, Step(p), Append(met, p)]
    IN  Met[Cardinality(Objects) + 1, Step(l), <<>>]

Forward(l) == Walk(l, LAMBDA p : next(links, l, p))
Backward(l) == Walk(l, LAMBDA p : prev(links, l, p))

\* After any operations on several lists, swaps and copies of the block to
\* other addresses included, each list is linked in both directions in the
\* order in which its entries were put there.
LinksAreContent ==
    damaged = {} =>
      \A l \in Lists :
        Forward(l) = content[l] /\ Backward(l) = Reverse(content[l])

\* With links damaged, and lists worked on further, following the links meets
\* entries of this list only, each once, in the list's order.
WalkStays ==
    \A l \in Lists :
      LET Index(seq, p) == SelectInSeq(seq, LAMBDA e : e = p)
          InOrder(met, seq) ==
            /\ \A i \in DOMAIN met : Index(seq, met[i]) > 0
            /\ \A i, j \in DOMAIN met :
                 i < j => Index(seq, met[i]) < Index(seq, met[j])
      IN  /\ InOrder(Forward(l), content[l])
          /\ InOrder(Backward(l), Reverse(content[l]))
=============================================================================
