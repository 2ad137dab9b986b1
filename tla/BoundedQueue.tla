----------------------------- MODULE BoundedQueue -----------------------------
(***************************************************************************)
(* The queue that a FIFO of kernel/io/fifoarray.c is meant to be: at most  *)
(* Capacity elements, delivered in the order they were accepted, each to   *)
(* one reader, and the oldest one given up when a writer overwrites.       *)
(***************************************************************************)
EXTENDS Naturals, Sequences

CONSTANTS Capacity, Data, Reader, NoData

VARIABLES
    items,    \* the elements held, oldest first
    received  \* the last element each reader took

queueVars == <<items, received>>

Init ==
    /\ items = <<>>
    /\ received = [r \in Reader |-> NoData]

Put(d) ==
    /\ Len(items) < Capacity
    /\ items' = Append(items, d)
    /\ UNCHANGED received

\* A full queue gives up its oldest element.
PutOverOldest(d) ==
    /\ Len(items) = Capacity
    /\ items' = Append(Tail(items), d)
    /\ UNCHANGED received

Take(r) ==
    /\ items # <<>>
    /\ received' = [received EXCEPT ![r] = Head(items)]
    /\ items' = Tail(items)

Next ==
    \/ \E d \in Data : Put(d) \/ PutOverOldest(d)
    \/ \E r \in Reader : Take(r)

Spec == Init /\ [][Next]_queueVars
=============================================================================
