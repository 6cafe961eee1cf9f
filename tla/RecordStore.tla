----------------------------- MODULE RecordStore -----------------------------
(***************************************************************************)
(* What cBlockRecordFile promises (blockrecordfile.h): data that is added  *)
(* gets an address, keeps that address and its bytes while other records   *)
(* come and go, and is gone after RemoveItem.  An address may be given out *)
(* again once it is free.                                                  *)
(***************************************************************************)
CONSTANTS Addr, Payload, None

VARIABLE store        \* Addr -> Payload, or None at a free address

TypeOK == store \in [Addr -> Payload \cup {None}]

Init == store = [a \in Addr |-> None]

Add(a, p) == store[a] = None /\ store' = [store EXCEPT ![a] = p]

Rewrite(a, p) == store[a] # None /\ store' = [store EXCEPT ![a] = p]

Remove(a) == store[a] # None /\ store' = [store EXCEPT ![a] = None]

\* The addresses whose record a step changes.
Touched == LET before == store
               after  == store'
           IN  {a \in Addr : before[a] # after[a]}

Next ==
    \E a \in Touched : Remove(a) \/ \E p \in Payload : Add(a, p) \/ Rewrite(a, p)

Spec == Init /\ [][Next]_store
=============================================================================
