------------------------------ MODULE ObjectStack ------------------------------
(***************************************************************************)
(* What an arena promises its clients: objects that are created one after  *)
(* the other, that keep their contents until somebody writes to them, and  *)
(* of which the youngest can be extended and any number of the youngest    *)
(* released.  It knows no addresses, no alignment and no limit.            *)
(***************************************************************************)
EXTENDS Integers, Sequences

CONSTANTS
  Values,     \* what an element can hold
  Undefined   \* what an element holds until it is written

VARIABLE objects  \* a sequence of elements per object, the oldest first

Init == objects = <<>>

(* The steps, as relations of the objects before and after.                *)

IsPrefix(s, t) == Len(s) <= Len(t) /\ SubSeq(t, 1, Len(s)) = s

\* With all of its elements written, or none.
Create(old, new) ==
  /\ Len(new) = Len(old) + 1
  /\ IsPrefix(old, new)
  /\ new[Len(new)] \in Seq(Values) \cup Seq({Undefined})

\* The youngest object grows by some elements, which are written.
Extend(old, new) ==
  /\ old # <<>>
  /\ Len(new) = Len(old)
  /\ \A i \in 1 .. Len(old) - 1 : new[i] = old[i]
  /\ IsPrefix(old[Len(old)], new[Len(old)])
  /\ \A e \in Len(old[Len(old)]) + 1 .. Len(new[Len(old)]) : new[Len(old)][e] \in Values

Release(old, new) == IsPrefix(new, old)

\* One element of one object changes.
Write(old, new) ==
  /\ Len(new) = Len(old)
  /\ \E i \in DOMAIN old :
       /\ \A j \in DOMAIN old \ {i} : new[j] = old[j]
       /\ \E e \in DOMAIN old[i], v \in Values : new[i] = [old[i] EXCEPT ![e] = v]

Step(old, new) == Create(old, new) \/ Extend(old, new) \/ Release(old, new) \/ Write(old, new)

Next == Step(objects, objects')

Spec == Init /\ [][Next]_objects
==============================================================================
