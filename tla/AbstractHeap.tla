----------------------------- MODULE AbstractHeap -----------------------------
(* What the collector promises the program: a graph of objects that only the   *)
(* program changes, except that a weak pointer breaks when nothing but weak    *)
(* pointers leads to its object.                                               *)
EXTENDS Integers, Sequences, FiniteSets

CONSTANTS Ids, NoId, Cells

VARIABLES cell,    \* the program's variables: pairs <<name, id>>
          object   \* what can be reached: records [id, weak, ref]

vars == <<cell, object>>

Values(c) == {x[2] : x \in c} \ {NoId}

\* The objects of o that c leads to; weak pointers count if "through" holds.
Reach(c, o, through) ==
  LET leads == {i \in o : through \/ ~i.weak}
      found[n \in 0..Cardinality(Ids)] ==
        IF n = 0 THEN Values(c)
        ELSE LET ids == found[n - 1] IN ids \cup {i.ref : i \in {j \in leads : j.id \in ids}}
      all == found[Cardinality(Ids)]
  IN  {i \in o : i.id \in all}

\* What cannot be reached any more is forgotten.
Settle(c, o) == <<c, Reach(c, o, TRUE)>>

Init ==
  /\ cell = {<<x, NoId>> : x \in Cells}
  /\ object = {}

Assign(c, x, i) == {y \in c : y[1] # x} \cup {<<x, i>>}

(* Each action relates the variables c, o before it to "after".                *)

New(c, o, after, x, i) ==
  /\ after[1] = Assign(c, x, i)
  /\ \A j \in o : j.id # i
  /\ \E weak \in BOOLEAN, v \in Values(c) \cup {NoId} :
       after = Settle(after[1], o \cup {[id |-> i, weak |-> weak, ref |-> v]})

Move(c, o, after, x, v) ==
  /\ after[1] = Assign(c, x, v)
  /\ v \in Values(c) \cup {i.ref : i \in {j \in o : j.id \in Values(c)}} \cup {NoId}
  /\ after = Settle(after[1], o)

Write(c, o, after) ==
  /\ after[1] = c
  /\ \E i \in {j \in o : j.id \in Values(c) /\ ~j.weak}, v \in Values(c) \cup {NoId} :
       after = Settle(c, (o \ {i}) \cup {[i EXCEPT !.ref = v]})

Break(c, o, after) ==
  /\ after[1] = c
  /\ LET broken == {w \in o : w.weak /\ \A i \in Reach(c, o, FALSE) : i.id # w.ref} IN
     \E W \in SUBSET broken :
       after = Settle(c, (o \ W) \cup {[w EXCEPT !.ref = NoId] : w \in W})

Step(c, o, after) ==
  \/ Break(c, o, after) \/ Write(c, o, after)
  \/ \E x \in Cells, v \in Ids \cup {NoId} : Move(c, o, after, x, v)
  \/ \E x \in Cells, i \in Ids : New(c, o, after, x, i)

Next == \E c \in {cell}, o \in {object}, after \in {<<cell', object'>>} : Step(c, o, after)

Spec == Init /\ [][Next]_vars
==============================================================================
