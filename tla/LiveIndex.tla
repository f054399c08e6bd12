------------------------------- MODULE LiveIndex -------------------------------
(***************************************************************************)
(* What the public API of the index promises, with no buckets and no       *)
(* position map: a partial map from storage IDs to values.                 *)
(*                                                                         *)
(* An ID is given out once, by the insert that appends it, and stays bound *)
(* to its entry until a sort is requested.  Removing makes the entry       *)
(* invisible for good.  A sort moves the live values, in ascending order,  *)
(* to the first IDs.  Storage never shrinks.                               *)
(***************************************************************************)
EXTENDS Naturals, Sequences, Functions

CONSTANTS Values,   \* the values a client uses
          Bulks,    \* the slices a client passes to insert_bulk
          Capacity  \* bound on the number of storage entries

VARIABLES live,        \* storage ID -> value, for the live entries
          storage_len, \* entries ever inserted
          reply        \* the last call: operation, arguments, returned ID or flag

vars == <<live, storage_len, reply>>

\* The storage IDs a client may pass, one of them past the end of storage.
Ids == 1 .. Capacity + 1

Reply(op, args, id, ok) == [op |-> op, args |-> args, id |-> id, ok |-> ok]

IsAscending(f) == \A i, j \in DOMAIN f : i < j => f[i] <= f[j]

\* The live IDs that hold a value.
Holding(value) == {id \in DOMAIN live : live[id] = value}

Without(id) == [i \in DOMAIN live \ {id} |-> live[i]]

With(id, value) == [live EXCEPT ![id] = value]

Init == /\ live = <<>>
        /\ storage_len = 0
        /\ reply = Reply("new", <<>>, 0, TRUE)

-------------------------------------------------------------------------------
\* Appends the values under the next IDs; only insert returns its ID.
Extend(values) ==
    /\ storage_len + Len(values) <= Capacity
    /\ storage_len' = storage_len + Len(values)
    /\ live' = [i \in DOMAIN live \cup (storage_len + 1 .. storage_len + Len(values)) |->
                  IF i <= storage_len THEN live[i] ELSE values[i - storage_len]]

Insert(value) ==
    /\ Extend(<<value>>)
    /\ reply' = Reply("insert", <<value>>, storage_len', TRUE)

InsertBulk(values) ==
    /\ Extend(values)
    /\ reply' = Reply("insert_bulk", values, 0, TRUE)

\* A call that names no live entry reports failure and changes nothing.
Refuse(op, args) ==
    /\ reply' = Reply(op, args, 0, FALSE)
    /\ UNCHANGED <<live, storage_len>>

RemoveAt(id) ==
    \/ /\ id \in DOMAIN live
       /\ live' = Without(id)
       /\ reply' = Reply("remove_at", <<id>>, 0, TRUE)
       /\ UNCHANGED storage_len
    \/ id \notin DOMAIN live /\ Refuse("remove_at", <<id>>)

\* Which of several equal entries goes is left open.
Remove(target) ==
    \/ /\ \E id \in Holding(target) : live' = Without(id)
       /\ reply' = Reply("remove", <<target>>, 0, TRUE)
       /\ UNCHANGED storage_len
    \/ Holding(target) = {} /\ Refuse("remove", <<target>>)

UpdateAt(id, new) ==
    \/ /\ id \in DOMAIN live
       /\ live' = With(id, new)
       /\ reply' = Reply("update_at", <<id, new>>, 0, TRUE)
       /\ UNCHANGED storage_len
    \/ id \notin DOMAIN live /\ Refuse("update_at", <<id, new>>)

Update(old, new) ==
    \/ /\ \E id \in Holding(old) : live' = With(id, new)
       /\ reply' = Reply("update", <<old, new>>, 0, TRUE)
       /\ UNCHANGED storage_len
    \/ Holding(old) = {} /\ Refuse("update", <<old, new>>)

\* The live values, each as often as before, ascending from the first ID on.
Sort ==
    /\ \E n \in 0 .. storage_len : \E from \in Bijection(1 .. n, DOMAIN live) :
          live' = [i \in 1 .. n |-> live[from[i]]]
    /\ IsAscending(live')
    /\ reply' = Reply("sarkar_sort", <<>>, 0, TRUE)
    /\ UNCHANGED storage_len

Next ==
    \/ \E value \in Values : Insert(value) \/ Remove(value)
    \/ \E values \in Bulks : InsertBulk(values)
    \/ \E id \in Ids : RemoveAt(id) \/ (\E new \in Values : UpdateAt(id, new))
    \/ \E old, new \in Values : Update(old, new)
    \/ Sort

Spec == Init /\ [][Next]_vars
===============================================================================
