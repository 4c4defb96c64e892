------------------------------- MODULE KVStore -------------------------------
(***************************************************************************)
(* What mydb.h promises of an open database: a map from keys to values.    *)
(***************************************************************************)
CONSTANTS Keys, Values, Absent      \* Absent: a key has no value

VARIABLE store

Put(k, v) == store' = [store EXCEPT ![k] = v]

Remove(k) == store' = [store EXCEPT ![k] = Absent]

StoreInit == store = [k \in Keys |-> Absent]

(* A step is a Put or a Remove: it changes one key at most.                  *)
StoreNext ==
  LET old == store
      new == store'
      changed == {k \in Keys : new[k] # old[k]}
  IN  /\ \A j, k \in changed : j = k
      /\ \A k \in changed : new[k] \in Values \union {Absent}

StoreSpec == StoreInit /\ [][StoreNext]_store
==============================================================================
