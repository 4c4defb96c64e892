------------------------------ MODULE PageStore ------------------------------
(***************************************************************************)
(* What storage.h promises the B-tree: a memory of pages addressed by page *)
(* number.  A read returns the content of the latest write; a sync changes *)
(* nothing that a later read can see, and neither does a call that returns *)
(* an error, except that a call of Spoils may spoil one page: the one it   *)
(* names in its answer.  A page nobody has written has no content yet: the *)
(* first read of it may return anything, and that answer then sticks.      *)
(***************************************************************************)

EXTENDS Integers

CONSTANTS
  Offsets,    \* page numbers
  Contents,   \* what a page can hold
  Unwritten,  \* "nobody has written this page"
  Spoils      \* operations that may fail half-way: of "read", "sync"

VARIABLES
  mem,        \* mem[o]: what a read of page o returns
  out         \* the answer of the latest call

storeVars == <<mem, out>>

Answer(op, o, rc, data) == [op |-> op, offset |-> o, rc |-> rc, data |-> data]

StoreInit ==
  /\ mem \in [Offsets -> Contents \union {Unwritten}]
  /\ out = Answer("none", 0, 0, Unwritten)

StoreRead(o) ==
  \E c \in Contents :
    /\ mem[o] \in {c, Unwritten}
    /\ mem' = [mem EXCEPT ![o] = c]
    /\ out' = Answer("read", o, 0, c)

StoreWrite(o, c) ==
  /\ mem' = [mem EXCEPT ![o] = c]
  /\ out' = Answer("write", o, 0, Unwritten)

StoreSync ==
  /\ out' = Answer("sync", 0, 0, Unwritten)
  /\ UNCHANGED mem

StoreError(op, o) ==
  /\ out' = Answer(op, o, -1, Unwritten)
  /\ UNCHANGED mem

StoreSpoils(op, o) ==
  /\ \E c \in Contents \union {Unwritten} : mem' = [mem EXCEPT ![o] = c]
  /\ \E rc \in {-1, 1} : out' = Answer(op, o, rc, Unwritten)

StoreNext ==
  \/ \E o \in Offsets : StoreRead(o) \/ (\E c \in Contents : StoreWrite(o, c))
  \/ \E o \in Offsets, op \in {"read", "write"} : StoreError(op, o)
  \/ \E o \in Offsets, op \in Spoils : StoreSpoils(op, o)
  \/ StoreSync

StoreSpec == StoreInit /\ [][StoreNext]_storeVars
==============================================================================
