---------------------------- MODULE ObjectStore ----------------------------
(***************************************************************************)
(* What an object store promises the threads that use it: a transaction    *)
(* takes effect at one moment between its call and its return, as far as   *)
(* it goes, and a read sees the store at one moment: whatever transactions *)
(* and reads mean.                                                         *)
(***************************************************************************)
CONSTANTS Threads,
          Transactions,    \* the transactions threads may submit
          Queries,         \* the reads they may make
          ApplyTran(_, _), \* what a transaction returns, and the store it leaves
          Answer(_, _)     \* what a read of a store returns

VARIABLES store,        \* the collections
          pending,      \* pending[t]: the transaction t has submitted, << >> if none
          answer        \* answer[t]: what the last call of t returned

vars == <<store, pending, answer>>

Init == /\ store = << >>
        /\ pending = [t \in Threads |-> << >>]
        /\ answer = [t \in Threads |-> [ret |-> "none", value |-> << >>]]

Submit(t, tran) ==
  /\ pending[t] = << >>
  /\ pending' = [pending EXCEPT ![t] = tran]
  /\ answer' = [answer EXCEPT ![t] = [ret |-> "none", value |-> << >>]]
  /\ UNCHANGED store

Commit(t) ==
  /\ pending[t] # << >>
  /\ store' = ApplyTran(store, pending[t]).colls
  /\ answer' = [answer EXCEPT ![t] = [ret |-> ApplyTran(store, pending[t]).ret, value |-> << >>]]
  /\ pending' = [pending EXCEPT ![t] = << >>]

Read(t, q) ==
  /\ pending[t] = << >>
  /\ answer' = [answer EXCEPT ![t] = Answer(store, q)]
  /\ UNCHANGED <<store, pending>>

Next == \E t \in Threads :
          \/ \E tran \in Transactions : Submit(t, tran)
          \/ Commit(t)
          \/ \E q \in Queries : Read(t, q)

Spec == Init /\ [][Next]_vars
=============================================================================
