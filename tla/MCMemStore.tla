----------------------------- MODULE MCMemStore -----------------------------
(***************************************************************************)
(* Transactions and reads for small instances of MemStore: one collection  *)
(* with one object, two keys, and writes that append, overlap, leave a     *)
(* hole or are empty.                                                      *)
(***************************************************************************)
EXTENDS MemStore

\* The operations the wrappers of object_store.c submit, one in each, and
\* longer transactions, some of which fail half way.
OneOp == { <<CollCreate(1)>>, <<CollRemove(1)>>, <<ObjTouch(1, 1, 0)>>, <<ObjRemove(1, 1)>>,
           <<ObjWrite(1, 1, 0, <<1>>)>>, <<ObjWrite(1, 1, 2, <<2>>)>>, <<ObjWrite(1, 1, 0, << >>)>>,
           <<CollMap(1, <<1, Empty>>)>>, <<ObjMap(1, 1, <<1, 2>>)>> }

SeveralOps == { <<ObjRemove(1, 1), ObjWrite(1, 1, 1, <<1, 2>>), CollMap(1, <<Empty, 2>>)>>,
                <<ObjMap(1, 1, <<Empty, 1>>), CollCreate(1), CollRemove(1)>> }

MCTransactions == OneOp \cup SeveralOps

\* The last two reads ask for a length that an int of IntLimit 4 wraps.
MCQueries == { ListColl, ExistColl(1), ReadObj(1, 1, 0, 0), ReadObj(1, 1, 1, 1), ReadObj(1, 1, 1, 3),
               ReadCollMap(1), ReadCollMapKey(1, 2), ReadObjMap(1, 1), ReadObjMapKey(1, 1, 2),
               ReadObj(1, 1, 0, 5), ReadObj(1, 1, 1, 8) }

NoQueries == {}

ASSUME AllFits == ReadsFit /\ WritesFit

Symmetry == Permutations(Threads)
=============================================================================
