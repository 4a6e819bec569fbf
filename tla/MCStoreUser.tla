---------------------------- MODULE MCStoreUser ----------------------------
(***************************************************************************)
(* OSDs 1 and 2 created in a store that the second thread also uses: a     *)
(* collection with two objects, and reads of the meta collection.  The     *)
(* array of a transaction grows by one, so that each of its transactions   *)
(* of three operations makes it grow twice.                                *)
(***************************************************************************)
EXTENDS StoreUser

CONSTANTS t1, t2

MCOsdId == t1 :> 1 @@ t2 :> 2

MCTransactions ==
  { <<CollCreate(1), ObjWrite(1, 1, 0, <<1>>), ObjWrite(1, 2, 1, <<2>>)>>,
    <<ObjWrite(1, 1, 1, <<2, 1>>), ObjRemove(1, 2)>>,
    <<CollMap(1, <<1>>), ObjMap(1, 1, <<1>>), ObjTouch(1, 2, -1)>> }

MCOps == UNION {Range(new) : new \in MCTransactions}

MCQueries == { ListColl, ReadObj(1, 1, 0, 1), ReadCollMap(0), ReadCollMapKey(0, 2) }
=============================================================================
