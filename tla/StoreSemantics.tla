--------------------------- MODULE StoreSemantics ---------------------------
(***************************************************************************)
(* What the operations and reads of the object store mean, said without    *)
(* trees, buffers, loops or locks: the operations of os/transaction.h on a *)
(* store, which is a function from the ids of its collections.             *)
(*                                                                         *)
(* A collection has objects, by oid, and a map from keys to values.  An    *)
(* object has data, a sequence of bytes, and a map of its own.  Values are *)
(* numbers above 0: an input map holds Empty for a key whose value_length  *)
(* is 0.  What a call returns is a code and a value, a sequence or a map.  *)
(***************************************************************************)
EXTENDS Integers, Sequences, SequencesExt, FiniteSets, Functions, TLC

Empty == 0

EmptyColl   == [objects |-> << >>, map |-> << >>]
EmptyObject == [data |-> << >>, map |-> << >>]

\* The operations, as the functions cceph_os_tran_* leave them in op_buffer.
\* cceph_os_tran_obj_touch does not set offset, which is then what the memory
\* held before.
CollCreate(c)              == [op |-> "COLL_CREATE", cid |-> c]
CollRemove(c)              == [op |-> "COLL_REMOVE", cid |-> c]
CollMap(c, map)            == [op |-> "COLL_MAP", cid |-> c, map |-> map]
ObjTouch(c, o, garbage)    == [op |-> "OBJ_TOUCH", cid |-> c, oid |-> o, offset |-> garbage, data |-> << >>]
ObjWrite(c, o, offset, data) ==
  [op |-> "OBJ_WRITE", cid |-> c, oid |-> o, offset |-> offset, data |-> data]
ObjMap(c, o, map)          == [op |-> "OBJ_MAP", cid |-> c, oid |-> o, map |-> map]
ObjRemove(c, o)            == [op |-> "OBJ_REMOVE", cid |-> c, oid |-> o]

\* The reads of cceph_os_funcs.
ListColl                   == [read |-> "LIST_COLL"]
ExistColl(c)               == [read |-> "EXIST_COLL", cid |-> c]
ReadObj(c, o, offset, length) ==
  [read |-> "READ_OBJ", cid |-> c, oid |-> o, offset |-> offset, length |-> length]
ReadCollMap(c)             == [read |-> "READ_COLL_MAP", cid |-> c]
ReadCollMapKey(c, k)       == [read |-> "READ_COLL_MAP_KEY", cid |-> c, key |-> k]
ReadObjMap(c, o)           == [read |-> "READ_OBJ_MAP", cid |-> c, oid |-> o]
ReadObjMapKey(c, o, k)     == [read |-> "READ_OBJ_MAP_KEY", cid |-> c, oid |-> o, key |-> k]

\* What op_buffer may hold: a touch has no data, and lengths and offsets are
\* integers.
OpKinds == {"COLL_CREATE", "COLL_REMOVE", "COLL_MAP", "OBJ_TOUCH", "OBJ_WRITE", "OBJ_MAP", "OBJ_REMOVE"}

IsOp(op) ==
  /\ op.op \in OpKinds
  /\ op.op \in {"OBJ_TOUCH", "OBJ_WRITE"} => op.offset \in Int /\ op.data \in Seq(Int)
  /\ op.op = "OBJ_TOUCH" => op.data = << >>

IsTran(tran) == /\ tran # << >> /\ Len(tran) \in Nat /\ DOMAIN tran = 1 .. Len(tran)
                /\ \A i \in 1 .. Len(tran) : IsOp(tran[i])

\* A map with another entry, or with another value for a key, and without one.
With(f, x, e) == [y \in DOMAIN f \cup {x} |-> IF y = x THEN e ELSE f[y]]
Without(f, x) == Restrict(f, DOMAIN f \ {x})

\* The rules of types.h:64-73: a key is set to its value, or removed if empty.
Updated(map, input) ==
  [k \in {k \in DOMAIN map \cup DOMAIN input : k \in DOMAIN input => input[k] # Empty}
     |-> IF k \in DOMAIN input THEN input[k] ELSE map[k]]

\* Bytes offset + 1 to offset + Len(new) are new; a hole before them is zeros.
Overwritten(data, offset, new) ==
  IF new = << >> THEN data
  ELSE [k \in 1 .. (IF Len(data) < offset + Len(new) THEN offset + Len(new) ELSE Len(data)) |->
          IF k > offset /\ k <= offset + Len(new) THEN new[k - offset]
          ELSE IF k <= Len(data) THEN data[k] ELSE 0]

\* An operation on store s: its code and the store it leaves.  That a collection
\* cannot be created again is what mem_store.c does and test_os.cc:20-21 expects;
\* a comment in transaction.h:43 would have it do nothing.
ApplyOp(s, op) ==
  LET c           == op.cid
      hasColl     == c \in DOMAIN s
      hasObj      == hasColl /\ op.oid \in DOMAIN s[c].objects
      Ok(t)       == [ret |-> "OK", colls |-> t]
      Err(code)   == [ret |-> code, colls |-> s]
      WithMap     == [s EXCEPT ![c].map = Updated(@, op.map)]
      WithObj(ob) == [s EXCEPT ![c].objects = With(@, op.oid, ob)]
      object      == s[c].objects[op.oid]
      kind        == op.op
  IN CASE kind = "COLL_CREATE" /\ hasColl   -> Err("COLL_ALREADY_EXIST")
       [] kind = "COLL_CREATE" /\ ~hasColl  -> Ok(With(s, c, EmptyColl))
       [] kind = "COLL_MAP" /\ ~hasColl     -> Err("MAP_NODE_NOT_EXIST")
       [] kind = "COLL_MAP" /\ hasColl      -> Ok(WithMap)
       [] kind \in {"COLL_REMOVE", "OBJ_TOUCH", "OBJ_WRITE", "OBJ_REMOVE"} /\ ~hasColl
                                            -> Err("COLL_NOT_EXIST")
       [] kind = "COLL_REMOVE" /\ hasColl   -> Ok(Without(s, c))
       [] kind \in {"OBJ_TOUCH", "OBJ_WRITE"} /\ hasColl ->
            LET old == IF hasObj THEN object ELSE EmptyObject
            IN  Ok(WithObj([old EXCEPT !.data = Overwritten(@, op.offset, op.data)]))
       [] kind = "OBJ_REMOVE" /\ hasColl /\ ~hasObj -> Err("OBJECT_NOT_EXIST")
       [] kind = "OBJ_REMOVE" /\ hasObj     -> Ok([s EXCEPT ![c].objects = Without(@, op.oid)])
       [] kind = "OBJ_MAP" /\ ~hasObj       -> Err("MAP_NODE_NOT_EXIST")
       [] kind = "OBJ_MAP" /\ hasObj        -> Ok(WithObj([object EXCEPT !.map = Updated(@, op.map)]))

\* The operations of a transaction from the one at first on, in order, up to
\* the first that fails.
ApplyFrom(s, tran, first) ==
  LET run[i \in first - 1 .. Len(tran)] ==
        IF i = first - 1 THEN [ret |-> "OK", colls |-> s]
        ELSE IF run[i - 1].ret = "OK" THEN ApplyOp(run[i - 1].colls, tran[i])
        ELSE run[i - 1]
  IN  run[Len(tran)]

ApplyTran(s, tran) == ApplyFrom(s, tran, 1)

\* object_store.h:33: a length of 0, or a length beyond the end, reads it all.
Slice(data, offset, length) ==
  SubSeq(data, offset + 1, IF length <= 0 \/ offset + length > Len(data)
                             THEN Len(data) ELSE offset + length)

\* The ids of the collections, which the tree holds in order.
ListOf(s) == SetToSortSeq(DOMAIN s, LAMBDA a, b : a < b)

\* What a read of store s returns.
Answer(s, q) ==
  LET kind    == q.read
      hasColl == q.cid \in DOMAIN s
      hasObj  == hasColl /\ q.oid \in DOMAIN s[q.cid].objects
      object  == s[q.cid].objects[q.oid]
      Ok(v)   == [ret |-> "OK", value |-> v]
      Err(code) == [ret |-> code, value |-> << >>]
      Key(map)  == IF q.key \in DOMAIN map THEN Ok(<<map[q.key]>>) ELSE Err("MAP_NODE_NOT_EXIST")
  IN CASE kind = "LIST_COLL"  -> Ok(ListOf(s))
       [] kind = "EXIST_COLL" -> Ok(<<IF hasColl THEN 1 ELSE 0>>)
       [] kind \in {"READ_OBJ", "READ_COLL_MAP", "READ_COLL_MAP_KEY", "READ_OBJ_MAP_KEY"} /\ ~hasColl
                              -> Err("COLL_NOT_EXIST")
       [] kind = "READ_OBJ" /\ hasColl /\ ~hasObj -> Err("OBJECT_NOT_EXIST")
       [] kind = "READ_OBJ" /\ hasObj -> Ok(Slice(object.data, q.offset, q.length))
       [] kind = "READ_COLL_MAP" /\ hasColl     -> Ok(s[q.cid].map)
       [] kind = "READ_COLL_MAP_KEY" /\ hasColl -> Key(s[q.cid].map)
       [] kind = "READ_OBJ_MAP" /\ ~hasObj      -> Err("MAP_NODE_NOT_EXIST")
       [] kind = "READ_OBJ_MAP" /\ hasObj       -> Ok(object.map)
       [] kind = "READ_OBJ_MAP_KEY" /\ hasColl /\ ~hasObj -> Err("MAP_NODE_NOT_EXIST")
       [] kind = "READ_OBJ_MAP_KEY" /\ hasObj   -> Key(object.map)
=============================================================================
