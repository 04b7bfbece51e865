--------------------------- MODULE MCEntityStore ---------------------------
(* Two builds, one with a product index and one with an element index, and *)
(* files with several blocks, records without a key field and repeated      *)
(* keys.                                                                    *)
EXTENDS EntityStore

Obj(x, y) == [a |-> x, b |-> y]
Num(n) == [type |-> "int", v |-> n]

R1  == [id |-> 1, body |-> 1, size |-> 1, items |-> <<Obj(1, 2), Obj(2, 1)>>, val |-> 1]
R2  == [id |-> 2, body |-> 2, size |-> 3, items |-> <<Obj(1, 1)>>, val |-> 1]
R3  == [id |-> 3, body |-> 3, size |-> 1, items |-> <<Obj(2, None)>>, val |-> 2]
Bad == [id |-> 4, body |-> 4, size |-> 1, items |-> <<>>, val |-> None]
\* R1 again, with another text
R1b == [R1 EXCEPT !.body = 5]

MCBuilds == {"old", "new"}
MCBuild == [p \in Pods |-> IF p = "p1" THEN "old" ELSE "new"]
MCIndex == [b \in MCBuilds |-> [element |-> b = "new", fields |-> <<"a", "b">>]]
MCField(b, r) ==
  IF b = "new" /\ r.id = 3 THEN [type |-> "string", v |-> 0]
  ELSE IF r.val = None THEN None ELSE Num(r.val)
MCSources == {<<R3, R1, Bad, R2, Bad>>, <<R1, R2, R1b>>, <<>>}
MCLookups == {<<1, 1>>}
MCWanted == {<<2, 1, 1>>, <<0, 1, 0>>}

\* The files of this instance repeat a key with another text and with the
\* same indexed fields.
ASSUME FilesAgree == RepeatsAgree

=============================================================================
