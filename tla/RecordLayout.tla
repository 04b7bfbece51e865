---------------------------- MODULE RecordLayout ----------------------------
(***************************************************************************)
(* How the records of one entity are keyed, cut into blocks, indexed and   *)
(* projected (internal/domain/masterdata, internal/storage): the pure part *)
(* of the store.                                                           *)
(*                                                                         *)
(* A record is [id, body, size, items, val]: its id (or None), a number    *)
(* standing for its JSON text, the length of that text, the objects an     *)
(* index path fans out to (each [a, b], either may be None) and one        *)
(* projected field.  A source is a sequence of records.                    *)
(***************************************************************************)
EXTENDS Positions, SequencesExt

CONSTANTS None,          \* a field that is absent or null
          Composite,     \* the entity is keyed by several fields
          MaxRecords,    \* masterBlockMaxRecords
          MaxBytes       \* masterBlockMaxBytes

ASSUME LayoutAssumption ==
  /\ Composite \in BOOLEAN
  /\ MaxRecords \in Nat \ {0}
  /\ MaxBytes \in Nat \ {0}

\* Records as parsed: a text, and an id and a field that are absent or numbers.
WellFormed(src) ==
  /\ src \in Seq(Range(src))
  /\ \A i \in DOMAIN src :
       /\ src[i] # None
       /\ src[i].body \in Int
       /\ src[i].id = None \/ src[i].id \in Int
       /\ src[i].val = None \/ src[i].val \in Int

-----------------------------------------------------------------------------
(* Record keys.  A key is already its sort key: a triple compared the way   *)
(* COLLATE "C" compares the text, decimal ids first, then "auto:", then     *)
(* "composite:v1:" keys.                                                    *)

AutoKey(r, occurrence) == <<1, r.body, occurrence>>

RecordKey(r) == IF r.id # None THEN <<0, r.id, 0>> ELSE AutoKey(r, 0)

HasCompositeKey(r) == r.id # None /\ r.val # None

CompositeKey(r) == <<2, r.id, r.val>>

\* How often the text of src[i] already fell back to an auto key.
Occurrence(src, i) ==
  Cardinality({j \in 1..(i - 1) : src[j].body = src[i].body /\ ~HasCompositeKey(src[j])})

KeyAt(src, i) ==
  IF ~Composite THEN RecordKey(src[i])
  ELSE IF HasCompositeKey(src[i]) THEN CompositeKey(src[i])
       ELSE AutoKey(src[i], Occurrence(src, i))

KeysOf(src) == [i \in DOMAIN src |-> KeyAt(src, i)]

Before(k, l) ==
  \/ k[1] < l[1]
  \/ k[1] = l[1] /\ k[2] < l[2]
  \/ k[1] = l[1] /\ k[2] = l[2] /\ k[3] < l[3]

AtOrBefore(k, l) == k = l \/ Before(k, l)

-----------------------------------------------------------------------------
(* Blocks.                                                                  *)

LastOf(S) == CHOOSE i \in S : \A j \in S : j <= i

PositionsOf(keys, k) == {i \in DOMAIN keys : keys[i] = k}

\* One entry per key: every position, and the record stored last.
EntryOf(src, k) ==
  LET at == PositionsOf(KeysOf(src), k)
  IN  [key |-> k, positions |-> at, record |-> src[LastOf(at)]]

\* The entries by key.
EntriesOf(src) ==
  LET entries   == {EntryOf(src, k) : k \in Range(KeysOf(src))}
      before(e) == {d \in entries : Before(d.key, e.key)}
  IN  [n \in 1..Cardinality(entries) |->
         CHOOSE e \in entries : Cardinality(before(e)) = n - 1]

\* A block closes at MaxRecords keys, or on the record that brings it to
\* MaxBytes.
Full(es) ==
  LET bytes == FoldLeft(LAMBDA n, e : n + e.record.size, 0, es)
  IN  Len(es) >= MaxRecords \/ bytes >= MaxBytes

Put(bs, e) ==
  IF bs # <<>> /\ ~Full(bs[Len(bs)].entries)
    THEN [bs EXCEPT ![Len(bs)].entries = Append(@, e)]
    ELSE Append(bs, [firstKey |-> e.key, entries |-> <<e>>])

Packed(es) ==
  LET upTo[n \in 0..Len(es)] == IF n = 0 THEN <<>> ELSE Put(upTo[n - 1], es[n])
  IN  upTo[Len(es)]

BlocksOf(src) == Packed(EntriesOf(src))

\* The entries with key k of the last block whose first key is in the range.
Probed(blocks, range, k) ==
  LET last == CHOOSE i \in range : \A j \in range :
                AtOrBefore(blocks[j].firstKey, blocks[i].firstKey)
  IN  {e \in Range(blocks[last].entries) : e.key = k}

\* Mutant: the block strictly below the key.
LocatedStrictly(blocks, k) ==
  LET below == {i \in DOMAIN blocks : Before(blocks[i].firstKey, k)}
  IN  IF below = {} \/ Probed(blocks, below, k) = {} THEN None
      ELSE (CHOOSE e \in Probed(blocks, below, k) : TRUE).record

\* The probe of fetchRecords: the block with the greatest first key at or
\* below k, then the entry with exactly that key.
Located(blocks, k) ==
  LET below == {i \in DOMAIN blocks : AtOrBefore(blocks[i].firstKey, k)}
  IN  IF below = {} \/ Probed(blocks, below, k) = {} THEN None
      ELSE (CHOOSE e \in Probed(blocks, below, k) : TRUE).record

\* loadEntityInOrder: the entries put back at their positions.
InOrder(blocks) ==
  LET entries == UNION {Range(blocks[i].entries) : i \in DOMAIN blocks}
      at      == UNION {e.positions : e \in entries}
      Entry(i) == CHOOSE e \in entries : i \in e.positions
  IN  [i \in 1..Cardinality(at) |-> [key |-> Entry(i).key, record |-> Entry(i).record]]

\* What a source looks like once it has been stored and read back: a key the
\* source repeats reads the record stored last under it.
Collected(src) == [i \in DOMAIN src |-> [key |-> KeyAt(src, i), record |-> src[i]]]

StoredForm(src) ==
  [i \in DOMAIN src |->
     [key |-> KeyAt(src, i), record |-> EntryOf(src, KeyAt(src, i)).record]]

-----------------------------------------------------------------------------
(* Relation indexes.  An index is [element, fields]: a list of paths whose  *)
(* values are combined, or "path[a+b]", one key per array element.          *)

PartsOf(r, field) == {r.items[i][field] : i \in DOMAIN r.items} \ {None}

IndexKeys(index, r) ==
  IF index.element
    THEN {[n \in DOMAIN index.fields |-> r.items[i][index.fields[n]]] :
            i \in {j \in DOMAIN r.items :
                     \A n \in DOMAIN index.fields : r.items[j][index.fields[n]] # None}}
    ELSE LET parts == UNION {PartsOf(r, index.fields[n]) : n \in DOMAIN index.fields}
         IN  {k \in [DOMAIN index.fields -> parts] :
                \A n \in DOMAIN index.fields : k[n] \in PartsOf(r, index.fields[n])}

\* The postings of keyed records, in source order.
PostingsOf(index, pairs) ==
  [k \in UNION {IndexKeys(index, pairs[i].record) : i \in DOMAIN pairs} |->
     LET hits == Picked(pairs, {i \in DOMAIN pairs : k \in IndexKeys(index, pairs[i].record)})
     IN  [i \in DOMAIN hits |-> hits[i].key]]

-----------------------------------------------------------------------------
(* List projections: one column, in the narrowest kind that holds every     *)
(* value.  A value is None or [type, v] with one of the ValueTypes.         *)

ValueTypes == {"int", "float", "string", "bool", "nested"}

ColumnKind(values) ==
  LET types == {v.type : v \in Range(values) \ {None}}
  IN  CASE types = {} -> "empty"
        [] Cardinality(types) = 1 /\ types # {"nested"} -> CHOOSE t \in types : TRUE
        [] types = {"int", "float"} -> "float"
        [] OTHER -> "raw"

Zero == [type |-> "zero", v |-> 0]

Column(values) ==
  [kind    |-> ColumnKind(values),
   missing |-> {i \in DOMAIN values : values[i] = None},
   cells   |-> [i \in DOMAIN values |-> IF values[i] = None THEN Zero ELSE values[i]]]

ValueAt(column, row) ==
  IF column.kind = "empty" \/ row \in column.missing THEN None ELSE column.cells[row]

ProjectionOf(keys, values) == [keys |-> keys, column |-> Column(values)]

RowsOf(projection) ==
  [i \in DOMAIN projection.keys |->
     [key |-> projection.keys[i], value |-> ValueAt(projection.column, i)]]

=============================================================================
