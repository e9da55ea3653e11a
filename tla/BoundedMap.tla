---- MODULE BoundedMap ----
(***************************************************************************)
(* The one retention discipline of the service: a JavaScript Map that      *)
(* deletes and re-inserts a key to make it the newest, and gives up its    *)
(* oldest entry when it outgrows its bound (rememberBounded in index.ts,   *)
(* remember in anchor-state.ts, monitor.ts and acceptance-ledger.ts).      *)
(* A map is the sequence of its entries in insertion order; an entry is a  *)
(* record with its key in the field id.                                    *)
(***************************************************************************)
EXTENDS Naturals, Sequences

Keys(map) == {map[i].id : i \in DOMAIN map}

Position(map, id) == CHOOSE i \in DOMAIN map : map[i].id = id

Lookup(map, id) == map[Position(map, id)]

\* Map.delete.
Delete(map, id) ==
    IF id \in Keys(map)
    THEN SubSeq(map, 1, Position(map, id) - 1)
           \o SubSeq(map, Position(map, id) + 1, Len(map))
    ELSE map

\* Delete, set, and evict the oldest entry past the bound.
Remember(map, entry, bound) ==
    LET moved == Append(Delete(map, entry.id), entry)
    IN  IF Len(moved) > bound THEN Tail(moved) ELSE moved
====
