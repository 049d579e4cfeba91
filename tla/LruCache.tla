------------------------------ MODULE LruCache -------------------------------
(***************************************************************************)
(* util/lru_cache.h: a list of entries, the one used last at the front,    *)
(* and a map from keys to iterators into the list.  An iterator is the     *)
(* node it points to; a node that was erased may be allocated again.       *)
(***************************************************************************)
EXTENDS Integers, FiniteSets, SequencesExt

CONSTANTS Keys, Values, Nodes, max_size,
          NoNode,       \* the key is not in the map
          RangeError    \* get throws std::range_error

ASSUME LruAssumption == /\ max_size \in Nat
                        /\ IsFiniteSet(Keys)
                        /\ NoNode \notin Nodes

VARIABLES list,      \* cache_items_list_, as a sequence of nodes
          entry,     \* the pair in each node
          map,       \* cache_items_map_
          answer     \* what the last call returned

lruVars == <<list, entry, map, answer>>

LruInit == /\ list = <<>>
           /\ entry = [n \in Nodes |-> CHOOSE e \in [key : Keys, value : Values] : TRUE]
           /\ map = [k \in Keys |-> NoNode]
           /\ answer = RangeError

Present(m) == {k \in Keys : m[k] # NoNode}

NodesIn(s) == {s[i] : i \in 1..Len(s)}

EraseNothing(s, n) == s   \* mutant of Erased: the old entry stays in the list
Erased(s, n) == RemoveAt(s, CHOOSE i \in 1..Len(s) : s[i] = n)

WithoutKey(key) == IF map[key] = NoNode THEN list ELSE Erased(list, map[key])

Splice(n) == <<n>> \o Erased(list, n)

TooManyByOne(m) == Cardinality(Present(m)) >= max_size  \* mutant of TooMany: the bound is off by one
TooMany(m) == Cardinality(Present(m)) > max_size

(* The new entry is pushed to the front and entered into the map; then the *)
(* last entry goes if there is one too many, which is the new one if       *)
(* max_size is 0.                                                          *)
Put(key, value) == \E n \in Nodes \ NodesIn(WithoutKey(key)) :
  LET pushed  == <<n>> \o WithoutKey(key)
      entered == [map EXCEPT ![key] = n]
      last    == pushed[Len(pushed)]
  IN  /\ entry' = [entry EXCEPT ![n] = [key |-> key, value |-> value]]
      /\ \/ /\ TooMany(entered)
            /\ list' = SubSeq(pushed, 1, Len(pushed) - 1)
            /\ map' = [entered EXCEPT ![entry'[last].key] = NoNode]
         \/ /\ ~TooMany(entered)
            /\ list' = pushed
            /\ map' = entered
      /\ UNCHANGED answer

Get(key) == /\ map[key] # NoNode
            /\ list' = Splice(map[key])
            /\ answer' = <<"value", entry[map[key]].value>>
            /\ UNCHANGED <<entry, map>>

GetThrows(key) == /\ map[key] = NoNode
                  /\ answer' = RangeError
                  /\ UNCHANGED <<list, entry, map>>

Exists(key) == /\ answer' = <<"exists", map[key] # NoNode>>
               /\ UNCHANGED <<list, entry, map>>

Size == /\ answer' = <<"size", Cardinality(Present(map))>>
        /\ UNCHANGED <<list, entry, map>>

LruNext == \/ \E key \in Keys : \/ \E value \in Values : Put(key, value)
                                \/ Get(key) \/ GetThrows(key) \/ Exists(key)
           \/ Size

LruSpec == LruInit /\ [][LruNext]_lruVars

------------------------------------------------------------------------------

Recency == INSTANCE RecencyOrder
             WITH order <- [i \in 1..Len(list) |-> entry[list[i]]]

(* What put, get, exists and size do and answer is what a list of entries  *)
(* in order of use, cut off at max_size, would: the least recently used    *)
(* entry is the one that goes, and only when there is one too many.        *)
ImplementsRecencyOrder == Recency!Spec
==============================================================================
