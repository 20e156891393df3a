------------------------------- MODULE BTree -------------------------------
(* An index file: a B+-tree ordered by (key, value) whose leaves are linked to  *)
(* the right (btree.rs).  One writer at a time holds the index's structural      *)
(* latch; scans take no latch but the one of the page they read, and go on       *)
(* between any two pages the writer logs.  A page write is one step, a write     *)
(* that fails ends the insert or the VACUUM where it stands, and so does a        *)
(* crash: redo brings back a prefix of the page images.  Entries are of one       *)
(* size, so a node's room is a number of entries.                            *)
EXTENDS Naturals, Sequences, FiniteSets, SequencesExt

CONSTANT Scales   \* instances: entries, ranges, capacities, bounds on operations

ASSUME BTreeAssumption ==
  \A s \in Scales :
    /\ s.leaf > 1 /\ s.node > 1
    /\ \A e \in s.entries : e[1] \in Nat \ {0} /\ e[2] \in Nat \ {0}

VARIABLES
  scale,         \* the instance, chosen initially
  pages,         \* node pages by number
  root,          \* the root page, kept in the metapage
  w,             \* the holder of the structural latch
  rd,            \* a scan
  stored,        \* history: the entries that are in the index
  spent          \* operations begun, against the bounds of the instance

vars == <<scale, pages, root, w, rd, stored, spent>>

(* An item of a node: key, value and, in an internal node, the child whose       *)
(* entries are not before (key, value).  link is the right sibling of a leaf, the *)
(* leftmost child of an internal node; 0 is no page.  A probe without a value     *)
(* has value 0, before every entry of its key.                               *)
Leaf(items, link) == [leaf |-> TRUE, items |-> items, link |-> link]
Internal(items, link) == [leaf |-> FALSE, items |-> items, link |-> link]
Item(e, child) == <<e[1], e[2], child>>
Entry(i) == <<i[1], i[2]>>

Idle == [at |-> "idle", page |-> 0, path |-> <<>>, item |-> <<0, 0, 0>>, right |-> 0, dead |-> {}]
NoScan == [at |-> "idle", page |-> 0, range |-> <<0, 0>>, got |-> <<>>, must |-> {}, may |-> {}]

(* create: an empty root leaf.                                               *)
Init ==
  /\ scale \in Scales
  /\ pages = <<Leaf(<<>>, 0)>> /\ root = 1
  /\ w = Idle /\ rd = NoScan
  /\ stored = {}
  /\ spent = [inserts |-> 0, failures |-> 0, vacuums |-> 0]

-----------------------------------------------------------------------------
(* Searching                                                                 *)

Before(a, b) == a[1] < b[1] \/ (a[1] = b[1] /\ a[2] < b[2])

(* As if two entries of one key were the same to a descent.                  *)
upper_bound_KeyOnly(n, probe) == Cardinality({i \in DOMAIN n.items : n.items[i][1] <= probe[1]})

lower_bound(n, probe) == Cardinality({i \in DOMAIN n.items : Before(n.items[i], probe)})
upper_bound(n, probe) == Cardinality({i \in DOMAIN n.items : ~Before(probe, n.items[i])})

child_for(n, probe) ==
  LET pos == upper_bound(n, probe) IN IF pos = 0 THEN n.link ELSE n.items[pos][3]

(* The pages from the root to the leaf that should hold probe.  A descent is no  *)
(* longer than the file.                                                     *)
Descent(probe) ==
  LET down[k \in 0..Len(pages)] ==
        IF k = 0 THEN <<root>>
        ELSE LET path == down[k - 1]
                 n == pages[Last(path)]
             IN  IF n.leaf THEN path ELSE Append(path, child_for(n, probe))
  IN  down[Len(pages)]

(* The leaves from l to the right.                                           *)
Chain(l) ==
  LET along[k \in 0..Len(pages)] ==
        IF k = 0 THEN <<l>>
        ELSE LET chain == along[k - 1]
                 n == pages[Last(chain)]
             IN  IF n.link = 0 THEN chain ELSE Append(chain, n.link)
  IN  along[Len(pages)]

first_leaf == Last(Descent(<<0, 0>>))

(* As if an insert never looked to the right of the leaf it was routed to.    *)
leaf_for_insert_Routed(l, e) == l

(* Where insert_rec puts e once it is routed to leaf l: it moves right while the  *)
(* leaf ends before e and the next leaf that is not empty (right_leaf_for_probe)  *)
(* begins no later than e.                                                   *)
leaf_for_insert(l, e) ==
  LET right(p) == SelectSeq(Tail(Chain(p)), LAMBDA q : pages[q].items # <<>>)
      along[k \in 0..Len(pages)] ==
        IF k = 0 THEN l
        ELSE LET p == along[k - 1]
                 stay == \/ lower_bound(pages[p], e) < Len(pages[p].items)
                         \/ right(p) = <<>>
                         \/ Before(e, pages[Head(right(p))].items[1])
             IN  IF stay THEN p ELSE Head(right(p))
  IN  along[Len(pages)]

-----------------------------------------------------------------------------
(* Splitting                                                                 *)

Capacity(n) == IF n.leaf THEN scale.leaf ELSE scale.node
has_space(n) == Len(n.items) < Capacity(n)

entries_with_insertion(n, item) == InsertAt(n.items, lower_bound(n, item) + 1, item)

(* The share of the left node: half the bytes, rounded up.                   *)
split_point(all) == (Len(all) + 1) \div 2

(* The item that moves up from an internal node: the nearest to the middle that   *)
(* leaves both halves room, for the left one keeps it too.                   *)
internal_split_point(all) ==
  LET fits == {m \in 0..(Len(all) - 1) : m + 1 <= scale.node /\ Len(all) - m - 1 <= scale.node}
      preferred == split_point(all)
      off(m) == IF m <= preferred THEN 2 * (preferred - m) ELSE 2 * (m - preferred) + 1
  IN  CHOOSE m \in fits : \A k \in fits : off(m) <= off(k)

(* The nodes a full node n splits into, and the separator for the parent.  The    *)
(* left internal node keeps the separator that moves up, with the right node as   *)
(* its child: whoever is routed by an older parent still gets to the right.    *)
Halves(n, item, right) ==
  LET all == entries_with_insertion(n, item)
      mid == IF n.leaf THEN split_point(all) ELSE internal_split_point(all)
      up == Item(all[mid + 1], right)
      low == SubSeq(all, 1, mid)
  IN  IF n.leaf
      THEN [left |-> Leaf(low, right), right |-> Leaf(SubSeq(all, mid + 1, Len(all)), n.link), up |-> up]
      ELSE [left |-> Internal(Append(low, up), n.link),
            right |-> Internal(SubSeq(all, mid + 2, Len(all)), all[mid + 1][3]), up |-> up]

-----------------------------------------------------------------------------
(* The holder of the structural latch                                        *)

scan_vars == <<scale, rd>>

(* The reads of an insert, which nobody else can make stale.                 *)
insert(e) ==
  /\ w = Idle /\ e \notin stored
  /\ spent.inserts < scale.inserts
  /\ LET path == Descent(e)
     IN  w' = [Idle EXCEPT !.at = "put", !.page = leaf_for_insert(Last(path), e),
                           !.path = Front(path), !.item = Item(e, 0)]
  /\ spent' = [spent EXCEPT !.inserts = @ + 1]
  /\ UNCHANGED <<scan_vars, pages, root, stored>>

(* The entry is in the index once a page that scans reach holds it.           *)
Add(n) ==
  IF n.leaf THEN /\ stored' = stored \cup {Entry(w.item)}
                 /\ rd' = IF rd.at = "scan" THEN [rd EXCEPT !.may = @ \cup {Entry(w.item)}] ELSE rd
  ELSE UNCHANGED <<stored, rd>>

(* An item for a node with room.                                             *)
insert_entry ==
  /\ w.at = "put"
  /\ LET n == pages[w.page]
     IN  /\ has_space(n)
         /\ pages' = [pages EXCEPT ![w.page].items = entries_with_insertion(n, w.item)]
         /\ Add(n)
  /\ w' = Idle
  /\ UNCHANGED <<scale, root, spent>>

(* split_node: the right half is logged in a new page, then the left one.      *)
split_right ==
  /\ w.at = "put" /\ ~has_space(pages[w.page])
  /\ pages' = Append(pages, Halves(pages[w.page], w.item, Len(pages) + 1).right)
  /\ w' = [w EXCEPT !.at = "left", !.right = Len(pages) + 1]
  /\ UNCHANGED <<scan_vars, root, stored, spent>>

split_left ==
  /\ w.at = "left"
  /\ LET n == pages[w.page]
         h == Halves(n, w.item, w.right)
     IN  /\ pages' = [pages EXCEPT ![w.page] = h.left]
         /\ w' = IF w.path = <<>> THEN [w EXCEPT !.at = "root", !.item = h.up]
                 ELSE [w EXCEPT !.at = "put", !.item = h.up, !.page = Last(w.path),
                                !.path = Front(w.path), !.right = 0]
         /\ Add(n)
  /\ UNCHANGED <<scale, root, spent>>

(* The root was split: a new root is logged, then the metapage.               *)
new_root ==
  /\ w.at = "root"
  /\ pages' = Append(pages, Internal(<<w.item>>, root))
  /\ w' = [w EXCEPT !.at = "set_root", !.right = Len(pages) + 1]
  /\ UNCHANGED <<scan_vars, root, stored, spent>>

set_root ==
  /\ w.at = "set_root"
  /\ root' = w.right
  /\ w' = Idle
  /\ UNCHANGED <<scan_vars, pages, stored, spent>>

(* An append that fails, or a crash.                                         *)
fail ==
  /\ w # Idle /\ spent.failures < scale.failures
  /\ w' = Idle
  /\ spent' = [spent EXCEPT !.failures = @ + 1]
  /\ UNCHANGED <<scan_vars, pages, root, stored>>

(* remove_values_in: VACUUM's pass over the leaves.  What it empties stays.    *)
remove_values_in(dead) ==
  /\ w = Idle /\ spent.vacuums < scale.vacuums /\ dead # {}
  /\ w' = [Idle EXCEPT !.at = "vacuum", !.page = first_leaf, !.dead = dead]
  /\ spent' = [spent EXCEPT !.vacuums = @ + 1]
  /\ UNCHANGED <<scan_vars, pages, root, stored>>

remove_entries ==
  /\ w.at = "vacuum"
  /\ LET n == pages[w.page]
     IN  /\ pages' = [pages EXCEPT ![w.page].items = SelectSeq(@, LAMBDA i : Entry(i) \notin w.dead)]
         /\ LET gone == {Entry(n.items[i]) : i \in DOMAIN n.items} \cap w.dead
            IN  /\ stored' = stored \ gone
                /\ rd' = IF rd.at = "scan" THEN [rd EXCEPT !.must = @ \ gone] ELSE rd
         /\ w' = IF n.link = 0 THEN Idle ELSE [w EXCEPT !.page = n.link]
  /\ UNCHANGED <<scale, root, spent>>

-----------------------------------------------------------------------------
(* Scans: scan_key and range_for_each.  A range is a first and a last key; a      *)
(* scan without a first key starts at 0.                                     *)

writer_vars == <<scale, pages, root, w, stored, spent>>

InRange(e, range) == e[1] >= range[1] /\ e[1] <= range[2]
Expected(range) == {e \in stored : InRange(e, range)}

start_leaf(range) ==
  /\ rd = NoScan
  /\ rd' = [NoScan EXCEPT !.at = "scan", !.page = root, !.range = range,
                          !.must = Expected(range), !.may = Expected(range)]
  /\ UNCHANGED writer_vars

descend_to_leaf ==
  /\ rd.at = "scan" /\ ~pages[rd.page].leaf
  /\ rd' = [rd EXCEPT !.page = child_for(pages[rd.page], <<rd.range[1], 0>>)]
  /\ UNCHANGED writer_vars

(* As if a scan ended at a leaf that holds nothing of its range.             *)
read_leaf_StopsAtGap ==
  /\ rd.at = "scan" /\ pages[rd.page].leaf
  /\ LET n == pages[rd.page]
         here == SelectSeq(n.items, LAMBDA i : InRange(i, rd.range))
     IN  rd' = [rd EXCEPT !.got = @ \o [i \in DOMAIN here |-> Entry(here[i])],
                          !.at = IF here = <<>> \/ n.link = 0 THEN "done" ELSE "scan", !.page = n.link]
  /\ UNCHANGED writer_vars

(* A leaf's entries in range are copied, and its link is followed unless an       *)
(* entry lies beyond the range.                                              *)
read_leaf ==
  /\ rd.at = "scan" /\ pages[rd.page].leaf
  /\ LET n == pages[rd.page]
         here == SelectSeq(n.items, LAMBDA i : InRange(i, rd.range))
         beyond_end == \E i \in DOMAIN n.items : n.items[i][1] > rd.range[2]
     IN  rd' = [rd EXCEPT !.got = @ \o [i \in DOMAIN here |-> Entry(here[i])],
                          !.at = IF beyond_end \/ n.link = 0 THEN "done" ELSE "scan", !.page = n.link]
  /\ UNCHANGED writer_vars

-----------------------------------------------------------------------------

Write ==
  \/ \E e \in scale.entries : insert(e)
  \/ insert_entry \/ split_right \/ split_left \/ new_root \/ set_root \/ fail
  \/ \E dead \in SUBSET stored : remove_values_in(dead)
  \/ remove_entries

Read == (\E range \in scale.ranges : start_leaf(range)) \/ descend_to_leaf \/ read_leaf

Next == Write \/ Read

Spec == Init /\ [][Next]_vars

-----------------------------------------------------------------------------
(* Properties                                                               *)

Sorted(s) == \A i, j \in DOMAIN s : i < j => Before(s[i], s[j])

(* A scan returns, in order and once, every entry of its range that was in the     *)
(* index all the while, and none that never was, whatever splits and removals it   *)
(* met (child_for on pages read one by one, and the right links).             *)
ScanComplete ==
  rd.at = "done" =>
    /\ Sorted(rd.got)
    /\ rd.must \subseteq Range(rd.got) /\ Range(rd.got) \subseteq rd.may

(* The leaves hold exactly the entries in the index, in order along the chain,     *)
(* also behind a split that failed half way and around leaves VACUUM emptied       *)
(* (right_leaf_for_probe).                                                   *)
ChainExact ==
  LET chain == Chain(1)
      all == FlattenSeq([i \in DOMAIN chain |-> pages[chain[i]].items])
  IN  /\ Sorted(all)
      /\ {Entry(all[i]) : i \in DOMAIN all} = stored

(* In every state a descent by key ends at or left of the first leaf that holds an *)
(* entry of that key: also while the parents do not know of a split, at any level   *)
(* (a separator is the right half's first entry, key and value).             *)
EveryEntryReachable ==
  LET chain == Chain(1)
      place(p) == CHOOSE i \in DOMAIN chain : chain[i] = p
      holds(p, e) == \E i \in DOMAIN pages[p].items : Entry(pages[p].items[i]) = e
  IN  \A e \in stored :
        LET l == Last(Descent(<<e[1], 0>>))
        IN  /\ l \in Range(chain)
            /\ \E i \in DOMAIN chain : i >= place(l) /\ holds(chain[i], e)
=============================================================================
