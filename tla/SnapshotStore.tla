---------------------------- MODULE SnapshotStore ----------------------------
(***************************************************************************)
(* The snapshot DAG of vmforge-core (crates/vmforge-core/src/snapshot.rs): *)
(* a map from snapshot ids to nodes with a parent pointer.  A node is its  *)
(* parent and its metadata (label, creation time).                         *)
(*                                                                         *)
(* Ids are content hashes, so a snapshot of unchanged contents has the id  *)
(* of the snapshot before it: Spec lets insert be called with any id.      *)
(* FreshSpec is the store as its callers need it, with a new id each time. *)
(***************************************************************************)
EXTENDS Naturals, FiniteSets, Sequences

CONSTANTS
    Ids,            \* snapshot ids
    Labels,         \* the metadata of a node
    NoId            \* the parent of a root

ASSUME IdsAssumption == IsFiniteSet(Ids) /\ NoId \notin Ids

VARIABLE nodes      \* the HashMap: its domain is the set of known ids

Meta == [parent : Ids \cup {NoId}, label : Labels]

Known == DOMAIN nodes

TypeOK == Known \subseteq Ids /\ nodes \in [Known -> Meta]

Init == nodes = [i \in {} |-> NoId]

(* HashMap::insert: a node of that id is replaced. *)
Put(id, meta) ==
    nodes' = [i \in Known \cup {id} |-> IF i = id THEN meta ELSE nodes[i]]

(* Mutant of Insert: the parent is not looked up. *)
Insert_NoParentCheck(id, meta) == Put(id, meta)

Insert(id, meta) ==
    /\ meta.parent = NoId \/ meta.parent \in Known
    /\ Put(id, meta)

Next == \E id \in Ids, meta \in Meta : Insert(id, meta)

FreshNext == \E id \in Ids \ Known, meta \in Meta : Insert(id, meta)

Spec == Init /\ [][Next]_nodes

FreshSpec == Init /\ [][FreshNext]_nodes

-----------------------------------------------------------------------------
Children(id) == {i \in Known : nodes[i].parent = id}

(***************************************************************************)
(* The loop of lineage, for at most n nodes: the nodes from id back to the *)
(* root.  NotFound, then, is the error for an id that is not known; a      *)
(* lineage cut off after n nodes has not come to a root.                   *)
(***************************************************************************)
NoLineage == [id \in Ids \cup {NoId} |-> <<>>]
Prepend(l) ==
    [id \in Ids \cup {NoId} |->
        IF id \in Known THEN <<id>> \o l[nodes[id].parent] ELSE <<>>]

LineageOf[n \in 0 .. Cardinality(Ids) + 1] ==
    IF n = 0 THEN NoLineage ELSE Prepend(LineageOf[n - 1])

Lineage(id) == LineageOf[Cardinality(Ids) + 1][id]

-----------------------------------------------------------------------------
(***************************************************************************)
(* Every parent pointer leads to a node (insert validates the parent and   *)
(* nothing removes one), so lineage of a known id does not end in          *)
(* SnapshotNotFound.                                                       *)
(***************************************************************************)
ParentsKnown == \A i \in Known : nodes[i].parent \in Known \cup {NoId}

(***************************************************************************)
(* There is no cycle of parent pointers: every set of nodes has one whose  *)
(* parent is outside it.  The while loop of lineage ends.                  *)
(***************************************************************************)
NoCycle ==
    \A S \in SUBSET Known : S # {} => \E i \in S : nodes[i].parent \notin S

(***************************************************************************)
(* The inductive invariant of FreshSpec: NoCycle needs ParentsKnown, or a  *)
(* new node could already be the parent of an old one.                     *)
(***************************************************************************)
SInv == TypeOK /\ ParentsKnown /\ NoCycle

(***************************************************************************)
(* lineage: "Ancestry from `id` back to its root (inclusive), newest       *)
(* first".  It starts with the node, ends with a root, has every node once *)
(* and steps from a node to one that counts it among its children.         *)
(***************************************************************************)
LineageReachesRoot ==
    \A i \in Known :
        LET l == Lineage(i) IN
        /\ l[1] = i
        /\ nodes[l[Len(l)]].parent = NoId
        /\ \A j, k \in 1 .. Len(l) : l[j] = l[k] => j = k
        /\ \A j \in 1 .. Len(l) - 1 : l[j] \in Children(l[j + 1])
=============================================================================
