--------------------------- MODULE CatalogueProofs --------------------------
(***************************************************************************)
(* The scripts of Catalogue, any number of them on any number of items and  *)
(* photos: the collection only grows, and its photos exist and match.       *)
(***************************************************************************)
EXTENDS Catalogue, FiniteSetTheorems, SequenceTheorems, WellFoundedInduction, TLAPS

-----------------------------------------------------------------------------
(* Types *)

Place == {"idle", "insert", "line", "edit", "move", "big", "preview", "unlinkBig",
          "unlinkPreview", "renameBig", "renamePreview", "save", "commit"}
Adding == {"big", "preview"}
Renaming == {"renameBig", "renamePreview"}
Removing == {"unlinkBig", "unlinkPreview"} \cup Renaming
Photographing == {"import", "photo add", "photo remove"}

Entry == Row \cup {NoRow}
OwnSet == UNION {[D -> Entry] : D \in SUBSET Id}
ObjectSet == [id : 0..MaxRows, item : Item \cup {"none"}, photos : 0..MaxPhotos]
ListedSet == [id : 1..MaxRows, item : Item, photos : 0..MaxPhotos]
MoveSet == [to : Id, from : Id]

Typed ==
    /\ rows \in [Id -> Entry] /\ big \in Album /\ preview \in Album
    /\ runs \in 0..MaxRuns
    /\ pc \in [Script -> Place] /\ command \in [Script -> Command]
    /\ snapshot \in [Script -> [Id -> Entry]] /\ own \in [Script -> OwnSet]
    /\ self \in [Script -> ObjectSet]
    /\ photo \in [Script -> Photo \cup {Missing}] /\ num \in [Script -> 0..MaxPhotos]
    /\ todo \in [Script -> Seq(ObjectSet) \cup Seq(MoveSet)]
    /\ spoiled \subseteq Item /\ removed \subseteq Item

\* Where a script is tells what it does, and what it has in hand.
PlaceOK(s) ==
    /\ command[s] = "none" => pc[s] = "idle"
    /\ command[s] = "import" => pc[s] \in {"insert", "line", "save", "commit"} \cup Adding
    /\ command[s] = "photo add" => pc[s] \in {"save", "commit"} \cup Adding
    /\ command[s] = "photo remove" => pc[s] \in {"save", "commit"} \cup Removing
    /\ command[s] = "edit" => pc[s] \in {"edit", "commit"}
    /\ command[s] = "move" => pc[s] \in {"move", "commit"}
HandOK(s) ==
    /\ command[s] \in Photographing => self[s].item \in Item /\ todo[s] = <<>>
    /\ command[s] \notin Photographing => self[s] = Nobody
    /\ command[s] = "none" => todo[s] = <<>> /\ own[s] = <<>> /\ photo[s] = Missing
    /\ command[s] = "edit" => todo[s] \in Seq(ListedSet)
    /\ command[s] = "move" => todo[s] \in Seq(MoveSet)
    /\ pc[s] \in {"edit", "move"} => todo[s] # <<>>
    /\ pc[s] = "insert" => self[s].id = 0 /\ self[s].photos = 0
    /\ pc[s] \in Adding => self[s].photos < MaxPhotos
    /\ pc[s] = "preview" => photo[s] # Missing
    /\ pc[s] \in Removing => num[s] < self[s].photos
    /\ pc[s] \in Renaming => num[s] + 1 < self[s].photos
ScriptOK(s) == PlaceOK(s) /\ HandOK(s)
WorkOK == \A s \in Script : ScriptOK(s)

-----------------------------------------------------------------------------
(* The ids of rows: what makes the collection grow at its head only *)

\* The rows have the ids from 1 on.
Numbered(T) == \A id \in T : \A x \in 1..id : x \in T
RowsOK == Numbered(Ids(rows)) /\ \A id \in Ids(rows) : id <= MaxRows

\* No row goes, and none changes its item: what a script read once is still so.
Same(id, item) == id \in Ids(rows) /\ rows[id].item = item
SnapshotOK(s) == Numbered(Ids(snapshot[s])) /\ Ids(snapshot[s]) \subseteq Ids(rows)

\* An import has the ids that come after those of the rows, without a gap.
ImportOK(s) == command[s] = "import" =>
    /\ DOMAIN own[s] \cap Ids(rows) = {} /\ Numbered(Ids(rows) \cup DOMAIN own[s])
    /\ \A id \in DOMAIN own[s] : own[s][id] # NoRow /\ id <= MaxRows
    /\ pc[s] # "insert" => self[s].id \in DOMAIN own[s] /\ own[s][self[s].id].item = self[s].item

\* The others change rows there are, and not their item.
ChangeOK(s) == command[s] \in {"photo add", "photo remove", "edit"} =>
    \A id \in DOMAIN own[s] : own[s][id] # NoRow /\ Same(id, own[s][id].item)
SelfOK(s) == command[s] \in {"photo add", "photo remove"} => Same(self[s].id, self[s].item)
EditOK(s) == command[s] = "edit" => \A k \in 1..Len(todo[s]) : Same(todo[s][k].id, todo[s][k].item)

\* The UPDATEs of a move find no row, or the id taken that they are to set;
\* one that would do something comes after one that cannot be done.
Harmless(m) == m.to <= m.from \/ m.to \in Ids(rows)
Stuck(m) == m.from \in Ids(rows) /\ m.to \in Ids(rows)
MoveOK(s) == command[s] = "move" =>
    /\ own[s] = <<>>
    /\ \A k \in 1..Len(todo[s]) : Harmless(todo[s][k]) \/ \E j \in 1..(k - 1) : Stuck(todo[s][j])

OwnOK(s) == SnapshotOK(s) /\ ImportOK(s) /\ ChangeOK(s) /\ SelfOK(s) /\ EditOK(s) /\ MoveOK(s)
GrowOK ==
    /\ RowsOK /\ \A s \in Script : OwnOK(s)
    /\ \A s, t \in Script : s # t => DOMAIN own[s] \cap DOMAIN own[t] = {}

-----------------------------------------------------------------------------
(* Lemmas *)

LEMMA Least ==
    ASSUME NEW T, T \subseteq Nat, T # {}
    PROVE  \E i \in T : \A j \in T : i <= j
<1> DEFINE R == {pair \in Nat \X Nat : pair[1] < pair[2]}
<1>1. R = OpToRel(<, Nat)
  BY DEF OpToRel
<1>2. IsWellFoundedOn(R, Nat)
  BY <1>1, NatLessThanWellFounded
<1>3. PICK i \in T : \A j \in T : <<j, i>> \notin R
  BY <1>2, WFMin
<1>4. ASSUME NEW j \in T PROVE i <= j
  <2>1. i \in Nat /\ j \in Nat /\ <<j, i>> \in Nat \X Nat
    OBVIOUS
  <2>2. <<j, i>> \in R <=> j < i
    BY <2>1
  <2>3. QED
    BY <1>3, <2>1, <2>2
<1>5. QED
  BY <1>4

LEMMA Greatest ==
    ASSUME NEW T, NEW n \in Nat, T \subseteq 1..n, T # {}
    PROVE  \E i \in T : \A j \in T : j <= i
<1> DEFINE S == {n - j : j \in T}
<1>1. S \subseteq Nat /\ S # {}
  <2>1. \A j \in T : n - j \in Nat
    OBVIOUS
  <2>2. QED
    BY <2>1
<1>2. PICK k \in S : \A l \in S : k <= l
  BY <1>1, Least
<1>3. PICK i \in T : k = n - i
  OBVIOUS
<1>4. ASSUME NEW j \in T PROVE j <= i
  <2>1. n - j \in S /\ i \in 1..n /\ j \in 1..n
    OBVIOUS
  <2>2. n - i <= n - j
    BY <1>2, <1>3, <2>1
  <2>3. QED
    BY <2>1, <2>2
<1>5. QED
  BY <1>4

LEMMA Numbers ==
    /\ MaxRows \in Nat /\ MaxPhotos \in Nat /\ MaxRuns \in Nat /\ "none" \notin Item /\ IsFiniteSet(Script)
    /\ Missing \notin Photo /\ \A id \in Id : id \in Nat /\ id # 0
    /\ NoRow \notin Row /\ NoRow \in Entry
<1>1. MaxRows \in Nat /\ MaxPhotos \in Nat /\ MaxRuns \in Nat /\ "none" \notin Item /\ IsFiniteSet(Script)
  BY CatalogueAssumption
<1>2. Missing \notin Photo
  <2>1. Cardinality(Script) \in Nat
    BY <1>1, FS_CardinalityType
  <2>2. QED
    BY <1>1, <2>1 DEF Missing, Photo
<1>3. QED
  BY <1>1, <1>2 DEF Id, NoRow, Row, Entry

LEMMA PutOf ==
    ASSUME NEW f \in OwnSet, NEW k \in Id, NEW v \in Entry
    PROVE  /\ Put(f, k, v) \in OwnSet /\ DOMAIN Put(f, k, v) = DOMAIN f \cup {k}
           /\ Put(f, k, v)[k] = v /\ \A x \in DOMAIN f : x # k => Put(f, k, v)[x] = f[x]
<1>1. PICK D \in SUBSET Id : f \in [D -> Entry]
  BY DEF OwnSet
<1>2. Put(f, k, v) \in [D \cup {k} -> Entry]
  BY <1>1 DEF Put
<1>3. D \cup {k} \in SUBSET Id
  OBVIOUS
<1>4. Put(f, k, v) \in OwnSet
  BY <1>2, <1>3 DEF OwnSet
<1>5. QED
  BY <1>4 DEF Put

LEMMA OwnOf ==
    ASSUME NEW f \in OwnSet
    PROVE  DOMAIN f \subseteq Id /\ \A id \in DOMAIN f : f[id] \in Entry
BY DEF OwnSet

LEMMA EmptyOwn == <<>> \in OwnSet /\ DOMAIN <<>> = {}
<1>1. DOMAIN <<>> = {} /\ <<>> = [x \in {} |-> NoRow]
  OBVIOUS
<1>2. [x \in {} |-> NoRow] \in [{} -> Entry]
  OBVIOUS
<1>3. QED
  BY <1>1, <1>2 DEF OwnSet

\* There are enough photos: the files of an item and the scripts do not know all.
LEMMA NewOf ==
    ASSUME Typed, NEW i \in Item
    PROVE  /\ New(i) \in Photo /\ New(i) # Missing
           /\ \A k \in Index : New(i) # big[i][k] /\ New(i) # preview[i][k]
<1> DEFINE A == {big[i][k] : k \in Index}
           B == {preview[i][k] : k \in Index}
           C == {photo[t] : t \in Script}
<1>1. IsFiniteSet(Index) /\ Cardinality(Index) = MaxPhotos
  <2>1. MaxPhotos - 1 \in Int /\ 0 \in Int
    BY Numbers
  <2>2. IsFiniteSet(0..(MaxPhotos - 1)) /\ Cardinality(0..(MaxPhotos - 1)) = IF 0 > MaxPhotos - 1 THEN 0 ELSE MaxPhotos - 1 - 0 + 1
    BY <2>1, FS_Interval
  <2>3. QED
    BY <2>2, Numbers DEF Index
<1>2. IsFiniteSet(A) /\ Cardinality(A) <= MaxPhotos
  <2>1. [k \in Index |-> big[i][k]] \in Surjection(Index, A)
    BY DEF Surjection
  <2>2. QED
    BY <1>1, <2>1, FS_Surjection
<1>3. IsFiniteSet(B) /\ Cardinality(B) <= MaxPhotos
  <2>1. [k \in Index |-> preview[i][k]] \in Surjection(Index, B)
    BY DEF Surjection
  <2>2. QED
    BY <1>1, <2>1, FS_Surjection
<1>4. IsFiniteSet(C) /\ Cardinality(C) <= Cardinality(Script)
  <2>1. [t \in Script |-> photo[t]] \in Surjection(Script, C)
    BY DEF Surjection
  <2>2. QED
    BY Numbers, <2>1, FS_Surjection
<1> HIDE DEF A, B, C
<1>5. /\ Cardinality(A) \in Nat /\ Cardinality(B) \in Nat /\ Cardinality(C) \in Nat /\ Cardinality(Script) \in Nat
  BY <1>2, <1>3, <1>4, Numbers, FS_CardinalityType
<1>6. IsFiniteSet(A \cup B) /\ Cardinality(A \cup B) <= 2 * MaxPhotos /\ Cardinality(A \cup B) \in Nat
  <2>1. IsFiniteSet(A \cup B) /\ Cardinality(A \cup B) = Cardinality(A) + Cardinality(B) - Cardinality(A \cap B)
    BY <1>2, <1>3, FS_Union
  <2>2. IsFiniteSet(A \cap B)
    BY <1>2, FS_Subset
  <2>3. Cardinality(A \cap B) \in Nat /\ Cardinality(A \cup B) \in Nat
    BY <2>1, <2>2, FS_CardinalityType
  <2>4. QED
    BY <1>2, <1>3, <1>5, <2>1, <2>3, Numbers
<1>7. IsFiniteSet(A \cup B \cup C) /\ Cardinality(A \cup B \cup C) <= 2 * MaxPhotos + Cardinality(Script)
  <2>1. IsFiniteSet((A \cup B) \cup C) /\ Cardinality((A \cup B) \cup C) = Cardinality(A \cup B) + Cardinality(C) - Cardinality((A \cup B) \cap C)
    BY <1>4, <1>6, FS_Union
  <2>2. IsFiniteSet((A \cup B) \cap C)
    BY <1>6, FS_Subset
  <2>3. Cardinality((A \cup B) \cap C) \in Nat
    BY <2>2, FS_CardinalityType
  <2>4. QED
    BY <1>4, <1>5, <1>6, <2>1, <2>3, Numbers
<1>8. Cardinality(Photo) = 2 * MaxPhotos + Cardinality(Script) + 1
  <2>1. 2 * MaxPhotos + Cardinality(Script) + 1 \in Int /\ 1 \in Int /\ ~(1 > 2 * MaxPhotos + Cardinality(Script) + 1)
    BY <1>5, Numbers
  <2>2. Cardinality(1..(2 * MaxPhotos + Cardinality(Script) + 1)) = (2 * MaxPhotos + Cardinality(Script) + 1) - 1 + 1
    BY <2>1, FS_Interval
  <2>3. QED
    BY <1>5, <2>2, Numbers DEF Photo
<1>9. ~(Photo \subseteq A \cup B \cup C)
  <2>1. ASSUME Photo \subseteq A \cup B \cup C PROVE FALSE
    <3>1. Cardinality(Photo) <= Cardinality(A \cup B \cup C) /\ Cardinality(A \cup B \cup C) \in Nat
      BY <1>7, <2>1, FS_Subset, FS_CardinalityType
    <3>2. QED
      BY <1>5, <1>7, <1>8, <3>1, Numbers
  <2>2. QED
    BY <2>1
<1>10. PICK p \in Photo : p \notin A \cup B \cup C
  BY <1>9
<1>11. /\ \A k \in Index : p # big[i][k] /\ p # preview[i][k]
       /\ \A t \in Script : p # photo[t]
  BY <1>10 DEF A, B, C
<1>12. /\ New(i) \in Photo
       /\ \A k \in Index : New(i) # big[i][k] /\ New(i) # preview[i][k]
  BY <1>11, Zenon DEF New
<1>13. QED
  BY <1>12, Numbers

-----------------------------------------------------------------------------
(* A step of one script: what it sets and what it leaves to the others *)

Sets(s, at, does, snap, rs, obj, p, n, list) ==
    /\ pc' = [pc EXCEPT ![s] = at] /\ command' = [command EXCEPT ![s] = does]
    /\ snapshot' = [snapshot EXCEPT ![s] = snap] /\ own' = [own EXCEPT ![s] = rs]
    /\ self' = [self EXCEPT ![s] = obj] /\ photo' = [photo EXCEPT ![s] = p]
    /\ num' = [num EXCEPT ![s] = n] /\ todo' = [todo EXCEPT ![s] = list]

Has(s, at, does, snap, rs, obj, p, n, list) ==
    /\ pc'[s] = at /\ command'[s] = does /\ snapshot'[s] = snap /\ own'[s] = rs
    /\ self'[s] = obj /\ photo'[s] = p /\ num'[s] = n /\ todo'[s] = list

Waits(t) ==
    /\ pc'[t] = pc[t] /\ command'[t] = command[t] /\ snapshot'[t] = snapshot[t] /\ own'[t] = own[t]
    /\ self'[t] = self[t] /\ photo'[t] = photo[t] /\ num'[t] = num[t] /\ todo'[t] = todo[t]
OthersWait(s) == \A t \in Script : t # s => Waits(t)

ScriptTypes ==
    /\ pc \in [Script -> Place] /\ command \in [Script -> Command]
    /\ snapshot \in [Script -> [Id -> Entry]] /\ own \in [Script -> OwnSet]
    /\ self \in [Script -> ObjectSet]
    /\ photo \in [Script -> Photo \cup {Missing}] /\ num \in [Script -> 0..MaxPhotos]
    /\ todo \in [Script -> Seq(ObjectSet) \cup Seq(MoveSet)]

LEMMA SetsHas ==
    ASSUME Typed, NEW s \in Script, NEW at \in Place, NEW does \in Command, NEW snap \in [Id -> Entry],
           NEW rs \in OwnSet, NEW obj \in ObjectSet, NEW p \in Photo \cup {Missing}, NEW n \in 0..MaxPhotos,
           NEW list \in Seq(ObjectSet) \cup Seq(MoveSet), Sets(s, at, does, snap, rs, obj, p, n, list)
    PROVE  ScriptTypes' /\ Has(s, at, does, snap, rs, obj, p, n, list) /\ OthersWait(s)
<1>1. pc' \in [Script -> Place] /\ command' \in [Script -> Command]
  BY DEF Typed, Sets
<1>2. snapshot' \in [Script -> [Id -> Entry]] /\ own' \in [Script -> OwnSet]
  BY DEF Typed, Sets
<1>3. self' \in [Script -> ObjectSet]
  BY DEF Typed, Sets
<1>4. photo' \in [Script -> Photo \cup {Missing}] /\ num' \in [Script -> 0..MaxPhotos]
  BY DEF Typed, Sets
<1>5. todo' \in [Script -> Seq(ObjectSet) \cup Seq(MoveSet)]
  BY DEF Typed, Sets
<1>6. Has(s, at, does, snap, rs, obj, p, n, list)
  BY DEF Typed, Sets, Has
<1>7. OthersWait(s)
  BY DEF Typed, Sets, OthersWait, Waits
<1>8. QED
  BY <1>1, <1>2, <1>3, <1>4, <1>5, <1>6, <1>7 DEF ScriptTypes

\* What is not changed is set to what it was.
LEMMA Unset ==
    ASSUME Typed, NEW s \in Script
    PROVE  /\ pc = [pc EXCEPT ![s] = pc[s]] /\ command = [command EXCEPT ![s] = command[s]]
           /\ snapshot = [snapshot EXCEPT ![s] = snapshot[s]] /\ own = [own EXCEPT ![s] = own[s]]
           /\ self = [self EXCEPT ![s] = self[s]] /\ photo = [photo EXCEPT ![s] = photo[s]]
           /\ num = [num EXCEPT ![s] = num[s]] /\ todo = [todo EXCEPT ![s] = todo[s]]
BY DEF Typed

LEMMA SelfWith ==
    ASSUME Typed, NEW s \in Script, NEW v
    PROVE  /\ [self EXCEPT ![s].photos = v] = [self EXCEPT ![s] = [id |-> self[s].id, item |-> self[s].item, photos |-> v]]
           /\ [self EXCEPT ![s].id = v] = [self EXCEPT ![s] = [id |-> v, item |-> self[s].item, photos |-> self[s].photos]]
<1>1. /\ [self[s] EXCEPT !.photos = v] = [id |-> self[s].id, item |-> self[s].item, photos |-> v]
      /\ [self[s] EXCEPT !.id = v] = [id |-> v, item |-> self[s].item, photos |-> self[s].photos]
  <2>1. self[s] \in ObjectSet
    BY DEF Typed
  <2>2. PICK i \in 0..MaxRows, it \in Item \cup {"none"}, n \in 0..MaxPhotos : self[s] = [id |-> i, item |-> it, photos |-> n]
    BY <2>1 DEF ObjectSet
  <2>3. QED
    BY <2>2
<1>2. QED
  BY <1>1

LEMMA NobodyWith ==
    ASSUME NEW i PROVE [Nobody EXCEPT !.item = i] = [id |-> 0, item |-> i, photos |-> 0]
BY DEF Nobody

LEMMA NobodyTyped == Nobody \in ObjectSet
BY Numbers DEF Nobody, ObjectSet

LEMMA RowOf ==
    ASSUME Typed, RowsOK, NEW id \in Ids(rows)
    PROVE  /\ id \in Id /\ id \in 1..MaxRows /\ rows[id] \in Row /\ rows[id] # NoRow /\ rows[id].item \in Item /\ rows[id].photos \in 0..MaxPhotos
           /\ Object(rows, id) \in ListedSet /\ Object(rows, id) \in ObjectSet
<1>1. id \in Id /\ rows[id] # NoRow /\ rows[id] \in Entry
  BY DEF Ids, Typed
<1>0. id \in 1..MaxRows
  BY <1>1, Numbers DEF RowsOK, Id
<1>2. rows[id] \in Row
  BY <1>1 DEF Entry
<1>3. rows[id].item \in Item /\ rows[id].photos \in 0..MaxPhotos
  BY <1>2 DEF Row
<1>4. QED
  BY <1>0, <1>1, <1>2, <1>3 DEF Object, ObjectSet, ListedSet

LEMMA NowOf ==
    ASSUME Typed, NEW s \in Script
    PROVE  /\ Now(s) \in [Id -> Entry] /\ Read(s) \in [Id -> Entry]
           /\ \A id \in Id : /\ id \in DOMAIN own[s] => Now(s)[id] = own[s][id] /\ Read(s)[id] = own[s][id]
                             /\ id \notin DOMAIN own[s] => Now(s)[id] = rows[id] /\ Read(s)[id] = snapshot[s][id]
<1>1. own[s] \in OwnSet /\ snapshot[s] \in [Id -> Entry] /\ rows \in [Id -> Entry]
  BY DEF Typed
<1>2. \A id \in DOMAIN own[s] : own[s][id] \in Entry
  BY <1>1, OwnOf
<1>3. QED
  BY <1>1, <1>2 DEF Now, Read

LEMMA FieldsOf ==
    ASSUME NEW obj \in ObjectSet, obj.item \in Item
    PROVE  Fields(obj) \in Row /\ Fields(obj) \in Entry /\ Fields(obj).item = obj.item /\ Fields(obj).photos = obj.photos
BY DEF ObjectSet, Fields, Row, Entry

LEMMA ItemsTyped == \A t \in Script : Items(t) \subseteq Item
BY DEF Items

LEMMA NextIdOf ==
    ASSUME NEW table \in [Id -> Entry]
    PROVE  /\ next_id(table) \in Nat \ {0} /\ next_id(table) <= MaxRows + 2
           /\ Ids(table) = {} => next_id(table) = 1
           /\ Ids(table) # {} => next_id(table) - 1 \in Ids(table)
           /\ \A x \in Ids(table) : x < next_id(table)
<1>1. Ids(table) \subseteq 1..(MaxRows + 1) /\ MaxRows + 1 \in Nat
  BY Numbers DEF Ids, Id
<1>2. CASE Ids(table) = {}
  BY <1>2, Numbers DEF next_id
<1>3. CASE Ids(table) # {}
  <2> DEFINE last == CHOOSE id \in Ids(table) : \A x \in Ids(table) : x <= id
  <2>1. \E id \in Ids(table) : \A x \in Ids(table) : x <= id
    BY <1>1, <1>3, Greatest
  <2>2. last \in Ids(table) /\ \A x \in Ids(table) : x <= last
    BY <2>1
  <2>3. next_id(table) = 1 + last
    BY <1>3 DEF next_id
  <2> HIDE DEF last
  <2>4. last \in Nat /\ last <= MaxRows + 1 /\ \A x \in Ids(table) : x \in Nat
    BY <1>1, <2>2
  <2>5. next_id(table) - 1 = last /\ next_id(table) \in Nat \ {0} /\ next_id(table) <= MaxRows + 2
    BY <2>3, <2>4, Numbers
  <2>6. \A x \in Ids(table) : x < next_id(table)
    BY <2>2, <2>3, <2>4
  <2>7. QED
    BY <1>3, <2>2, <2>5, <2>6
<1>4. QED
  BY <1>2, <1>3

\* The UPDATEs of a move: the id it frees for the row, the rows between, the row.
Shift(update, k, old, new) ==
    /\ old < new => old + k \in old..new /\ update = [to |-> old + k - 1, from |-> old + k]
    /\ new < old => old - k \in new..old /\ update = [to |-> old - k + 1, from |-> old - k]
Shifts(shift, d, old, new) == shift \in [1..d -> MoveSet] /\ \A k \in 1..d : Shift(shift[k], k, old, new)

LEMMA MovesOf ==
    ASSUME NEW old \in Id, NEW new \in Id, NEW tmp \in Id, old # new
    PROVE  \E d \in Nat \ {0} :
             /\ Moves(old, new, tmp) \in Seq(MoveSet) /\ Len(Moves(old, new, tmp)) = d + 2
             /\ Moves(old, new, tmp)[1] = [to |-> old, from |-> tmp]
             /\ Moves(old, new, tmp)[d + 2] = [to |-> tmp, from |-> new]
             /\ \A k \in 1..d : Shift(Moves(old, new, tmp)[k + 1], k, old, new)
<1>0. old \in Nat /\ new \in Nat /\ tmp \in Nat /\ Id = 1..(MaxRows + 1) /\ MaxRows \in Nat
  BY Numbers DEF Id
<1> DEFINE shift == IF old < new
                    THEN [k \in 1..(new - old) |-> [to |-> old + k - 1, from |-> old + k]]
                    ELSE [k \in 1..(old - new) |-> [to |-> old - k + 1, from |-> old - k]]
           first == <<[to |-> old, from |-> tmp]>>
           last == <<[to |-> tmp, from |-> new]>>
<1>1. Moves(old, new, tmp) = first \o shift \o last
  BY DEF Moves
<1>2. \E d \in Nat \ {0} : Shifts(shift, d, old, new)
  <2>1. CASE old < new
    <3>1. new - old \in Nat \ {0} /\ \A k \in 1..(new - old) : old + k \in old..new /\ old + k \in Id /\ old + k - 1 \in Id
      BY <1>0, <2>1
    <3>2. \A k \in 1..(new - old) : [to |-> old + k - 1, from |-> old + k] \in MoveSet
      BY <3>1 DEF MoveSet
    <3>3. ~(new < old)
      BY <1>0, <2>1
    <3>4. shift = [k \in 1..(new - old) |-> [to |-> old + k - 1, from |-> old + k]]
      BY <2>1
    <3> HIDE DEF shift
    <3>5. shift \in [1..(new - old) -> MoveSet] /\ \A k \in 1..(new - old) : shift[k] = [to |-> old + k - 1, from |-> old + k]
      BY <3>2, <3>4
    <3>6. Shifts(shift, new - old, old, new)
      BY <3>1, <3>3, <3>5 DEF Shifts, Shift
    <3>7. QED
      BY <3>1, <3>6
  <2>2. CASE new < old
    <3>1. old - new \in Nat \ {0} /\ \A k \in 1..(old - new) : old - k \in new..old /\ old - k \in Id /\ old - k + 1 \in Id
      BY <1>0, <2>2
    <3>2. \A k \in 1..(old - new) : [to |-> old - k + 1, from |-> old - k] \in MoveSet
      BY <3>1 DEF MoveSet
    <3>3. ~(old < new)
      BY <1>0, <2>2
    <3>4. shift = [k \in 1..(old - new) |-> [to |-> old - k + 1, from |-> old - k]]
      BY <3>3
    <3> HIDE DEF shift
    <3>5. shift \in [1..(old - new) -> MoveSet] /\ \A k \in 1..(old - new) : shift[k] = [to |-> old - k + 1, from |-> old - k]
      BY <3>2, <3>4
    <3>6. Shifts(shift, old - new, old, new)
      BY <3>1, <3>3, <3>5 DEF Shifts, Shift
    <3>7. QED
      BY <3>1, <3>6
  <2> HIDE DEF shift
  <2>3. QED
    BY <1>0, <2>1, <2>2
<1> HIDE DEF shift
<1>3. PICK d \in Nat \ {0} : Shifts(shift, d, old, new)
  BY <1>2
<1>4. shift \in Seq(MoveSet) /\ Len(shift) = d
  <2>1. shift \in Seq(MoveSet)
    BY <1>3, SeqDef DEF Shifts
  <2>2. QED
    BY <1>3, <2>1, LenProperties DEF Shifts
<1>5. /\ first \in Seq(MoveSet) /\ Len(first) = 1 /\ first[1] = [to |-> old, from |-> tmp]
      /\ last \in Seq(MoveSet) /\ Len(last) = 1 /\ last[1] = [to |-> tmp, from |-> new]
  BY DEF MoveSet
<1> HIDE DEF first, last
<1>6. /\ first \o shift \in Seq(MoveSet) /\ Len(first \o shift) = d + 1
      /\ (first \o shift)[1] = first[1] /\ \A k \in 1..d : (first \o shift)[k + 1] = shift[k]
  <2>1. /\ first \o shift \in Seq(MoveSet) /\ Len(first \o shift) = Len(first) + Len(shift)
        /\ \A i \in 1..(Len(first) + Len(shift)) : (first \o shift)[i] = IF i <= Len(first) THEN first[i] ELSE shift[i - Len(first)]
    BY <1>4, <1>5, ConcatProperties
  <2>2. \A k \in 1..d : k + 1 \in 1..(Len(first) + Len(shift)) /\ ~(k + 1 <= Len(first)) /\ (k + 1) - Len(first) = k
    BY <1>4, <1>5
  <2>3. 1 \in 1..(Len(first) + Len(shift)) /\ 1 <= Len(first) /\ Len(first) + Len(shift) = d + 1
    BY <1>4, <1>5
  <2>4. QED
    BY <2>1, <2>2, <2>3
<1>7. /\ (first \o shift) \o last \in Seq(MoveSet) /\ Len((first \o shift) \o last) = d + 2
      /\ ((first \o shift) \o last)[1] = first[1] /\ \A k \in 1..d : ((first \o shift) \o last)[k + 1] = shift[k]
      /\ ((first \o shift) \o last)[d + 2] = last[1]
  <2> DEFINE front == first \o shift
  <2>1. front \in Seq(MoveSet) /\ Len(front) = d + 1
    BY <1>6
  <2> HIDE DEF front
  <2>2. /\ front \o last \in Seq(MoveSet) /\ Len(front \o last) = Len(front) + Len(last)
        /\ \A i \in 1..(Len(front) + Len(last)) : (front \o last)[i] = IF i <= Len(front) THEN front[i] ELSE last[i - Len(front)]
    BY <1>5, <2>1, ConcatProperties
  <2>3. \A k \in 1..d : k + 1 \in 1..(Len(front) + Len(last)) /\ k + 1 <= Len(front)
    BY <1>5, <2>1
  <2>4. /\ 1 \in 1..(Len(front) + Len(last)) /\ 1 <= Len(front) /\ Len(front) + Len(last) = d + 2
        /\ d + 2 \in 1..(Len(front) + Len(last)) /\ ~(d + 2 <= Len(front)) /\ (d + 2) - Len(front) = 1
    BY <1>5, <2>1
  <2>5. /\ front \o last \in Seq(MoveSet) /\ Len(front \o last) = d + 2
        /\ (front \o last)[1] = front[1] /\ \A k \in 1..d : (front \o last)[k + 1] = front[k + 1]
        /\ (front \o last)[d + 2] = last[1]
    BY <2>2, <2>3, <2>4
  <2>6. QED
    BY <1>6, <2>5 DEF front
<1>8. QED
  BY <1>1, <1>3, <1>5, <1>7 DEF Shifts

LEMMA MovesHarmless ==
    ASSUME Typed, RowsOK, NEW old \in Ids(rows), NEW new \in Id, old # new, NEW m, m = Moves(old, new, next_id(rows))
    PROVE  /\ m \in Seq(MoveSet) /\ m # <<>>
           /\ \A k \in 1..Len(m) : Harmless(m[k]) \/ \E j \in 1..(k - 1) : Stuck(m[j])
<1> DEFINE tmp == next_id(rows)
<1>1. /\ rows \in [Id -> Entry] /\ old \in Id /\ old \in Nat /\ new \in Nat /\ new >= 1 /\ MaxRows \in Nat /\ Id = 1..(MaxRows + 1)
  BY Numbers DEF Typed, Ids, Id
<1>2. tmp \in Nat \ {0} /\ tmp - 1 \in Ids(rows) /\ \A x \in Ids(rows) : x < tmp
  BY <1>1, NextIdOf
<1>3. tmp - 1 <= MaxRows
  BY <1>2 DEF RowsOK
<1> HIDE DEF tmp
<1>4. tmp \in Id
  BY <1>1, <1>2, <1>3
<1>5. m = Moves(old, new, tmp)
  BY DEF tmp
<1>6. PICK d \in Nat \ {0} :
             /\ m \in Seq(MoveSet) /\ Len(m) = d + 2
             /\ m[1] = [to |-> old, from |-> tmp]
             /\ m[d + 2] = [to |-> tmp, from |-> new]
             /\ \A k \in 1..d : Shift(m[k + 1], k, old, new)
  <2>1. \E d \in Nat \ {0} :
             /\ Moves(old, new, tmp) \in Seq(MoveSet) /\ Len(Moves(old, new, tmp)) = d + 2
             /\ Moves(old, new, tmp)[1] = [to |-> old, from |-> tmp]
             /\ Moves(old, new, tmp)[d + 2] = [to |-> tmp, from |-> new]
             /\ \A k \in 1..d : Shift(Moves(old, new, tmp)[k + 1], k, old, new)
    BY <1>1, <1>4, MovesOf
  <2>2. QED
    BY <1>5, <2>1, Zenon
<1>7. \A x \in 1..old : x \in Ids(rows)
  BY DEF RowsOK, Numbered
<1>8. Harmless(m[1])
  BY <1>6 DEF Harmless
<1>9. ASSUME NEW k \in 1..d PROVE Harmless(m[k + 1])
  <2>1. CASE old < new
    <3>1. m[k + 1] = [to |-> old + k - 1, from |-> old + k]
      BY <1>6, <2>1 DEF Shift
    <3>3. old + k - 1 <= old + k
      BY <1>1
    <3>2. QED
      BY <3>1, <3>3 DEF Harmless
  <2>2. CASE new < old
    <3>1. m[k + 1] = [to |-> old - k + 1, from |-> old - k] /\ old - k \in new..old
      BY <1>6, <2>2 DEF Shift
    <3>2. old - k + 1 \in 1..old
      BY <1>1, <3>1
    <3>3. QED
      BY <1>7, <3>1, <3>2 DEF Harmless
  <2>3. QED
    BY <1>1, <2>1, <2>2
<1>10. Harmless(m[d + 2]) \/ Stuck(m[2])
  <2>1. CASE tmp <= new
    BY <1>6, <2>1 DEF Harmless
  <2>2. CASE ~(tmp <= new)
    <3>1. new \in 1..(tmp - 1)
      BY <1>1, <1>2, <2>2
    <3>2. \A x \in 1..new : x \in Ids(rows)
      BY <1>1, <1>2, <3>1 DEF RowsOK, Numbered
    <3>3. 1 \in 1..d /\ 1 + 1 = 2
      BY <1>6
    <3>4. CASE old < new
      <4>1. Shift(m[2], 1, old, new)
        BY <1>6, <3>3
      <4>2. m[2] = [to |-> old + 1 - 1, from |-> old + 1]
        BY <3>4, <4>1 DEF Shift
      <4>3. old + 1 - 1 = old /\ old + 1 \in 1..new
        BY <1>1, <3>4
      <4>4. QED
        BY <3>2, <4>2, <4>3 DEF Stuck
    <3>5. CASE new < old
      <4>1. Shift(m[2], 1, old, new)
        BY <1>6, <3>3
      <4>2. m[2] = [to |-> old - 1 + 1, from |-> old - 1]
        BY <3>5, <4>1 DEF Shift
      <4>3. old - 1 + 1 = old /\ old - 1 \in 1..old
        BY <1>1, <3>5
      <4>4. QED
        BY <1>7, <4>2, <4>3 DEF Stuck
    <3>6. QED
      BY <1>1, <3>4, <3>5
  <2>3. QED
    BY <2>1, <2>2
<1>11. ASSUME NEW k \in 1..Len(m) PROVE Harmless(m[k]) \/ \E j \in 1..(k - 1) : Stuck(m[j])
  <2>1. k = 1 \/ k = d + 2 \/ (k - 1 \in 1..d /\ (k - 1) + 1 = k)
    BY <1>6
  <2>2. 2 \in 1..(d + 2 - 1)
    BY <1>6
  <2>3. QED
    BY <1>8, <1>9, <1>10, <2>1, <2>2
<1>12. m # <<>>
  BY <1>6
<1>13. QED
  BY <1>6, <1>11, <1>12

-----------------------------------------------------------------------------
(* The steps of a script, one by one: what it has after each *)

Done(s, at, does, snap, rs, obj, p, n, list) ==
    ScriptTypes' /\ Has(s, at, does, snap, rs, obj, p, n, list) /\ OthersWait(s)

LEMMA IdleOf ==
    ASSUME Typed, WorkOK, NEW s \in Script, pc[s] = "idle"
    PROVE  command[s] = "none" /\ own[s] = <<>> /\ photo[s] = Missing /\ todo[s] = <<>> /\ self[s] = Nobody
<1>1. command[s] \in Command /\ ScriptOK(s)
  BY DEF Typed, WorkOK
<1>2. command[s] = "none"
  BY <1>1 DEF ScriptOK, PlaceOK, Command, Adding, Removing, Renaming
<1>3. QED
  BY <1>1, <1>2 DEF ScriptOK, HandOK, Photographing

LEMMA BeginDoes ==
    ASSUME Typed, WorkOK, NEW s \in Script, NEW name \in Command, NEW where \in Place, NEW object \in ObjectSet,
           NEW list \in Seq(ObjectSet) \cup Seq(MoveSet), NEW n \in 0..MaxPhotos,
           Begin(s, name, where, object, list), num' = [num EXCEPT ![s] = n]
    PROVE  /\ Done(s, where, name, rows, <<>>, object, Missing, n, list)
           /\ UNCHANGED <<rows, big, preview>> /\ runs' \in 0..MaxRuns
<1>1. pc[s] = "idle" /\ own[s] = <<>> /\ photo[s] = Missing
  BY IdleOf DEF Begin
<1>2. Sets(s, where, name, rows, <<>>, object, Missing, n, list)
  BY <1>1, Unset DEF Begin, Sets
<1>3. rows \in [Id -> Entry] /\ Missing \in Photo \cup {Missing} /\ <<>> \in OwnSet
  BY EmptyOwn DEF Typed
<1>4. Done(s, where, name, rows, <<>>, object, Missing, n, list)
  BY <1>2, <1>3, SetsHas DEF Done
<1>5. runs' \in 0..MaxRuns
  BY Numbers DEF Begin, Typed
<1>6. QED
  BY <1>4, <1>5 DEF Begin, files

LEMMA EmptyList == <<>> \in Seq(ObjectSet) \cup Seq(MoveSet)
<1>1. <<>> \in Seq(ObjectSet)
  BY EmptySeq
<1>2. QED
  BY <1>1

LEMMA BeginImportDoes ==
    ASSUME Typed, WorkOK, RowsOK, NEW s \in Script, BeginImport(s)
    PROVE  \E i \in Item :
             /\ Done(s, "insert", "import", rows, <<>>, [id |-> 0, item |-> i, photos |-> 0], Missing, num[s], <<>>)
             /\ Meets(s, {i}) /\ removed' = removed /\ UNCHANGED <<rows, big, preview>> /\ runs' \in 0..MaxRuns
<1>1. PICK i \in Item : Begin(s, "import", "insert", [Nobody EXCEPT !.item = i], <<>>) /\ Meets(s, {i})
  BY DEF BeginImport
<1>2. num' = [num EXCEPT ![s] = num[s]] /\ removed' = removed /\ num[s] \in 0..MaxPhotos
  BY Unset DEF BeginImport, Typed
<1>3. [id |-> 0, item |-> i, photos |-> 0] \in ObjectSet
  BY Numbers DEF ObjectSet
<1>4. "import" \in Command /\ "insert" \in Place
  BY DEF Command, Place
<1>5. Begin(s, "import", "insert", [id |-> 0, item |-> i, photos |-> 0], <<>>)
  BY <1>1, NobodyWith
<1>6. QED
  BY <1>1, <1>2, <1>3, <1>4, <1>5, EmptyList, BeginDoes

LEMMA BeginPhotoAddDoes ==
    ASSUME Typed, WorkOK, RowsOK, NEW s \in Script, BeginPhotoAdd(s)
    PROVE  \E id \in Ids(rows) :
             /\ rows[id].photos < MaxPhotos
             /\ Done(s, "big", "photo add", rows, <<>>, Object(rows, id), Missing, num[s], <<>>)
             /\ Meets(s, {rows[id].item}) /\ removed' = removed /\ UNCHANGED <<rows, big, preview>> /\ runs' \in 0..MaxRuns
<1>1. PICK id \in Ids(rows) : /\ rows[id].photos < MaxPhotos /\ Begin(s, "photo add", "big", Object(rows, id), <<>>)
                              /\ Meets(s, {rows[id].item})
  BY DEF BeginPhotoAdd
<1>2. num' = [num EXCEPT ![s] = num[s]] /\ removed' = removed /\ num[s] \in 0..MaxPhotos
  BY Unset DEF BeginPhotoAdd, Typed
<1>3. Object(rows, id) \in ObjectSet
  BY RowOf
<1>4. "photo add" \in Command /\ "big" \in Place
  BY DEF Command, Place
<1>5. QED
  BY <1>1, <1>2, <1>3, <1>4, EmptyList, BeginDoes

LEMMA BeginPhotoRemoveDoes ==
    ASSUME Typed, WorkOK, RowsOK, NEW s \in Script, BeginPhotoRemove(s)
    PROVE  \E id \in Ids(rows) : \E n \in 0..(rows[id].photos - 1) :
             /\ n \in 0..MaxPhotos /\ n < rows[id].photos
             /\ Done(s, "unlinkBig", "photo remove", rows, <<>>, Object(rows, id), Missing, n, <<>>)
             /\ Meets(s, {rows[id].item}) /\ removed' = removed \cup {rows[id].item}
             /\ UNCHANGED <<rows, big, preview>> /\ runs' \in 0..MaxRuns
<1>1. PICK id \in Ids(rows) : \E n \in 0..(rows[id].photos - 1) :
                              /\ Begin(s, "photo remove", "unlinkBig", Object(rows, id), <<>>)
                              /\ num' = [num EXCEPT ![s] = n]
                              /\ Meets(s, {rows[id].item}) /\ removed' = removed \cup {rows[id].item}
  BY DEF BeginPhotoRemove
<1>2. PICK n \in 0..(rows[id].photos - 1) :
                              /\ Begin(s, "photo remove", "unlinkBig", Object(rows, id), <<>>)
                              /\ num' = [num EXCEPT ![s] = n]
                              /\ Meets(s, {rows[id].item}) /\ removed' = removed \cup {rows[id].item}
  BY <1>1
<1>3. Object(rows, id) \in ObjectSet /\ rows[id].photos \in 0..MaxPhotos
  BY RowOf
<1>4. "photo remove" \in Command /\ "unlinkBig" \in Place
  BY DEF Command, Place
<1>5. n \in 0..MaxPhotos /\ n < rows[id].photos
  BY <1>3, Numbers
<1>6. QED
  BY <1>2, <1>3, <1>4, <1>5, EmptyList, BeginDoes

LEMMA BeginEditDoes ==
    ASSUME Typed, WorkOK, RowsOK, NEW s \in Script, BeginEdit(s)
    PROVE  \E list \in Seq(ListedSet) :
             /\ list # <<>> /\ \A k \in 1..Len(list) : list[k].id \in Ids(rows) /\ list[k] = Object(rows, list[k].id)
             /\ Done(s, "edit", "edit", rows, <<>>, Nobody, Missing, num[s], list)
             /\ Meets(s, {list[k].item : k \in 1..Len(list)}) /\ removed' = removed
             /\ UNCHANGED <<rows, big, preview>> /\ runs' \in 0..MaxRuns
<1>1. PICK ids \in SeqOf(Ids(rows), 2) :
        /\ ids # <<>>
        /\ Begin(s, "edit", "edit", Nobody, [i \in DOMAIN ids |-> Object(rows, ids[i])])
        /\ Meets(s, {rows[ids[i]].item : i \in DOMAIN ids})
  BY DEF BeginEdit
<1>2. PICK m \in 0..2 : ids \in [1..m -> Ids(rows)]
  BY DEF SeqOf
<1> DEFINE list == [i \in 1..m |-> Object(rows, ids[i])]
<1>3. \A i \in 1..m : ids[i] \in Ids(rows) /\ Object(rows, ids[i]) \in ListedSet /\ Object(rows, ids[i]).id = ids[i] /\ Object(rows, ids[i]).item = rows[ids[i]].item
  BY <1>2, RowOf DEF Object
<1>4. list \in [1..m -> ListedSet]
  BY <1>3
<1>5. list \in Seq(ListedSet) /\ m \in Nat
  BY <1>4, SeqDef
<1>6. Len(list) = m
  BY <1>4, <1>5, LenProperties
<1>7. m # 0
  <2>1. ASSUME m = 0 PROVE FALSE
    <3>1. DOMAIN ids = {}
      BY <1>2, <2>1
    <3>2. ids = <<>>
      BY <1>2, <2>1
    <3>3. QED
      BY <1>1, <3>2
  <2>2. QED
    BY <2>1
<1>8. [i \in DOMAIN ids |-> Object(rows, ids[i])] = list /\ {rows[ids[i]].item : i \in DOMAIN ids} = {list[k].item : k \in 1..m}
  <2>1. DOMAIN ids = 1..m
    BY <1>2
  <2>2. \A k \in 1..m : list[k].item = rows[ids[k]].item
    BY <1>3
  <2>3. QED
    BY <2>1, <2>2
<1>9. list \in Seq(ObjectSet) \cup Seq(MoveSet)
  <2>1. ListedSet \subseteq ObjectSet
    BY Numbers DEF ListedSet, ObjectSet
  <2>2. list \in Seq(ObjectSet)
    BY <1>5, <2>1, SeqMonotonic
  <2>3. QED
    BY <2>2
<1>10. \A k \in 1..m : list[k].id \in Ids(rows) /\ list[k] = Object(rows, list[k].id)
  BY <1>3
<1> HIDE DEF list
<1>11. list # <<>>
  BY <1>5, <1>6, <1>7, EmptySeq
<1>12. num' = [num EXCEPT ![s] = num[s]] /\ removed' = removed /\ num[s] \in 0..MaxPhotos
  BY Unset DEF BeginEdit, Typed
<1>13. "edit" \in Command /\ "edit" \in Place
  BY DEF Command, Place
<1>14. /\ Done(s, "edit", "edit", rows, <<>>, Nobody, Missing, num[s], list)
       /\ UNCHANGED <<rows, big, preview>> /\ runs' \in 0..MaxRuns
  BY <1>1, <1>8, <1>9, <1>12, <1>13, NobodyTyped, BeginDoes
<1>15. QED
  BY <1>1, <1>5, <1>6, <1>8, <1>10, <1>11, <1>12, <1>14

LEMMA BeginMoveDoes ==
    ASSUME Typed, WorkOK, RowsOK, NEW s \in Script, BeginMove(s)
    PROVE  \E list \in Seq(MoveSet) :
             /\ list # <<>> /\ \A k \in 1..Len(list) : Harmless(list[k]) \/ \E j \in 1..(k - 1) : Stuck(list[j])
             /\ Done(s, "move", "move", rows, <<>>, Nobody, Missing, num[s], list)
             /\ UNCHANGED <<rows, big, preview, spoiled, removed>> /\ runs' \in 0..MaxRuns
<1>1. PICK from \in Ids(rows), to \in Id :
        from # to /\ Begin(s, "move", "move", Nobody, Moves(from, to, next_id(rows)))
  BY DEF BeginMove
<1>2. PICK list : list = Moves(from, to, next_id(rows))
  OBVIOUS
<1>3. /\ list \in Seq(MoveSet) /\ list # <<>>
      /\ \A k \in 1..Len(list) : Harmless(list[k]) \/ \E j \in 1..(k - 1) : Stuck(list[j])
  BY <1>1, <1>2, MovesHarmless
<1>4. num' = [num EXCEPT ![s] = num[s]] /\ num[s] \in 0..MaxPhotos /\ UNCHANGED <<spoiled, removed>>
  BY Unset DEF BeginMove, Typed, histories
<1>5. "move" \in Command /\ "move" \in Place
  BY DEF Command, Place
<1>6. list \in Seq(ObjectSet) \cup Seq(MoveSet) /\ Begin(s, "move", "move", Nobody, list)
  BY <1>1, <1>2, <1>3
<1>7. /\ Done(s, "move", "move", rows, <<>>, Nobody, Missing, num[s], list)
      /\ UNCHANGED <<rows, big, preview>> /\ runs' \in 0..MaxRuns
  BY <1>4, <1>5, <1>6, NobodyTyped, BeginDoes
<1>8. QED
  BY <1>3, <1>4, <1>7

LEMMA CommandOf ==
    ASSUME Typed, WorkOK, NEW s \in Script
    PROVE  /\ pc[s] \in {"insert", "line"} => command[s] = "import"
           /\ pc[s] \in Adding => command[s] \in {"import", "photo add"}
           /\ pc[s] \in Removing => command[s] = "photo remove"
           /\ pc[s] = "save" => command[s] \in Photographing
           /\ pc[s] = "edit" => command[s] = "edit"
           /\ pc[s] = "move" => command[s] = "move"
           /\ pc[s] = "commit" => command[s] # "none"
           /\ command[s] = "none" => pc[s] = "idle"
           /\ HandOK(s)
<1>1. command[s] \in Command /\ ScriptOK(s)
  BY DEF Typed, WorkOK
<1>2. QED
  BY <1>1 DEF ScriptOK, PlaceOK, Command, Adding, Removing, Renaming, Photographing

LEMMA HandOf ==
    ASSUME Typed, NEW s \in Script
    PROVE  /\ pc[s] \in Place /\ command[s] \in Command /\ snapshot[s] \in [Id -> Entry] /\ own[s] \in OwnSet
           /\ self[s] \in ObjectSet /\ photo[s] \in Photo \cup {Missing} /\ num[s] \in 0..MaxPhotos
           /\ todo[s] \in Seq(ObjectSet) \cup Seq(MoveSet)
           /\ self[s].id \in 0..MaxRows /\ self[s].item \in Item \cup {"none"} /\ self[s].photos \in 0..MaxPhotos
           /\ self[s] = [id |-> self[s].id, item |-> self[s].item, photos |-> self[s].photos]
<1>1. self[s] \in ObjectSet
  BY DEF Typed
<1>2. QED
  BY <1>1 DEF Typed, ObjectSet

LEMMA InsertDoes ==
    ASSUME Typed, WorkOK, NEW s \in Script, Insert(s)
    PROVE  \E id \in Id :
             /\ pc[s] = "insert" /\ command[s] = "import" /\ id = next_id(Read(s)) /\ id <= MaxRows
             /\ Free(s, id) /\ Now(s)[id] = NoRow /\ Fields(self[s]) \in Row
             /\ Done(s, "line", "import", snapshot[s], Put(own[s], id, Fields(self[s])),
                     [id |-> id, item |-> self[s].item, photos |-> self[s].photos], photo[s], num[s], todo[s])
             /\ UNCHANGED <<rows, big, preview, runs, spoiled, removed>>
<1> DEFINE id == next_id(Read(s))
<1>1. /\ pc[s] = "insert" /\ id <= MaxRows /\ Free(s, id) /\ Now(s)[id] = NoRow
      /\ own' = [own EXCEPT ![s] = Put(@, id, Fields(self[s]))] /\ self' = [self EXCEPT ![s].id = id]
      /\ pc' = [pc EXCEPT ![s] = "line"]
      /\ UNCHANGED <<runs, rows, files, command, snapshot, photo, num, todo, histories>>
  BY DEF Insert
<1>2. id \in Nat \ {0}
  BY NowOf, NextIdOf
<1> HIDE DEF id
<1>3. id \in Id /\ id \in 0..MaxRows
  BY <1>1, <1>2, Numbers DEF Id
<1>4. command[s] = "import" /\ self[s].item \in Item
  BY <1>1, CommandOf DEF HandOK, Photographing
<1>5. Fields(self[s]) \in Row /\ Fields(self[s]) \in Entry
  BY <1>4, HandOf, FieldsOf
<1>6. Put(own[s], id, Fields(self[s])) \in OwnSet
  BY <1>3, <1>5, HandOf, PutOf
<1>7. [id |-> id, item |-> self[s].item, photos |-> self[s].photos] \in ObjectSet
  BY <1>3, HandOf DEF ObjectSet
<1>8. Sets(s, "line", command[s], snapshot[s], Put(own[s], id, Fields(self[s])),
           [id |-> id, item |-> self[s].item, photos |-> self[s].photos], photo[s], num[s], todo[s])
  <2>1. own' = [own EXCEPT ![s] = Put(own[s], id, Fields(self[s]))]
    BY <1>1 DEF Typed
  <2>2. self' = [self EXCEPT ![s] = [id |-> id, item |-> self[s].item, photos |-> self[s].photos]]
    BY <1>1, SelfWith
  <2>3. QED
    BY <1>1, <2>1, <2>2, Unset DEF Sets
<1>9. "line" \in Place
  BY DEF Place
<1>10. Done(s, "line", command[s], snapshot[s], Put(own[s], id, Fields(self[s])),
            [id |-> id, item |-> self[s].item, photos |-> self[s].photos], photo[s], num[s], todo[s])
  BY <1>6, <1>7, <1>8, <1>9, HandOf, SetsHas DEF Done
<1>11. QED
  BY <1>1, <1>3, <1>4, <1>5, <1>10 DEF files, histories, id

\* A script that goes on to another place, and nothing else.
LEMMA GoesOn ==
    ASSUME Typed, NEW s \in Script, NEW at \in Place, pc' = [pc EXCEPT ![s] = at], UNCHANGED scriptVars
    PROVE  Done(s, at, command[s], snapshot[s], own[s], self[s], photo[s], num[s], todo[s])
<1>1. Sets(s, at, command[s], snapshot[s], own[s], self[s], photo[s], num[s], todo[s])
  BY Unset DEF Sets, scriptVars
<1>2. QED
  BY <1>1, HandOf, SetsHas DEF Done

LEMMA NextPhotoDoes ==
    ASSUME Typed, WorkOK, NEW s \in Script, NextPhoto(s)
    PROVE  /\ pc[s] = "line" /\ command[s] = "import" /\ self[s].photos < MaxPhotos
           /\ Done(s, "big", "import", snapshot[s], own[s], self[s], photo[s], num[s], todo[s])
           /\ UNCHANGED <<rows, big, preview, runs, spoiled, removed>>
<1>1. pc[s] = "line" /\ command[s] = "import" /\ "big" \in Place
  BY CommandOf DEF NextPhoto, Place
<1>2. QED
  BY <1>1, GoesOn DEF NextPhoto, files, histories

LEMMA LastLineDoes ==
    ASSUME Typed, WorkOK, NEW s \in Script, LastLine(s)
    PROVE  /\ pc[s] = "line" /\ command[s] = "import"
           /\ Done(s, "commit", "import", snapshot[s], own[s], self[s], photo[s], num[s], todo[s])
           /\ UNCHANGED <<rows, big, preview, runs, spoiled, removed>>
<1>1. pc[s] = "line" /\ command[s] = "import" /\ "commit" \in Place
  BY CommandOf DEF LastLine, Place
<1>2. QED
  BY <1>1, GoesOn DEF LastLine, files, histories

LEMMA NextLineDoes ==
    ASSUME Typed, WorkOK, NEW s \in Script, NextLine(s)
    PROVE  \E i \in Item :
             /\ pc[s] = "line" /\ command[s] = "import"
             /\ Done(s, "insert", "import", snapshot[s], own[s], [id |-> 0, item |-> i, photos |-> 0], photo[s], num[s], todo[s])
             /\ Meets(s, {i}) /\ UNCHANGED <<rows, big, preview, runs, removed>>
<1>1. PICK i \in Item : self' = [self EXCEPT ![s] = [Nobody EXCEPT !.item = i]] /\ Meets(s, {i})
  BY DEF NextLine
<1>2. pc[s] = "line" /\ command[s] = "import" /\ "insert" \in Place
  BY CommandOf DEF NextLine, Place
<1>3. [id |-> 0, item |-> i, photos |-> 0] \in ObjectSet
  BY Numbers DEF ObjectSet
<1>4. Sets(s, "insert", command[s], snapshot[s], own[s], [id |-> 0, item |-> i, photos |-> 0], photo[s], num[s], todo[s])
  BY <1>1, NobodyWith, Unset DEF NextLine, Sets
<1>5. Done(s, "insert", command[s], snapshot[s], own[s], [id |-> 0, item |-> i, photos |-> 0], photo[s], num[s], todo[s])
  BY <1>2, <1>3, <1>4, HandOf, SetsHas DEF Done
<1>6. QED
  BY <1>1, <1>2, <1>5 DEF NextLine, files

\* What a script saves by its id is there: its own row, or one it read.
LEMMA NowHas ==
    ASSUME Typed, NEW s \in Script, NEW id \in Id,
           \/ id \in DOMAIN own[s] /\ own[s][id] # NoRow
           \/ id \notin DOMAIN own[s] /\ id \in Ids(rows)
    PROVE  Now(s)[id] # NoRow
BY NowOf DEF Ids

LEMMA SaveDoes ==
    ASSUME Typed, WorkOK, GrowOK, NEW s \in Script, Save(s)
    PROVE  /\ pc[s] = "save" /\ command[s] \in Photographing /\ self[s].id \in Id /\ Free(s, self[s].id)
           /\ Fields(self[s]) \in Row
           /\ Done(s, IF command[s] = "import" THEN "line" ELSE "commit", command[s], snapshot[s],
                   Put(own[s], self[s].id, Fields(self[s])), self[s], photo[s], num[s], todo[s])
           /\ UNCHANGED <<rows, big, preview, runs, spoiled, removed>>
<1>1. pc[s] = "save" /\ command[s] \in Photographing /\ self[s].item \in Item
  BY CommandOf DEF Save, HandOK
<1>2. Now(s)[self[s].id] # NoRow /\ self[s].id \in Id
  <2>1. ImportOK(s) /\ ChangeOK(s) /\ SelfOK(s) /\ own[s] \in OwnSet
    BY HandOf DEF GrowOK, OwnOK
  <2>2. CASE command[s] = "import"
    <3>1. self[s].id \in DOMAIN own[s] /\ own[s][self[s].id] # NoRow
      BY <1>1, <2>1, <2>2 DEF ImportOK
    <3>2. self[s].id \in Id
      BY <2>1, <3>1, OwnOf
    <3>3. QED
      BY <3>1, <3>2, NowHas
  <2>3. CASE command[s] # "import"
    <3>1. /\ self[s].id \in Ids(rows) /\ self[s].id \in Id
          /\ self[s].id \in DOMAIN own[s] => own[s][self[s].id] # NoRow
      BY <1>1, <2>1, <2>3 DEF ChangeOK, SelfOK, Same, Photographing, Ids
    <3>2. QED
      BY <3>1, NowHas
  <2>4. QED
    BY <2>2, <2>3
<1>3. Free(s, self[s].id) /\ own' = [own EXCEPT ![s] = Put(own[s], self[s].id, Fields(self[s]))]
  BY <1>2 DEF Save, UpdateRow
<1>4. Fields(self[s]) \in Row /\ Fields(self[s]) \in Entry
  BY <1>1, HandOf, FieldsOf
<1>5. Put(own[s], self[s].id, Fields(self[s])) \in OwnSet
  BY <1>2, <1>4, HandOf, PutOf
<1> DEFINE at == IF command[s] = "import" THEN "line" ELSE "commit"
<1>6. at \in Place /\ pc' = [pc EXCEPT ![s] = at]
  BY DEF Place, Save
<1> HIDE DEF at
<1>7. Sets(s, at, command[s], snapshot[s], Put(own[s], self[s].id, Fields(self[s])), self[s], photo[s], num[s], todo[s])
  BY <1>3, <1>6, Unset DEF Save, Sets
<1>8. Done(s, at, command[s], snapshot[s], Put(own[s], self[s].id, Fields(self[s])), self[s], photo[s], num[s], todo[s])
  BY <1>5, <1>6, <1>7, HandOf, SetsHas DEF Done
<1>9. UNCHANGED <<rows, big, preview, runs, spoiled, removed>>
  BY DEF Save, files, histories
<1>10. QED
  BY <1>1, <1>2, <1>3, <1>4, <1>8, <1>9 DEF at

LEMMA TodoOf ==
    ASSUME Typed, NEW s \in Script, NEW S, todo[s] \in Seq(S), todo[s] # <<>>, S \subseteq ObjectSet \/ S \subseteq MoveSet
    PROVE  /\ Len(todo[s]) \in Nat \ {0} /\ Head(todo[s]) = todo[s][1] /\ todo[s][1] \in S
           /\ Tail(todo[s]) \in Seq(S) /\ Len(Tail(todo[s])) = Len(todo[s]) - 1
           /\ \A i \in 1..(Len(todo[s]) - 1) : Tail(todo[s])[i] = todo[s][i + 1]
           /\ Len(todo[s]) # 1 => Tail(todo[s]) # <<>>
           /\ Tail(todo[s]) \in Seq(ObjectSet) \cup Seq(MoveSet)
           /\ \A i \in 1..Len(todo[s]) : todo[s][i] \in S
<1>1. /\ Tail(todo[s]) \in Seq(S) /\ Len(Tail(todo[s])) = Len(todo[s]) - 1
      /\ \A i \in 1..Len(Tail(todo[s])) : Tail(todo[s])[i] = todo[s][i + 1]
  BY HeadTailProperties
<1>2. Len(todo[s]) \in Nat /\ Len(todo[s]) # 0
  BY LenProperties, EmptySeq
<1>3. Head(todo[s]) = todo[s][1] /\ \A i \in 1..Len(todo[s]) : todo[s][i] \in S
  BY ElementOfSeq
<1>4. Tail(todo[s]) \in Seq(ObjectSet) \cup Seq(MoveSet)
  <2>1. CASE S \subseteq ObjectSet
    BY <1>1, <2>1, SeqMonotonic
  <2>2. CASE S \subseteq MoveSet
    BY <1>1, <2>2, SeqMonotonic
  <2>3. QED
    BY <2>1, <2>2
<1>5. Len(todo[s]) # 1 => Tail(todo[s]) # <<>>
  <2>1. ASSUME Len(todo[s]) # 1, Tail(todo[s]) = <<>> PROVE FALSE
    <3>1. Len(Tail(todo[s])) = 0
      BY <1>1, <2>1, EmptySeq
    <3>2. QED
      BY <1>1, <1>2, <2>1, <3>1
  <2>2. QED
    BY <2>1
<1>6. 1 \in 1..Len(todo[s])
  BY <1>2
<1>7. QED
  BY <1>1, <1>2, <1>3, <1>4, <1>5, <1>6

LEMMA EditDoes ==
    ASSUME Typed, WorkOK, GrowOK, NEW s \in Script, Edit(s)
    PROVE  /\ pc[s] = "edit" /\ command[s] = "edit" /\ todo[s] \in Seq(ListedSet) /\ todo[s] # <<>>
           /\ todo[s][1] \in ListedSet /\ todo[s][1].id \in Id /\ Free(s, todo[s][1].id)
           /\ Done(s, IF Len(todo[s]) = 1 THEN "commit" ELSE "edit", "edit", snapshot[s],
                   Put(own[s], todo[s][1].id, Fields(todo[s][1])), self[s], photo[s], num[s], Tail(todo[s]))
           /\ UNCHANGED <<rows, big, preview, runs, spoiled, removed>>
<1>1. pc[s] = "edit" /\ command[s] = "edit" /\ todo[s] \in Seq(ListedSet) /\ todo[s] # <<>>
  BY CommandOf DEF Edit, HandOK
<1>2. ListedSet \subseteq ObjectSet
  BY Numbers DEF ListedSet, ObjectSet
<1>3. /\ Len(todo[s]) \in Nat \ {0} /\ Head(todo[s]) = todo[s][1] /\ todo[s][1] \in ListedSet
      /\ Tail(todo[s]) \in Seq(ObjectSet) \cup Seq(MoveSet) /\ 1 \in 1..Len(todo[s])
  BY <1>1, <1>2, TodoOf
<1>4. Now(s)[todo[s][1].id] # NoRow /\ todo[s][1].id \in Id
  <2>1. /\ todo[s][1].id \in Ids(rows) /\ todo[s][1].id \in Id
        /\ todo[s][1].id \in DOMAIN own[s] => own[s][todo[s][1].id] # NoRow
    BY <1>1, <1>3 DEF GrowOK, OwnOK, EditOK, ChangeOK, Same, Ids
  <2>2. QED
    BY <2>1, NowHas
<1>5. Free(s, todo[s][1].id) /\ own' = [own EXCEPT ![s] = Put(own[s], todo[s][1].id, Fields(todo[s][1]))]
  BY <1>3, <1>4 DEF Edit, UpdateRow
<1>6. Fields(todo[s][1]) \in Entry
  BY <1>3 DEF Fields, ListedSet, Entry, Row
<1>7. Put(own[s], todo[s][1].id, Fields(todo[s][1])) \in OwnSet
  BY <1>4, <1>6, HandOf, PutOf
<1> DEFINE at == IF Len(todo[s]) = 1 THEN "commit" ELSE "edit"
<1>8. at \in Place /\ pc' = [pc EXCEPT ![s] = at]
  BY DEF Place, Edit
<1> HIDE DEF at
<1>9. Sets(s, at, command[s], snapshot[s], Put(own[s], todo[s][1].id, Fields(todo[s][1])), self[s], photo[s], num[s], Tail(todo[s]))
  <2>1. todo' = [todo EXCEPT ![s] = Tail(todo[s])]
    BY DEF Edit, Typed
  <2>2. QED
    BY <1>5, <1>8, <2>1, Unset DEF Edit, Sets
<1>10. Done(s, at, command[s], snapshot[s], Put(own[s], todo[s][1].id, Fields(todo[s][1])), self[s], photo[s], num[s], Tail(todo[s]))
  BY <1>3, <1>7, <1>8, <1>9, HandOf, SetsHas DEF Done
<1>11. UNCHANGED <<rows, big, preview, runs, spoiled, removed>>
  BY DEF Edit, files, histories
<1>12. QED
  BY <1>1, <1>3, <1>4, <1>5, <1>10, <1>11 DEF at

\* A move changes no row, as its first UPDATE that finds one cannot be done.
LEMMA MoveDoes ==
    ASSUME Typed, WorkOK, GrowOK, NEW s \in Script, Move(s)
    PROVE  /\ pc[s] = "move" /\ command[s] = "move" /\ todo[s] \in Seq(MoveSet) /\ todo[s] # <<>>
           /\ ~Stuck(todo[s][1])
           /\ Done(s, IF Len(todo[s]) = 1 THEN "commit" ELSE "move", "move", snapshot[s],
                   own[s], self[s], photo[s], num[s], Tail(todo[s]))
           /\ UNCHANGED <<rows, big, preview, runs, spoiled, removed>>
<1>1. pc[s] = "move" /\ command[s] = "move" /\ todo[s] \in Seq(MoveSet) /\ todo[s] # <<>>
  BY CommandOf DEF Move, HandOK
<1>2. /\ Len(todo[s]) \in Nat \ {0} /\ Head(todo[s]) = todo[s][1] /\ todo[s][1] \in MoveSet
      /\ Tail(todo[s]) \in Seq(ObjectSet) \cup Seq(MoveSet) /\ 1 \in 1..Len(todo[s])
  BY <1>1, TodoOf
<1>3. /\ own[s] = <<>>
      /\ Harmless(todo[s][1])
  BY <1>1, <1>2 DEF GrowOK, OwnOK, MoveOK
<1>4. todo[s][1].to \in Id /\ todo[s][1].from \in Id
  BY <1>2 DEF MoveSet
<1>5. \A id \in Id : Now(s)[id] = rows[id] /\ (rows[id] = NoRow <=> id \notin Ids(rows))
  BY <1>3, NowOf, EmptyOwn DEF Ids
<1>6. todo[s][1].from \notin Ids(rows)
  <2>1. ASSUME todo[s][1].from \in Ids(rows) PROVE FALSE
    <3>1. todo[s][1].to \in Ids(rows)
      <4>1. CASE todo[s][1].to <= todo[s][1].from
        <5>1. todo[s][1].to \in 1..todo[s][1].from
          BY <1>4, <4>1, Numbers DEF Id
        <5>2. QED
          BY <2>1, <5>1 DEF GrowOK, RowsOK, Numbered
      <4>2. QED
        BY <1>3, <4>1 DEF Harmless
    <3>2. Now(s)[todo[s][1].from] # NoRow /\ Now(s)[todo[s][1].to] # NoRow
      BY <1>4, <1>5, <2>1, <3>1
    <3>3. Now(s)[todo[s][1].to] = NoRow
      BY <1>2, <3>2 DEF Move
    <3>4. QED
      BY <3>2, <3>3
  <2>2. QED
    BY <2>1
<1>7. own' = own
  <2>1. Now(s)[todo[s][1].from] = NoRow
    BY <1>4, <1>5, <1>6
  <2>2. QED
    BY <1>2, <2>1 DEF Move
<1> DEFINE at == IF Len(todo[s]) = 1 THEN "commit" ELSE "move"
<1>8. at \in Place /\ pc' = [pc EXCEPT ![s] = at]
  BY DEF Place, Move
<1> HIDE DEF at
<1>9. Sets(s, at, command[s], snapshot[s], own[s], self[s], photo[s], num[s], Tail(todo[s]))
  <2>1. todo' = [todo EXCEPT ![s] = Tail(todo[s])]
    BY DEF Move, Typed
  <2>2. QED
    BY <1>7, <1>8, <2>1, Unset DEF Move, Sets
<1>10. Done(s, at, command[s], snapshot[s], own[s], self[s], photo[s], num[s], Tail(todo[s]))
  BY <1>2, <1>8, <1>9, HandOf, SetsHas DEF Done
<1>11. UNCHANGED <<rows, big, preview, runs, spoiled, removed>>
  BY DEF Move, files, histories
<1>12. ~Stuck(todo[s][1])
  BY <1>6 DEF Stuck
<1>13. QED
  BY <1>1, <1>10, <1>11, <1>12 DEF at

LEMMA EndsDoes ==
    ASSUME Typed, NEW s \in Script, Ends(s)
    PROVE  Done(s, "idle", "none", Nothing, <<>>, Nobody, Missing, 0, <<>>)
<1>1. Sets(s, "idle", "none", Nothing, <<>>, Nobody, Missing, 0, <<>>)
  BY DEF Ends, Sets
<1>2. "idle" \in Place /\ "none" \in Command /\ Nothing \in [Id -> Entry] /\ 0 \in 0..MaxPhotos /\ Missing \in Photo \cup {Missing}
  BY Numbers DEF Place, Command, Nothing
<1>3. QED
  BY <1>1, <1>2, EmptyOwn, NobodyTyped, EmptyList, SetsHas DEF Done

Dir == [Index -> Photo \cup {Missing}]
SetsDir(new, old, i, dir) == new \in Album /\ new[i] = dir /\ \A j \in Item : j # i => new[j] = old[j]

LEMMA DirSet ==
    ASSUME NEW old \in Album, NEW i \in Item, NEW dir \in Dir, NEW new, new = [old EXCEPT ![i] = dir]
    PROVE  SetsDir(new, old, i, dir)
BY DEF Album, Dir, SetsDir

LEMMA FileSet ==
    ASSUME NEW old \in Album, NEW i \in Item, NEW k \in Index, NEW p \in Photo \cup {Missing}
    PROVE  /\ [old EXCEPT ![i][k] = p] = [old EXCEPT ![i] = [old[i] EXCEPT ![k] = p]]
           /\ [old[i] EXCEPT ![k] = p] \in Dir /\ old[i] \in Dir
BY DEF Album, Dir

LEMMA RenamedDir ==
    ASSUME NEW dir \in Dir, NEW n \in Index, n + 1 \in Index
    PROVE  /\ Renamed(dir, n) \in Dir
           /\ dir[n + 1] = Missing => Renamed(dir, n) = dir
           /\ dir[n + 1] # Missing => /\ Renamed(dir, n)[n] = dir[n + 1] /\ Renamed(dir, n)[n + 1] = Missing
                                      /\ \A k \in Index : k # n /\ k # n + 1 => Renamed(dir, n)[k] = dir[k]
<1>1. n # n + 1
  BY Numbers DEF Index
<1>2. QED
  BY <1>1 DEF Renamed, Dir

LEMMA IndexOf ==
    ASSUME NEW n \in 0..MaxPhotos, NEW k \in 0..MaxPhotos
    PROVE  /\ MaxPhotos \in Nat /\ n \in Nat /\ k \in Nat
           /\ k < n => k \in Index /\ k + 1 \in 0..MaxPhotos /\ n - 1 \in 0..MaxPhotos
           /\ k < MaxPhotos => k \in Index /\ k + 1 \in 0..MaxPhotos
           /\ k + 1 < n => k + 1 \in Index /\ k < n
<1>1. MaxPhotos \in Nat
  BY Numbers
<1>2. QED
  BY <1>1 DEF Index

LEMMA ConvertBigDoes ==
    ASSUME Typed, WorkOK, NEW s \in Script, ConvertBig(s)
    PROVE  LET i == self[s].item
               n == self[s].photos
           IN  /\ pc[s] = "big" /\ command[s] \in {"import", "photo add"} /\ i \in Item /\ n \in Index /\ n < MaxPhotos
               /\ \E p \in Photo :
                    /\ p # Missing /\ \A k \in Index : p # big[i][k] /\ p # preview[i][k]
                    /\ Done(s, "preview", command[s], snapshot[s], own[s], self[s], p, num[s], todo[s])
                    /\ SetsDir(big', big, i, [big[i] EXCEPT ![n] = p])
               /\ UNCHANGED <<rows, preview, runs, spoiled, removed>>
<1> DEFINE i == self[s].item
           n == self[s].photos
<1>1. pc[s] = "big" /\ command[s] \in {"import", "photo add"} /\ i \in Item /\ n < MaxPhotos
  <2>1. pc[s] = "big"
    BY DEF ConvertBig
  <2>2. QED
    BY <2>1, CommandOf DEF HandOK, Photographing, Adding
<1>2. n \in Index
  <2>1. n \in 0..MaxPhotos
    BY HandOf
  <2>2. QED
    BY <1>1, <2>1, IndexOf
<1>3. PICK p : p = New(i)
  OBVIOUS
<1>4. p \in Photo /\ p # Missing /\ \A k \in Index : p # big[i][k] /\ p # preview[i][k]
  BY <1>1, <1>3, NewOf
<1>5. photo' = [photo EXCEPT ![s] = p] /\ big' = [big EXCEPT ![i][n] = p]
  BY <1>3 DEF ConvertBig
<1>6. SetsDir(big', big, i, [big[i] EXCEPT ![n] = p])
  <2>1. big \in Album /\ p \in Photo \cup {Missing}
    BY <1>4 DEF Typed
  <2>2. big' = [big EXCEPT ![i] = [big[i] EXCEPT ![n] = p]] /\ [big[i] EXCEPT ![n] = p] \in Dir
    BY <1>1, <1>2, <1>5, <2>1, FileSet
  <2>3. QED
    BY <1>1, <2>1, <2>2, DirSet
<1> HIDE DEF i, n
<1>7. Sets(s, "preview", command[s], snapshot[s], own[s], self[s], p, num[s], todo[s])
  BY <1>5, Unset DEF ConvertBig, Sets
<1>8. "preview" \in Place /\ p \in Photo \cup {Missing}
  BY <1>4 DEF Place
<1>9. Done(s, "preview", command[s], snapshot[s], own[s], self[s], p, num[s], todo[s])
  BY <1>7, <1>8, HandOf, SetsHas DEF Done
<1>10. UNCHANGED <<rows, preview, runs, spoiled, removed>>
  BY DEF ConvertBig, histories
<1>11. QED
  BY <1>1, <1>2, <1>4, <1>6, <1>9, <1>10 DEF i, n

LEMMA ConvertPreviewDoes ==
    ASSUME Typed, WorkOK, NEW s \in Script, ConvertPreview(s)
    PROVE  LET i == self[s].item
               n == self[s].photos
           IN  /\ pc[s] = "preview" /\ command[s] \in {"import", "photo add"} /\ i \in Item /\ n \in Index /\ n < MaxPhotos
               /\ n + 1 \in 0..MaxPhotos /\ photo[s] \in Photo /\ photo[s] # Missing
               /\ Done(s, "save", command[s], snapshot[s], own[s], [id |-> self[s].id, item |-> i, photos |-> n + 1],
                       photo[s], num[s], todo[s])
               /\ SetsDir(preview', preview, i, [preview[i] EXCEPT ![n] = photo[s]])
               /\ UNCHANGED <<rows, big, runs, spoiled, removed>>
<1> DEFINE i == self[s].item
           n == self[s].photos
<1>1. pc[s] = "preview" /\ command[s] \in {"import", "photo add"} /\ i \in Item /\ n < MaxPhotos /\ photo[s] # Missing
  <2>1. pc[s] = "preview"
    BY DEF ConvertPreview
  <2>2. QED
    BY <2>1, CommandOf DEF HandOK, Photographing, Adding
<1>2. n \in Index /\ n + 1 \in 0..MaxPhotos
  <2>1. n \in 0..MaxPhotos
    BY HandOf
  <2>2. QED
    BY <1>1, <2>1, IndexOf
<1>3. photo[s] \in Photo /\ photo[s] \in Photo \cup {Missing}
  BY <1>1, HandOf
<1>4. SetsDir(preview', preview, i, [preview[i] EXCEPT ![n] = photo[s]])
  <2>1. preview \in Album
    BY DEF Typed
  <2>2. preview' = [preview EXCEPT ![i] = [preview[i] EXCEPT ![n] = photo[s]]] /\ [preview[i] EXCEPT ![n] = photo[s]] \in Dir
    BY <1>1, <1>2, <1>3, <2>1, FileSet DEF ConvertPreview
  <2>3. QED
    BY <1>1, <2>1, <2>2, DirSet
<1>5. [id |-> self[s].id, item |-> i, photos |-> n + 1] \in ObjectSet
  BY <1>2, HandOf DEF ObjectSet
<1>6. self' = [self EXCEPT ![s] = [id |-> self[s].id, item |-> i, photos |-> n + 1]]
  <2>1. self' = [self EXCEPT ![s].photos = self[s].photos + 1]
    BY DEF ConvertPreview, Typed
  <2>2. QED
    BY <2>1, SelfWith
<1> HIDE DEF i, n
<1>7. Sets(s, "save", command[s], snapshot[s], own[s], [id |-> self[s].id, item |-> i, photos |-> n + 1], photo[s], num[s], todo[s])
  BY <1>6, Unset DEF ConvertPreview, Sets
<1>8. "save" \in Place
  BY DEF Place
<1>9. Done(s, "save", command[s], snapshot[s], own[s], [id |-> self[s].id, item |-> i, photos |-> n + 1], photo[s], num[s], todo[s])
  BY <1>5, <1>7, <1>8, HandOf, SetsHas DEF Done
<1>10. UNCHANGED <<rows, big, runs, spoiled, removed>>
  BY DEF ConvertPreview, histories
<1>11. QED
  BY <1>1, <1>2, <1>3, <1>4, <1>9, <1>10 DEF i, n

LEMMA RemovingOf ==
    ASSUME Typed, WorkOK, NEW s \in Script, pc[s] \in Removing
    PROVE  /\ command[s] = "photo remove" /\ self[s].item \in Item /\ num[s] \in Index /\ num[s] \in Nat
           /\ num[s] < self[s].photos /\ self[s].photos - 1 \in 0..MaxPhotos /\ num[s] + 1 \in 0..MaxPhotos
           /\ num[s] + 1 < self[s].photos => num[s] + 1 \in Index
           /\ [id |-> self[s].id, item |-> self[s].item, photos |-> self[s].photos - 1] \in ObjectSet
           /\ [self EXCEPT ![s].photos = @ - 1] = [self EXCEPT ![s] = [id |-> self[s].id, item |-> self[s].item, photos |-> self[s].photos - 1]]
<1>1. command[s] = "photo remove" /\ self[s].item \in Item /\ num[s] < self[s].photos
  BY CommandOf DEF HandOK, Photographing
<1>2. num[s] \in 0..MaxPhotos /\ self[s].photos \in 0..MaxPhotos /\ self[s].id \in 0..MaxRows
  BY HandOf
<1>3. num[s] \in Index /\ num[s] \in Nat /\ self[s].photos - 1 \in 0..MaxPhotos /\ num[s] + 1 \in 0..MaxPhotos
  BY <1>1, <1>2, IndexOf
<1>4. num[s] + 1 < self[s].photos => num[s] + 1 \in Index
  BY <1>1, <1>2, IndexOf
<1>5. [id |-> self[s].id, item |-> self[s].item, photos |-> self[s].photos - 1] \in ObjectSet
  BY <1>1, <1>2, <1>3 DEF ObjectSet
<1>6. [self EXCEPT ![s].photos = @ - 1] = [self EXCEPT ![s].photos = self[s].photos - 1]
  BY DEF Typed
<1>7. QED
  BY <1>1, <1>3, <1>4, <1>5, <1>6, SelfWith

LEMMA UnlinkBigDoes ==
    ASSUME Typed, WorkOK, NEW s \in Script, UnlinkBig(s)
    PROVE  LET i == self[s].item
           IN  /\ pc[s] = "unlinkBig"
               /\ Done(s, "unlinkPreview", command[s], snapshot[s], own[s], self[s], photo[s], num[s], todo[s])
               /\ SetsDir(big', big, i, [big[i] EXCEPT ![num[s]] = Missing])
               /\ UNCHANGED <<rows, preview, runs, spoiled, removed>>
<1>1. pc[s] = "unlinkBig" /\ pc[s] \in Removing /\ "unlinkPreview" \in Place
  BY DEF UnlinkBig, Removing, Place
<1>2. self[s].item \in Item /\ num[s] \in Index
  BY <1>1, RemovingOf
<1>3. SetsDir(big', big, self[s].item, [big[self[s].item] EXCEPT ![num[s]] = Missing])
  <2>1. big \in Album
    BY DEF Typed
  <2>2. /\ big' = [big EXCEPT ![self[s].item] = [big[self[s].item] EXCEPT ![num[s]] = Missing]]
        /\ [big[self[s].item] EXCEPT ![num[s]] = Missing] \in Dir
    BY <1>2, <2>1, FileSet DEF UnlinkBig
  <2>3. QED
    BY <1>2, <2>1, <2>2, DirSet
<1>4. Done(s, "unlinkPreview", command[s], snapshot[s], own[s], self[s], photo[s], num[s], todo[s])
  BY <1>1, GoesOn DEF UnlinkBig
<1>5. QED
  BY <1>1, <1>3, <1>4 DEF UnlinkBig, histories

\* After a file was unlinked or renamed there are others to rename, or the
\* photos are one less.
Renumbers(s, n) ==
    IF n + 1 < self[s].photos
    THEN Done(s, "renameBig", command[s], snapshot[s], own[s], self[s], photo[s], n, todo[s])
    ELSE Done(s, "save", command[s], snapshot[s], own[s],
              [id |-> self[s].id, item |-> self[s].item, photos |-> self[s].photos - 1], photo[s], n, todo[s])

LEMMA RenumbersOf ==
    ASSUME Typed, WorkOK, NEW s \in Script, pc[s] \in Removing, NEW n \in 0..MaxPhotos, num' = [num EXCEPT ![s] = n],
           IF Renames(s, n)
           THEN pc' = [pc EXCEPT ![s] = "renameBig"] /\ UNCHANGED self
           ELSE pc' = [pc EXCEPT ![s] = "save"] /\ self' = [self EXCEPT ![s].photos = @ - 1],
           UNCHANGED <<command, snapshot, own, photo, todo>>
    PROVE  Renumbers(s, n)
<1>1. Renames(s, n) <=> n + 1 < self[s].photos
  <2>1. self[s].photos \in 0..MaxPhotos
    BY HandOf
  <2>2. n \in Nat /\ self[s].photos \in Nat
    BY <2>1, IndexOf
  <2>3. QED
    BY <2>2 DEF Renames
<1>2. /\ [id |-> self[s].id, item |-> self[s].item, photos |-> self[s].photos - 1] \in ObjectSet
      /\ [self EXCEPT ![s].photos = @ - 1] = [self EXCEPT ![s] = [id |-> self[s].id, item |-> self[s].item, photos |-> self[s].photos - 1]]
  BY RemovingOf
<1>3. CASE Renames(s, n)
  <2>1. Sets(s, "renameBig", command[s], snapshot[s], own[s], self[s], photo[s], n, todo[s])
    BY <1>3, Unset DEF Sets
  <2>2. "renameBig" \in Place
    BY DEF Place
  <2>3. Done(s, "renameBig", command[s], snapshot[s], own[s], self[s], photo[s], n, todo[s])
    BY <2>1, <2>2, HandOf, SetsHas DEF Done
  <2>4. QED
    BY <1>1, <1>3, <2>3 DEF Renumbers
<1>4. CASE ~Renames(s, n)
  <2> DEFINE less == [id |-> self[s].id, item |-> self[s].item, photos |-> self[s].photos - 1]
  <2>1. Sets(s, "save", command[s], snapshot[s], own[s], less, photo[s], n, todo[s])
    BY <1>2, <1>4, Unset DEF Sets
  <2>2. "save" \in Place /\ less \in ObjectSet
    BY <1>2 DEF Place
  <2> HIDE DEF less
  <2>3. Done(s, "save", command[s], snapshot[s], own[s], less, photo[s], n, todo[s])
    BY <2>1, <2>2, HandOf, SetsHas DEF Done
  <2>4. QED
    BY <1>1, <1>4, <2>3 DEF Renumbers, less
<1>5. QED
  BY <1>3, <1>4

LEMMA UnlinkPreviewDoes ==
    ASSUME Typed, WorkOK, NEW s \in Script, UnlinkPreview(s)
    PROVE  LET i == self[s].item
           IN  /\ pc[s] = "unlinkPreview" /\ Renumbers(s, num[s])
               /\ SetsDir(preview', preview, i, [preview[i] EXCEPT ![num[s]] = Missing])
               /\ UNCHANGED <<rows, big, runs, spoiled, removed>>
<1>1. pc[s] = "unlinkPreview" /\ pc[s] \in Removing
  BY DEF UnlinkPreview, Removing
<1>2. self[s].item \in Item /\ num[s] \in Index
  BY <1>1, RemovingOf
<1>3. SetsDir(preview', preview, self[s].item, [preview[self[s].item] EXCEPT ![num[s]] = Missing])
  <2>1. preview \in Album
    BY DEF Typed
  <2>2. /\ preview' = [preview EXCEPT ![self[s].item] = [preview[self[s].item] EXCEPT ![num[s]] = Missing]]
        /\ [preview[self[s].item] EXCEPT ![num[s]] = Missing] \in Dir
    BY <1>2, <2>1, FileSet DEF UnlinkPreview
  <2>3. QED
    BY <1>2, <2>1, <2>2, DirSet
<1>4. Renumbers(s, num[s])
  <2>1. num' = [num EXCEPT ![s] = num[s]] /\ num[s] \in 0..MaxPhotos
    BY HandOf, Unset DEF UnlinkPreview
  <2>2. QED
    BY <1>1, <2>1, RenumbersOf DEF UnlinkPreview
<1>5. QED
  BY <1>1, <1>3, <1>4 DEF UnlinkPreview, histories

LEMMA RenameBigDoes ==
    ASSUME Typed, WorkOK, NEW s \in Script, RenameBig(s)
    PROVE  LET i == self[s].item
           IN  /\ pc[s] = "renameBig"
               /\ Done(s, "renamePreview", command[s], snapshot[s], own[s], self[s], photo[s], num[s], todo[s])
               /\ SetsDir(big', big, i, Renamed(big[i], num[s]))
               /\ UNCHANGED <<rows, preview, runs, spoiled, removed>>
<1>1. pc[s] = "renameBig" /\ pc[s] \in Removing /\ pc[s] \in Renaming /\ "renamePreview" \in Place
  BY DEF RenameBig, Removing, Renaming, Place
<1>2. self[s].item \in Item /\ num[s] \in Index /\ num[s] + 1 \in Index
  BY <1>1, RemovingOf, CommandOf DEF HandOK
<1>3. SetsDir(big', big, self[s].item, Renamed(big[self[s].item], num[s]))
  <2>1. big \in Album /\ big[self[s].item] \in Dir
    BY <1>2 DEF Typed, Album, Dir
  <2>2. big' = [big EXCEPT ![self[s].item] = Renamed(big[self[s].item], num[s])] /\ Renamed(big[self[s].item], num[s]) \in Dir
    BY <1>2, <2>1, RenamedDir DEF RenameBig, Album
  <2>3. QED
    BY <1>2, <2>1, <2>2, DirSet
<1>4. Done(s, "renamePreview", command[s], snapshot[s], own[s], self[s], photo[s], num[s], todo[s])
  BY <1>1, GoesOn DEF RenameBig
<1>5. QED
  BY <1>1, <1>3, <1>4 DEF RenameBig, histories

LEMMA RenamePreviewDoes ==
    ASSUME Typed, WorkOK, NEW s \in Script, RenamePreview(s)
    PROVE  LET i == self[s].item
           IN  /\ pc[s] = "renamePreview" /\ Renumbers(s, num[s] + 1)
               /\ SetsDir(preview', preview, i, Renamed(preview[i], num[s]))
               /\ UNCHANGED <<rows, big, runs, spoiled, removed>>
<1>1. pc[s] = "renamePreview" /\ pc[s] \in Removing /\ pc[s] \in Renaming
  BY DEF RenamePreview, Removing, Renaming
<1>2. self[s].item \in Item /\ num[s] \in Index /\ num[s] + 1 \in Index /\ num[s] + 1 \in 0..MaxPhotos
  BY <1>1, RemovingOf, CommandOf DEF HandOK
<1>3. SetsDir(preview', preview, self[s].item, Renamed(preview[self[s].item], num[s]))
  <2>1. preview \in Album /\ preview[self[s].item] \in Dir
    BY <1>2 DEF Typed, Album, Dir
  <2>2. preview' = [preview EXCEPT ![self[s].item] = Renamed(preview[self[s].item], num[s])] /\ Renamed(preview[self[s].item], num[s]) \in Dir
    BY <1>2, <2>1, RenamedDir DEF RenamePreview, Album
  <2>3. QED
    BY <1>2, <2>1, <2>2, DirSet
<1>4. Renumbers(s, num[s] + 1)
  <2>1. num' = [num EXCEPT ![s] = num[s] + 1]
    BY DEF RenamePreview, Typed
  <2>2. QED
    BY <1>1, <1>2, <2>1, RenumbersOf DEF RenamePreview
<1>5. QED
  BY <1>1, <1>3, <1>4 DEF RenamePreview, histories

-----------------------------------------------------------------------------
(* A step keeps the types, and what scripts have in hand *)

LEMMA DoneKeeps ==
    ASSUME Typed, WorkOK, NEW s \in Script, ScriptTypes', OthersWait(s), ScriptOK(s)',
           rows' \in [Id -> Entry], big' \in Album, preview' \in Album, runs' \in 0..MaxRuns,
           spoiled' \subseteq Item, removed' \subseteq Item
    PROVE  Typed' /\ WorkOK'
<1>1. Typed'
  BY DEF ScriptTypes, Typed
<1>2. ASSUME NEW t \in Script PROVE ScriptOK(t)'
  <2>1. CASE t = s
    BY <2>1
  <2>2. CASE t # s
    <3>1. Waits(t) /\ ScriptOK(t)
      BY <2>2 DEF OthersWait, WorkOK
    <3>2. PlaceOK(t)'
      BY <3>1 DEF Waits, ScriptOK, PlaceOK
    <3>3. HandOK(t)'
      BY <3>1 DEF Waits, ScriptOK, HandOK
    <3>4. QED
      BY <3>2, <3>3 DEF ScriptOK
  <2>3. QED
    BY <2>1, <2>2
<1>3. QED
  BY <1>1, <1>2 DEF WorkOK

LEMMA HandFits ==
    ASSUME NEW s \in Script, NEW at, NEW does \in Photographing, NEW snap, NEW rs, NEW obj, NEW p, NEW n, NEW list,
           Done(s, at, does, snap, rs, obj, p, n, list), at \notin {"insert", "edit", "move"},
           obj.item \in Item, list = <<>>, at \in Adding => obj.photos < MaxPhotos,
           at = "preview" => p # Missing, at \in Removing => n < obj.photos, at \in Renaming => n + 1 < obj.photos
    PROVE  HandOK(s)'
<1>1. pc'[s] = at /\ command'[s] = does /\ self'[s] = obj /\ photo'[s] = p /\ num'[s] = n /\ todo'[s] = list
  BY DEF Done, Has
<1>2. does \notin {"none", "edit", "move"}
  BY DEF Photographing
<1>3. QED
  BY <1>1, <1>2 DEF HandOK

LEMMA MeetsTyped ==
    ASSUME Typed, NEW s \in Script, NEW items, items \subseteq Item, Meets(s, items)
    PROVE  spoiled' \subseteq Item /\ spoiled \subseteq spoiled'
BY DEF Typed, Meets

LEMMA BeginsTyped ==
    ASSUME Typed, WorkOK, GrowOK, NEW s \in Script, Begins(s)
    PROVE  Typed' /\ WorkOK'
<1>0. RowsOK /\ rows \in [Id -> Entry] /\ big \in Album /\ preview \in Album /\ removed \subseteq Item /\ spoiled \subseteq Item
  BY DEF GrowOK, Typed
<1>1. CASE BeginImport(s)
  <2>1. PICK i \in Item :
             /\ Done(s, "insert", "import", rows, <<>>, [id |-> 0, item |-> i, photos |-> 0], Missing, num[s], <<>>)
             /\ Meets(s, {i}) /\ removed' = removed /\ UNCHANGED <<rows, big, preview>> /\ runs' \in 0..MaxRuns
    BY <1>0, <1>1, BeginImportDoes
  <2>2. ScriptOK(s)'
    BY <2>1 DEF Done, Has, ScriptOK, PlaceOK, HandOK, Adding, Removing, Renaming, Photographing
  <2>3. spoiled' \subseteq Item
    BY <2>1, MeetsTyped
  <2>4. QED
    BY <1>0, <2>1, <2>2, <2>3, DoneKeeps DEF Done
<1>2. CASE BeginPhotoAdd(s)
  <2>1. PICK id \in Ids(rows) :
             /\ rows[id].photos < MaxPhotos
             /\ Done(s, "big", "photo add", rows, <<>>, Object(rows, id), Missing, num[s], <<>>)
             /\ Meets(s, {rows[id].item}) /\ removed' = removed /\ UNCHANGED <<rows, big, preview>> /\ runs' \in 0..MaxRuns
    BY <1>0, <1>2, BeginPhotoAddDoes
  <2>2. rows[id].item \in Item
    BY <1>0, RowOf
  <2>3. ScriptOK(s)'
    <3>1. PlaceOK(s)'
      BY <2>1, <2>2 DEF Object, Done, Has, PlaceOK, Adding, Removing, Renaming
    <3>2. HandOK(s)'
      <4>1. /\ "photo add" \in Photographing /\ "big" \notin {"insert", "edit", "move"}
            /\ "big" \notin Removing /\ "big" \notin Renaming
        BY DEF Photographing, Removing, Renaming
      <4>2. Object(rows, id).item \in Item /\ Object(rows, id).photos < MaxPhotos
        BY <2>1, <2>2 DEF Object
      <4>3. QED
        BY <2>1, <4>1, <4>2, HandFits
    <3>3. QED
      BY <3>1, <3>2 DEF ScriptOK
  <2>4. spoiled' \subseteq Item
    BY <2>1, <2>2, MeetsTyped
  <2>5. QED
    BY <1>0, <2>1, <2>3, <2>4, DoneKeeps DEF Done
<1>3. CASE BeginPhotoRemove(s)
  <2>1. PICK id \in Ids(rows) : \E n \in 0..(rows[id].photos - 1) :
             /\ n \in 0..MaxPhotos /\ n < rows[id].photos
             /\ Done(s, "unlinkBig", "photo remove", rows, <<>>, Object(rows, id), Missing, n, <<>>)
             /\ Meets(s, {rows[id].item}) /\ removed' = removed \cup {rows[id].item}
             /\ UNCHANGED <<rows, big, preview>> /\ runs' \in 0..MaxRuns
    BY <1>0, <1>3, BeginPhotoRemoveDoes
  <2>2. PICK n \in 0..(rows[id].photos - 1) :
             /\ n \in 0..MaxPhotos /\ n < rows[id].photos
             /\ Done(s, "unlinkBig", "photo remove", rows, <<>>, Object(rows, id), Missing, n, <<>>)
             /\ Meets(s, {rows[id].item}) /\ removed' = removed \cup {rows[id].item}
             /\ UNCHANGED <<rows, big, preview>> /\ runs' \in 0..MaxRuns
    BY <2>1
  <2>3. rows[id].item \in Item
    BY <1>0, RowOf
  <2>4. ScriptOK(s)'
    <3>1. PlaceOK(s)'
      BY <2>2, <2>3 DEF Object, Done, Has, PlaceOK, Adding, Removing, Renaming
    <3>2. HandOK(s)'
      <4>1. /\ "photo remove" \in Photographing /\ "unlinkBig" \notin {"insert", "edit", "move"}
            /\ "unlinkBig" \notin Adding /\ "unlinkBig" \notin Renaming
        BY DEF Photographing, Adding, Renaming
      <4>2. Object(rows, id).item \in Item /\ n < Object(rows, id).photos
        BY <2>2, <2>3 DEF Object
      <4>3. QED
        BY <2>2, <4>1, <4>2, HandFits
    <3>3. QED
      BY <3>1, <3>2 DEF ScriptOK
  <2>5. spoiled' \subseteq Item /\ removed' \subseteq Item
    BY <1>0, <2>2, <2>3, MeetsTyped
  <2>6. QED
    BY <1>0, <2>2, <2>4, <2>5, DoneKeeps DEF Done
<1>4. CASE BeginEdit(s)
  <2>1. PICK list \in Seq(ListedSet) :
             /\ list # <<>> /\ \A k \in 1..Len(list) : list[k].id \in Ids(rows) /\ list[k] = Object(rows, list[k].id)
             /\ Done(s, "edit", "edit", rows, <<>>, Nobody, Missing, num[s], list)
             /\ Meets(s, {list[k].item : k \in 1..Len(list)}) /\ removed' = removed
             /\ UNCHANGED <<rows, big, preview>> /\ runs' \in 0..MaxRuns
    BY <1>0, <1>4, BeginEditDoes
  <2>2. {list[k].item : k \in 1..Len(list)} \subseteq Item
    <3>1. \A k \in 1..Len(list) : list[k] \in ListedSet
      BY ElementOfSeq
    <3>2. QED
      BY <3>1 DEF ListedSet
  <2>3. ScriptOK(s)'
    BY <2>1 DEF Done, Has, ScriptOK, PlaceOK, HandOK, Adding, Removing, Renaming, Photographing
  <2>4. spoiled' \subseteq Item
    BY <2>1, <2>2, MeetsTyped
  <2>5. QED
    BY <1>0, <2>1, <2>3, <2>4, DoneKeeps DEF Done
<1>5. CASE BeginMove(s)
  <2>1. PICK list \in Seq(MoveSet) :
             /\ list # <<>> /\ \A k \in 1..Len(list) : Harmless(list[k]) \/ \E j \in 1..(k - 1) : Stuck(list[j])
             /\ Done(s, "move", "move", rows, <<>>, Nobody, Missing, num[s], list)
             /\ UNCHANGED <<rows, big, preview, spoiled, removed>> /\ runs' \in 0..MaxRuns
    BY <1>0, <1>5, BeginMoveDoes
  <2>2. ScriptOK(s)'
    BY <2>1 DEF Done, Has, ScriptOK, PlaceOK, HandOK, Adding, Removing, Renaming, Photographing
  <2>3. QED
    BY <1>0, <2>1, <2>2, DoneKeeps DEF Done
<1>6. QED
  BY <1>1, <1>2, <1>3, <1>4, <1>5 DEF Begins

LEMMA RowStepTyped ==
    ASSUME Typed, WorkOK, GrowOK, NEW s \in Script, RowStep(s)
    PROVE  Typed' /\ WorkOK'
<1>0. /\ RowsOK /\ rows \in [Id -> Entry] /\ big \in Album /\ preview \in Album /\ removed \subseteq Item /\ spoiled \subseteq Item
      /\ runs \in 0..MaxRuns
  BY DEF GrowOK, Typed
<1>9. HandOK(s)
  BY CommandOf
<1>1. CASE Insert(s)
  <2>1. PICK id \in Id :
             /\ pc[s] = "insert" /\ command[s] = "import" /\ id = next_id(Read(s)) /\ id <= MaxRows
             /\ Free(s, id) /\ Now(s)[id] = NoRow /\ Fields(self[s]) \in Row
             /\ Done(s, "line", "import", snapshot[s], Put(own[s], id, Fields(self[s])),
                     [id |-> id, item |-> self[s].item, photos |-> self[s].photos], photo[s], num[s], todo[s])
             /\ UNCHANGED <<rows, big, preview, runs, spoiled, removed>>
    BY <1>1, InsertDoes
  <2>2. ScriptOK(s)'
    BY <1>9, <2>1 DEF Done, Has, ScriptOK, PlaceOK, HandOK, Adding, Removing, Renaming, Photographing
  <2>3. QED
    BY <1>0, <2>1, <2>2, DoneKeeps DEF Done
<1>2. CASE NextPhoto(s)
  <2>1. /\ pc[s] = "line" /\ command[s] = "import" /\ self[s].photos < MaxPhotos
        /\ Done(s, "big", "import", snapshot[s], own[s], self[s], photo[s], num[s], todo[s])
        /\ UNCHANGED <<rows, big, preview, runs, spoiled, removed>>
    BY <1>2, NextPhotoDoes
  <2>2. ScriptOK(s)'
    BY <1>9, <2>1 DEF Done, Has, ScriptOK, PlaceOK, HandOK, Adding, Removing, Renaming, Photographing
  <2>3. QED
    BY <1>0, <2>1, <2>2, DoneKeeps DEF Done
<1>3. CASE NextLine(s)
  <2>1. PICK i \in Item :
             /\ pc[s] = "line" /\ command[s] = "import"
             /\ Done(s, "insert", "import", snapshot[s], own[s], [id |-> 0, item |-> i, photos |-> 0], photo[s], num[s], todo[s])
             /\ Meets(s, {i}) /\ UNCHANGED <<rows, big, preview, runs, removed>>
    BY <1>3, NextLineDoes
  <2>2. ScriptOK(s)'
    BY <1>9, <2>1 DEF Done, Has, ScriptOK, PlaceOK, HandOK, Adding, Removing, Renaming, Photographing
  <2>3. spoiled' \subseteq Item
    BY <2>1, MeetsTyped
  <2>4. QED
    BY <1>0, <2>1, <2>2, <2>3, DoneKeeps DEF Done
<1>4. CASE LastLine(s)
  <2>1. /\ pc[s] = "line" /\ command[s] = "import"
        /\ Done(s, "commit", "import", snapshot[s], own[s], self[s], photo[s], num[s], todo[s])
        /\ UNCHANGED <<rows, big, preview, runs, spoiled, removed>>
    BY <1>4, LastLineDoes
  <2>2. ScriptOK(s)'
    BY <1>9, <2>1 DEF Done, Has, ScriptOK, PlaceOK, HandOK, Adding, Removing, Renaming, Photographing
  <2>3. QED
    BY <1>0, <2>1, <2>2, DoneKeeps DEF Done
<1>5. CASE Save(s)
  <2>1. /\ pc[s] = "save" /\ command[s] \in Photographing
        /\ Done(s, IF command[s] = "import" THEN "line" ELSE "commit", command[s], snapshot[s],
                   Put(own[s], self[s].id, Fields(self[s])), self[s], photo[s], num[s], todo[s])
        /\ UNCHANGED <<rows, big, preview, runs, spoiled, removed>>
    BY <1>5, SaveDoes
  <2>2. ScriptOK(s)'
    BY <1>9, <2>1 DEF Done, Has, ScriptOK, PlaceOK, HandOK, Adding, Removing, Renaming, Photographing
  <2>3. QED
    BY <1>0, <2>1, <2>2, DoneKeeps DEF Done
<1>6. CASE Edit(s)
  <2>1. /\ pc[s] = "edit" /\ command[s] = "edit" /\ todo[s] \in Seq(ListedSet) /\ todo[s] # <<>>
        /\ Done(s, IF Len(todo[s]) = 1 THEN "commit" ELSE "edit", "edit", snapshot[s],
                   Put(own[s], todo[s][1].id, Fields(todo[s][1])), self[s], photo[s], num[s], Tail(todo[s]))
        /\ UNCHANGED <<rows, big, preview, runs, spoiled, removed>>
    BY <1>6, EditDoes
  <2>2. Tail(todo[s]) \in Seq(ListedSet) /\ (Len(todo[s]) # 1 => Tail(todo[s]) # <<>>)
    <3>1. ListedSet \subseteq ObjectSet
      BY Numbers DEF ListedSet, ObjectSet
    <3>2. QED
      BY <2>1, <3>1, TodoOf
  <2>3. ScriptOK(s)'
    BY <1>9, <2>1, <2>2 DEF Done, Has, ScriptOK, PlaceOK, HandOK, Adding, Removing, Renaming, Photographing
  <2>4. QED
    BY <1>0, <2>1, <2>3, DoneKeeps DEF Done
<1>7. CASE Move(s)
  <2>1. /\ pc[s] = "move" /\ command[s] = "move" /\ todo[s] \in Seq(MoveSet) /\ todo[s] # <<>>
        /\ Done(s, IF Len(todo[s]) = 1 THEN "commit" ELSE "move", "move", snapshot[s],
                   own[s], self[s], photo[s], num[s], Tail(todo[s]))
        /\ UNCHANGED <<rows, big, preview, runs, spoiled, removed>>
    BY <1>7, MoveDoes
  <2>2. Tail(todo[s]) \in Seq(MoveSet) /\ (Len(todo[s]) # 1 => Tail(todo[s]) # <<>>)
    BY <2>1, TodoOf
  <2>3. ScriptOK(s)'
    BY <1>9, <2>1, <2>2 DEF Done, Has, ScriptOK, PlaceOK, HandOK, Adding, Removing, Renaming, Photographing
  <2>4. QED
    BY <1>0, <2>1, <2>3, DoneKeeps DEF Done
<1>8. QED
  BY <1>1, <1>2, <1>3, <1>4, <1>5, <1>6, <1>7 DEF RowStep

LEMMA FileStepTyped ==
    ASSUME Typed, WorkOK, NEW s \in Script, FileStep(s)
    PROVE  Typed' /\ WorkOK'
<1>0. /\ rows \in [Id -> Entry] /\ big \in Album /\ preview \in Album /\ removed \subseteq Item /\ spoiled \subseteq Item
      /\ runs \in 0..MaxRuns
  BY DEF Typed
<1>9. HandOK(s)
  BY CommandOf
<1>1. CASE ConvertBig(s)
  <2>1. /\ pc[s] = "big" /\ command[s] \in {"import", "photo add"}
        /\ \E p \in Photo :
             /\ p # Missing
             /\ Done(s, "preview", command[s], snapshot[s], own[s], self[s], p, num[s], todo[s])
        /\ big' \in Album /\ UNCHANGED <<rows, preview, runs, spoiled, removed>>
    BY <1>1, ConvertBigDoes DEF SetsDir
  <2>2. PICK p \in Photo : p # Missing /\ Done(s, "preview", command[s], snapshot[s], own[s], self[s], p, num[s], todo[s])
    BY <2>1
  <2>3. ScriptOK(s)'
    BY <1>9, <2>1, <2>2 DEF Done, Has, ScriptOK, PlaceOK, HandOK, Adding, Removing, Renaming, Photographing
  <2>4. QED
    BY <1>0, <2>1, <2>2, <2>3, DoneKeeps DEF Done
<1>2. CASE ConvertPreview(s)
  <2>1. /\ pc[s] = "preview" /\ command[s] \in {"import", "photo add"} /\ self[s].item \in Item
        /\ Done(s, "save", command[s], snapshot[s], own[s], [id |-> self[s].id, item |-> self[s].item, photos |-> self[s].photos + 1],
                photo[s], num[s], todo[s])
        /\ preview' \in Album /\ UNCHANGED <<rows, big, runs, spoiled, removed>>
    BY <1>2, ConvertPreviewDoes DEF SetsDir
  <2>3. ScriptOK(s)'
    <3>1. PlaceOK(s)'
      BY <1>9, <2>1 DEF Done, Has, PlaceOK, Adding, Removing, Renaming
    <3>2. HandOK(s)'
      <4>1. /\ command[s] \in Photographing /\ "save" \notin {"insert", "edit", "move"}
            /\ "save" \notin Adding /\ "save" \notin Removing /\ "save" \notin Renaming
        BY <2>1 DEF Photographing, Adding, Removing, Renaming
      <4>2. todo[s] = <<>> /\ [id |-> self[s].id, item |-> self[s].item, photos |-> self[s].photos + 1].item \in Item
        BY <1>9, <2>1, <4>1 DEF HandOK
      <4>3. QED
        BY <2>1, <4>1, <4>2, HandFits
    <3>3. QED
      BY <3>1, <3>2 DEF ScriptOK
  <2>4. QED
    BY <1>0, <2>1, <2>3, DoneKeeps DEF Done
<1>3. CASE UnlinkBig(s)
  <2>1. /\ pc[s] = "unlinkBig" /\ command[s] = "photo remove"
        /\ Done(s, "unlinkPreview", command[s], snapshot[s], own[s], self[s], photo[s], num[s], todo[s])
        /\ big' \in Album /\ UNCHANGED <<rows, preview, runs, spoiled, removed>>
    BY <1>3, UnlinkBigDoes, CommandOf DEF SetsDir, Removing
  <2>3. ScriptOK(s)'
    BY <1>9, <2>1 DEF Done, Has, ScriptOK, PlaceOK, HandOK, Adding, Removing, Renaming, Photographing
  <2>4. QED
    BY <1>0, <2>1, <2>3, DoneKeeps DEF Done
<1>8. ASSUME pc[s] \in Removing, NEW n \in 0..MaxPhotos, Renumbers(s, n)
      PROVE  ScriptTypes' /\ OthersWait(s) /\ ScriptOK(s)'
  <2>1. command[s] = "photo remove" /\ n \in Nat /\ self[s].photos \in Nat
    <3>1. command[s] = "photo remove" /\ self[s].photos \in 0..MaxPhotos
      BY <1>8, CommandOf, HandOf
    <3>2. QED
      BY <3>1, IndexOf
  <2>2. CASE n + 1 < self[s].photos
    <3>1. Done(s, "renameBig", command[s], snapshot[s], own[s], self[s], photo[s], n, todo[s])
      BY <1>8, <2>2 DEF Renumbers
    <3>2. n < self[s].photos
      <4>1. self[s].photos \in 0..MaxPhotos
        BY HandOf
      <4>2. QED
        BY <2>2, <4>1, IndexOf
    <3>3. ScriptOK(s)'
      BY <1>9, <2>1, <2>2, <3>1, <3>2 DEF Done, Has, ScriptOK, PlaceOK, HandOK, Adding, Removing, Renaming, Photographing
    <3>4. QED
      BY <3>1, <3>3 DEF Done
  <2>3. CASE ~(n + 1 < self[s].photos)
    <3>1. Done(s, "save", command[s], snapshot[s], own[s],
               [id |-> self[s].id, item |-> self[s].item, photos |-> self[s].photos - 1], photo[s], n, todo[s])
      BY <1>8, <2>3 DEF Renumbers
    <3>3. ScriptOK(s)'
      <4>1. PlaceOK(s)'
        BY <1>9, <2>1, <3>1 DEF Done, Has, PlaceOK, Adding, Removing, Renaming
      <4>2. HandOK(s)'
        <5>1. /\ command[s] \in Photographing /\ "save" \notin {"insert", "edit", "move"}
              /\ "save" \notin Adding /\ "save" \notin Removing /\ "save" \notin Renaming
          BY <2>1 DEF Photographing, Adding, Removing, Renaming
        <5>2. todo[s] = <<>> /\ [id |-> self[s].id, item |-> self[s].item, photos |-> self[s].photos - 1].item \in Item
          BY <1>9, <2>1, <5>1 DEF HandOK
        <5>3. QED
          BY <3>1, <5>1, <5>2, HandFits
      <4>3. QED
        BY <4>1, <4>2 DEF ScriptOK
    <3>4. QED
      BY <3>1, <3>3 DEF Done
  <2>4. QED
    BY <2>2, <2>3
<1>4. CASE UnlinkPreview(s)
  <2>1. /\ pc[s] \in Removing /\ Renumbers(s, num[s]) /\ num[s] \in 0..MaxPhotos
        /\ preview' \in Album /\ UNCHANGED <<rows, big, runs, spoiled, removed>>
    BY <1>4, UnlinkPreviewDoes, HandOf DEF SetsDir, Removing
  <2>2. QED
    BY <1>0, <1>8, <2>1, DoneKeeps
<1>5. CASE RenameBig(s)
  <2>1. /\ pc[s] = "renameBig" /\ command[s] = "photo remove"
        /\ Done(s, "renamePreview", command[s], snapshot[s], own[s], self[s], photo[s], num[s], todo[s])
        /\ big' \in Album /\ UNCHANGED <<rows, preview, runs, spoiled, removed>>
    BY <1>5, RenameBigDoes, CommandOf DEF SetsDir, Removing, Renaming
  <2>3. ScriptOK(s)'
    BY <1>9, <2>1 DEF Done, Has, ScriptOK, PlaceOK, HandOK, Adding, Removing, Renaming, Photographing
  <2>4. QED
    BY <1>0, <2>1, <2>3, DoneKeeps DEF Done
<1>6. CASE RenamePreview(s)
  <2>1. /\ pc[s] \in Removing /\ Renumbers(s, num[s] + 1) /\ num[s] + 1 \in 0..MaxPhotos
        /\ preview' \in Album /\ UNCHANGED <<rows, big, runs, spoiled, removed>>
    <3>1. pc[s] = "renamePreview"
      BY <1>6 DEF RenamePreview
    <3>2. pc[s] \in Removing
      BY <3>1 DEF Removing, Renaming
    <3>3. QED
      BY <1>6, <3>2, RenamePreviewDoes, RemovingOf DEF SetsDir
  <2>2. QED
    BY <1>0, <1>8, <2>1, DoneKeeps
<1>7. QED
  BY <1>1, <1>2, <1>3, <1>4, <1>5, <1>6 DEF FileStep

LEMMA EndTyped ==
    ASSUME Typed, WorkOK, NEW s \in Script, Commit(s) \/ Dies(s)
    PROVE  Typed' /\ WorkOK'
<1>0. /\ rows \in [Id -> Entry] /\ big \in Album /\ preview \in Album /\ removed \subseteq Item /\ spoiled \subseteq Item
      /\ runs \in 0..MaxRuns
  BY DEF Typed
<1>1. Done(s, "idle", "none", Nothing, <<>>, Nobody, Missing, 0, <<>>)
  BY EndsDoes DEF Commit, Dies
<1>2. ScriptOK(s)'
  BY <1>1 DEF Done, Has, ScriptOK, PlaceOK, HandOK, Adding, Removing, Renaming, Photographing
<1>3. CASE Commit(s)
  <2>1. rows' = Now(s) /\ UNCHANGED <<runs, big, preview, spoiled, removed>>
    BY <1>3 DEF Commit, files, histories
  <2>2. rows' \in [Id -> Entry]
    BY <2>1, NowOf
  <2>3. QED
    BY <1>0, <1>1, <1>2, <2>1, <2>2, DoneKeeps DEF Done
<1>4. CASE Dies(s)
  <2>1. UNCHANGED <<rows, runs, big, preview, removed>>
    BY <1>4 DEF Dies, files
  <2>2. spoiled' \subseteq Item
    <3>1. command[s] = "photo remove" => self[s].item \in Item
      BY CommandOf DEF HandOK, Photographing
    <3>2. QED
      BY <1>0, <1>4, <3>1, ItemsTyped DEF Dies
  <2>3. QED
    BY <1>0, <1>1, <1>2, <2>1, <2>2, DoneKeeps DEF Done
<1>5. QED
  BY <1>3, <1>4

LEMMA TypedStep ==
    ASSUME Typed, WorkOK, GrowOK, Next
    PROVE  Typed' /\ WorkOK'
<1>1. PICK s \in Script : Begins(s) \/ RowStep(s) \/ FileStep(s) \/ Commit(s) \/ Dies(s)
  BY DEF Next
<1>2. QED
  BY <1>1, BeginsTyped, RowStepTyped, FileStepTyped, EndTyped

-----------------------------------------------------------------------------
(* A step keeps the ids: those of the rows, and those of the imports *)

Grows == \A id \in Ids(rows) : id \in Ids(rows') /\ rows'[id].item = rows[id].item

\* What a script read once stays so, as rows come and none goes.
LEMMA OthersGrow ==
    ASSUME GrowOK, NEW s \in Script, OthersWait(s), Grows, RowsOK', OwnOK(s)',
           \A id \in Ids(rows') : id \in Ids(rows) \cup DOMAIN own[s],
           \A t \in Script : t # s => DOMAIN own'[s] \cap DOMAIN own[t] = {}
    PROVE  GrowOK'
<1>1. ASSUME NEW t \in Script, t # s PROVE OwnOK(t)'
  <2>1. OwnOK(t) /\ Waits(t) /\ DOMAIN own[s] \cap DOMAIN own[t] = {}
    BY <1>1 DEF GrowOK, OthersWait
  <2>2. ASSUME NEW id, NEW item, Same(id, item) PROVE Same(id, item)'
    BY <2>2 DEF Same, Grows
  <2>3. ASSUME NEW m, Harmless(m) PROVE Harmless(m)'
    BY <2>3 DEF Harmless, Grows
  <2>4. ASSUME NEW m, Stuck(m) PROVE Stuck(m)'
    BY <2>4 DEF Stuck, Grows
  <2>5. SnapshotOK(t)'
    BY <2>1 DEF OwnOK, SnapshotOK, Waits, Grows
  <2>6. ImportOK(t)'
    <3>1. CASE command[t] = "import"
      <4>1. DOMAIN own[t] \cap Ids(rows') = {}
        BY <2>1, <3>1 DEF OwnOK, ImportOK
      <4>2. Numbered(Ids(rows') \cup DOMAIN own[t])
        <5>1. Numbered(Ids(rows) \cup DOMAIN own[t]) /\ Numbered(Ids(rows'))
          BY <2>1, <3>1 DEF OwnOK, ImportOK, RowsOK
        <5>2. Ids(rows) \subseteq Ids(rows')
          BY DEF Grows
        <5>3. QED
          BY <5>1, <5>2 DEF Numbered
      <4>3. /\ \A id \in DOMAIN own[t] : own[t][id] # NoRow /\ id <= MaxRows
            /\ pc[t] # "insert" => self[t].id \in DOMAIN own[t] /\ own[t][self[t].id].item = self[t].item
        BY <2>1, <3>1 DEF OwnOK, ImportOK
      <4>4. QED
        BY <2>1, <4>1, <4>2, <4>3 DEF ImportOK, Waits
    <3>2. CASE command[t] # "import"
      BY <2>1, <3>2 DEF ImportOK, Waits
    <3>3. QED
      BY <3>1, <3>2
  <2>7. ChangeOK(t)'
    BY <2>1, <2>2 DEF OwnOK, ChangeOK, Waits
  <2>8. SelfOK(t)'
    BY <2>1, <2>2 DEF OwnOK, SelfOK, Waits
  <2>9. EditOK(t)'
    BY <2>1, <2>2 DEF OwnOK, EditOK, Waits
  <2>10. MoveOK(t)'
    BY <2>1, <2>3, <2>4 DEF OwnOK, MoveOK, Waits
  <2>11. QED
    BY <2>5, <2>6, <2>7, <2>8, <2>9, <2>10 DEF OwnOK
<1>2. ASSUME NEW t \in Script, NEW u \in Script, t # u PROVE DOMAIN own'[t] \cap DOMAIN own'[u] = {}
  <2>1. CASE t = s
    <3>1. own'[u] = own[u]
      BY <1>2, <2>1 DEF OthersWait, Waits
    <3>2. QED
      BY <1>2, <2>1, <3>1
  <2>2. CASE u = s
    <3>1. own'[t] = own[t]
      BY <1>2, <2>2 DEF OthersWait, Waits
    <3>2. QED
      BY <1>2, <2>2, <3>1
  <2>3. CASE t # s /\ u # s
    BY <1>2, <2>3 DEF OthersWait, Waits, GrowOK
  <2>4. QED
    BY <2>1, <2>2, <2>3
<1>3. QED
  BY <1>1, <1>2 DEF GrowOK

\* Most steps leave the rows alone, and the own rows of the script.
LEMMA RowsStay ==
    ASSUME GrowOK, NEW s \in Script, OthersWait(s), rows' = rows, OwnOK(s)',
           \A t \in Script : t # s => DOMAIN own'[s] \cap DOMAIN own[t] = {}
    PROVE  GrowOK'
<1>1. Grows /\ RowsOK' /\ \A id \in Ids(rows') : id \in Ids(rows) \cup DOMAIN own[s]
  BY DEF Grows, RowsOK, GrowOK
<1>2. QED
  BY <1>1, OthersGrow

LEMMA OwnStays ==
    ASSUME GrowOK, NEW s \in Script, OthersWait(s), rows' = rows, OwnOK(s)', own'[s] = own[s] \/ own'[s] = <<>>
    PROVE  GrowOK'
<1>1. \A t \in Script : t # s => DOMAIN own'[s] \cap DOMAIN own[t] = {}
  BY EmptyOwn DEF GrowOK
<1>2. QED
  BY <1>1, RowsStay

\* A script that only goes on: the same command, snapshot, rows, id and item.
LEMMA OwnKept ==
    ASSUME GrowOK, NEW s \in Script, rows' = rows, own'[s] = own[s], snapshot'[s] = snapshot[s], command'[s] = command[s],
           \/ self'[s].id = self[s].id /\ self'[s].item = self[s].item /\ pc[s] # "insert"
           \/ command[s] = "import" /\ pc'[s] = "insert",
           command[s] \in {"edit", "move"} => todo'[s] = todo[s]
    PROVE  OwnOK(s)'
<1>1. OwnOK(s)
  BY DEF GrowOK
<1>2. SnapshotOK(s)'
  BY <1>1 DEF OwnOK, SnapshotOK
<1>3. ImportOK(s)'
  BY <1>1 DEF OwnOK, ImportOK
<1>4. ChangeOK(s)'
  BY <1>1 DEF OwnOK, ChangeOK, Same
<1>5. SelfOK(s)'
  BY <1>1 DEF OwnOK, SelfOK, Same
<1>6. EditOK(s)'
  BY <1>1 DEF OwnOK, EditOK, Same
<1>7. MoveOK(s)'
  BY <1>1 DEF OwnOK, MoveOK, Harmless, Stuck
<1>8. QED
  BY <1>2, <1>3, <1>4, <1>5, <1>6, <1>7 DEF OwnOK

SameList(list) == \A k \in 1..Len(list) : Same(list[k].id, list[k].item)
MoveList(list) == \A k \in 1..Len(list) : Harmless(list[k]) \/ \E j \in 1..(k - 1) : Stuck(list[j])

Fits(at, does, obj, list) ==
    /\ does = "import" => at = "insert"
    /\ does \in {"photo add", "photo remove"} => Same(obj.id, obj.item)
    /\ does = "edit" => SameList(list)
    /\ does = "move" => MoveList(list)

LEMMA BeginFits ==
    ASSUME GrowOK, NEW s \in Script, NEW at, NEW does, NEW obj, NEW p, NEW n, NEW list,
           Done(s, at, does, rows, <<>>, obj, p, n, list), rows' = rows, Fits(at, does, obj, list)
    PROVE  GrowOK'
<1>1. /\ pc'[s] = at /\ command'[s] = does /\ snapshot'[s] = rows /\ own'[s] = <<>> /\ self'[s] = obj /\ todo'[s] = list
      /\ DOMAIN own'[s] = {}
  BY EmptyOwn DEF Done, Has
<1>2. SnapshotOK(s)'
  BY <1>1 DEF GrowOK, RowsOK, SnapshotOK
<1>3. ImportOK(s)'
  BY <1>1 DEF GrowOK, RowsOK, ImportOK, Fits
<1>4. ChangeOK(s)'
  BY <1>1 DEF ChangeOK
<1>5. SelfOK(s)'
  BY <1>1 DEF SelfOK, Same, Fits
<1>6. EditOK(s)'
  BY <1>1 DEF EditOK, Same, SameList, Fits
<1>7. MoveOK(s)'
  BY <1>1 DEF MoveOK, Harmless, Stuck, MoveList, Fits
<1>8. OwnOK(s)'
  BY <1>2, <1>3, <1>4, <1>5, <1>6, <1>7 DEF OwnOK
<1>9. QED
  BY <1>1, <1>8, OwnStays DEF Done

LEMMA SameObject ==
    ASSUME NEW id \in Ids(rows) PROVE Same(Object(rows, id).id, Object(rows, id).item)
BY DEF Same, Object

LEMMA BeginsGrow ==
    ASSUME Typed, WorkOK, GrowOK, NEW s \in Script, Begins(s)
    PROVE  GrowOK' /\ rows' = rows
<1>0. RowsOK
  BY DEF GrowOK
<1>1. CASE BeginImport(s)
  <2>1. PICK i \in Item :
             /\ Done(s, "insert", "import", rows, <<>>, [id |-> 0, item |-> i, photos |-> 0], Missing, num[s], <<>>)
             /\ rows' = rows
    BY <1>0, <1>1, BeginImportDoes
  <2>2. Fits("insert", "import", [id |-> 0, item |-> i, photos |-> 0], <<>>)
    BY <2>1 DEF Fits
  <2>3. QED
    BY <2>1, <2>2, BeginFits
<1>2. CASE BeginPhotoAdd(s)
  <2>1. PICK id \in Ids(rows) :
             Done(s, "big", "photo add", rows, <<>>, Object(rows, id), Missing, num[s], <<>>) /\ rows' = rows
    BY <1>0, <1>2, BeginPhotoAddDoes
  <2>2. Same(Object(rows, id).id, Object(rows, id).item)
    BY SameObject
  <2>3. Fits("big", "photo add", Object(rows, id), <<>>)
    BY <2>1, <2>2 DEF Fits
  <2>4. QED
    BY <2>1, <2>3, BeginFits
<1>3. CASE BeginPhotoRemove(s)
  <2>1. PICK id \in Ids(rows) : \E n \in 0..(rows[id].photos - 1) :
             Done(s, "unlinkBig", "photo remove", rows, <<>>, Object(rows, id), Missing, n, <<>>) /\ rows' = rows
    BY <1>0, <1>3, BeginPhotoRemoveDoes
  <2>2. PICK n \in 0..(rows[id].photos - 1) :
             Done(s, "unlinkBig", "photo remove", rows, <<>>, Object(rows, id), Missing, n, <<>>) /\ rows' = rows
    BY <2>1
  <2>3. Same(Object(rows, id).id, Object(rows, id).item)
    BY SameObject
  <2>4. Fits("unlinkBig", "photo remove", Object(rows, id), <<>>)
    BY <2>2, <2>3 DEF Fits
  <2>5. QED
    BY <2>2, <2>4, BeginFits
<1>4. CASE BeginEdit(s)
  <2>1. PICK list \in Seq(ListedSet) :
             /\ \A k \in 1..Len(list) : list[k].id \in Ids(rows) /\ list[k] = Object(rows, list[k].id)
             /\ Done(s, "edit", "edit", rows, <<>>, Nobody, Missing, num[s], list) /\ rows' = rows
    BY <1>0, <1>4, BeginEditDoes
  <2>2. ASSUME NEW k \in 1..Len(list) PROVE Same(list[k].id, list[k].item)
    <3>1. PICK id \in Ids(rows) : list[k] = Object(rows, id)
      BY <2>1
    <3>2. QED
      BY <3>1, SameObject
  <2>3. SameList(list)
    BY <2>2 DEF SameList
  <2>4. Fits("edit", "edit", Nobody, list)
    BY <2>1, <2>3 DEF Fits
  <2>5. QED
    BY <2>1, <2>4, BeginFits
<1>5. CASE BeginMove(s)
  <2>1. PICK list \in Seq(MoveSet) :
             /\ \A k \in 1..Len(list) : Harmless(list[k]) \/ \E j \in 1..(k - 1) : Stuck(list[j])
             /\ Done(s, "move", "move", rows, <<>>, Nobody, Missing, num[s], list) /\ rows' = rows
    BY <1>0, <1>5, BeginMoveDoes
  <2>2. MoveList(list)
    BY <2>1 DEF MoveList
  <2>3. Fits("move", "move", Nobody, list)
    BY <2>1, <2>2 DEF Fits
  <2>4. QED
    BY <2>1, <2>3, BeginFits
<1>6. QED
  BY <1>1, <1>2, <1>3, <1>4, <1>5 DEF Begins

\* The id after the last that the script reads leaves no gap, as it reads all
\* rows there were, and its own.
LEMMA InsertGrows ==
    ASSUME Typed, WorkOK, GrowOK, NEW s \in Script, Insert(s)
    PROVE  GrowOK' /\ rows' = rows
<1>1. PICK id \in Id :
         /\ pc[s] = "insert" /\ command[s] = "import" /\ id = next_id(Read(s)) /\ id <= MaxRows
         /\ Free(s, id) /\ Now(s)[id] = NoRow /\ Fields(self[s]) \in Row
         /\ Done(s, "line", "import", snapshot[s], Put(own[s], id, Fields(self[s])),
                 [id |-> id, item |-> self[s].item, photos |-> self[s].photos], photo[s], num[s], todo[s])
         /\ UNCHANGED <<rows, big, preview, runs, spoiled, removed>>
  BY InsertDoes
<1>2. OwnOK(s) /\ own[s] \in OwnSet /\ snapshot[s] \in [Id -> Entry] /\ rows \in [Id -> Entry] /\ Fields(self[s]) \in Entry
  BY <1>1 DEF GrowOK, Typed, Entry
<1> DEFINE mine == DOMAIN own[s]
<1>3. mine \subseteq Id /\ mine \cap Ids(rows) = {} /\ \A x \in mine : own[s][x] # NoRow /\ x <= MaxRows
  BY <1>1, <1>2, OwnOf DEF OwnOK, ImportOK
<1>4. Numbered(Ids(rows) \cup mine) /\ Ids(snapshot[s]) \subseteq Ids(rows)
  BY <1>1, <1>2 DEF OwnOK, ImportOK, SnapshotOK
<1>5. Ids(Read(s)) = Ids(snapshot[s]) \cup mine
  <2>1. \A x \in Id : Read(s)[x] # NoRow <=> x \in mine \/ x \in Ids(snapshot[s])
    <3>1. ASSUME NEW x \in Id, x \in mine PROVE Read(s)[x] # NoRow
      BY <1>3, <3>1, NowOf
    <3>2. ASSUME NEW x \in Id, x \notin mine PROVE Read(s)[x] # NoRow <=> x \in Ids(snapshot[s])
      <4>1. Read(s)[x] = snapshot[s][x]
        BY <3>2, NowOf
      <4>2. QED
        BY <4>1 DEF Ids
    <3>3. QED
      BY <3>1, <3>2
  <2>2. Ids(snapshot[s]) \subseteq Id /\ Ids(Read(s)) = {x \in Id : Read(s)[x] # NoRow}
    BY DEF Ids
  <2>3. QED
    BY <1>3, <2>1, <2>2
<1>6. id \notin mine /\ id \notin Ids(rows)
  <2>1. id \notin mine
    BY <1>1, <1>3, NowOf
  <2>2. Now(s)[id] = rows[id]
    BY <2>1, NowOf
  <2>3. QED
    BY <1>1, <2>1, <2>2 DEF Ids
<1>7. Numbered((Ids(rows) \cup mine) \cup {id})
  <2>1. ASSUME NEW x \in 1..id, x # id PROVE x \in Ids(rows) \cup mine
    <3>1. /\ id \in Nat \ {0} /\ (Ids(Read(s)) = {} => id = 1) /\ (Ids(Read(s)) # {} => id - 1 \in Ids(Read(s)))
      BY <1>1, NowOf, NextIdOf
    <3>2. Ids(Read(s)) # {}
      BY <2>1, <3>1
    <3>3. id - 1 \in Ids(rows) \cup mine
      BY <1>4, <1>5, <3>1, <3>2
    <3>4. x \in 1..(id - 1)
      BY <2>1, <3>1
    <3>5. QED
      BY <1>4, <3>3, <3>4 DEF Numbered
  <2>2. QED
    BY <1>4, <2>1 DEF Numbered
<1>8. /\ pc'[s] = "line" /\ command'[s] = "import" /\ snapshot'[s] = snapshot[s] /\ rows' = rows
      /\ own'[s] = Put(own[s], id, Fields(self[s])) /\ self'[s].id = id /\ self'[s].item = self[s].item
  BY <1>1 DEF Done, Has
<1>9. /\ DOMAIN own'[s] = mine \cup {id} /\ own'[s][id] = Fields(self[s])
      /\ \A x \in mine : own'[s][x] = own[s][x]
  <2>1. /\ DOMAIN Put(own[s], id, Fields(self[s])) = mine \cup {id} /\ Put(own[s], id, Fields(self[s]))[id] = Fields(self[s])
        /\ \A x \in mine : x # id => Put(own[s], id, Fields(self[s]))[x] = own[s][x]
    BY ZenonT(30), <1>2, PutOf
  <2>2. QED
    BY <1>6, <1>8, <2>1
<1> HIDE DEF mine
<1>10. ImportOK(s)'
  <2>1. DOMAIN own'[s] \cap Ids(rows') = {}
    BY <1>3, <1>6, <1>8, <1>9
  <2>2. Numbered(Ids(rows') \cup DOMAIN own'[s])
    <3>1. Ids(rows') \cup DOMAIN own'[s] = (Ids(rows) \cup mine) \cup {id}
      BY <1>8, <1>9
    <3>2. QED
      BY <1>7, <3>1
  <2>3. \A x \in DOMAIN own'[s] : own'[s][x] # NoRow /\ x <= MaxRows
    BY <1>1, <1>3, <1>9, Numbers
  <2>4. self'[s].id \in DOMAIN own'[s] /\ own'[s][self'[s].id].item = self'[s].item
    BY <1>8, <1>9 DEF Fields
  <2>5. QED
    BY <2>1, <2>2, <2>3, <2>4 DEF ImportOK
<1>11. OwnOK(s)'
  <2>1. SnapshotOK(s)'
    BY <1>2, <1>8 DEF OwnOK, SnapshotOK
  <2>2. ChangeOK(s)' /\ SelfOK(s)' /\ EditOK(s)' /\ MoveOK(s)'
    BY <1>8 DEF ChangeOK, SelfOK, EditOK, MoveOK
  <2>3. QED
    BY <1>10, <2>1, <2>2 DEF OwnOK
<1>12. \A t \in Script : t # s => DOMAIN own'[s] \cap DOMAIN own[t] = {}
  BY <1>1, <1>9 DEF Free, GrowOK, mine
<1>13. QED
  BY <1>1, <1>8, <1>11, <1>12, RowsStay DEF Done

\* The script saves a row that is there, or its own: one it knows by its id.
LEMMA PutGrows ==
    ASSUME Typed, GrowOK, NEW s \in Script, NEW id \in Id, NEW row \in Row, Free(s, id), rows' = rows, OthersWait(s),
           command'[s] = command[s], snapshot'[s] = snapshot[s], self'[s] = self[s], pc[s] # "insert",
           own'[s] = Put(own[s], id, row), command[s] \in {"import", "photo add", "photo remove", "edit"},
           command[s] = "import" => id = self[s].id /\ row.item = self[s].item,
           command[s] # "import" => Same(id, row.item),
           EditOK(s)'
    PROVE  GrowOK'
<1>1. OwnOK(s) /\ own[s] \in OwnSet /\ row \in Entry /\ row # NoRow
  BY Numbers DEF GrowOK, Typed, Entry
<1>2. /\ DOMAIN own'[s] = DOMAIN own[s] \cup {id} /\ own'[s][id] = row
      /\ \A x \in DOMAIN own[s] : x # id => own'[s][x] = own[s][x]
  <2>1. /\ DOMAIN Put(own[s], id, row) = DOMAIN own[s] \cup {id} /\ Put(own[s], id, row)[id] = row
        /\ \A x \in DOMAIN own[s] : x # id => Put(own[s], id, row)[x] = own[s][x]
    BY <1>1, PutOf
  <2>2. QED
    BY <2>1
<1>3. ImportOK(s)'
  <2>1. CASE command[s] = "import"
    <3>1. id \in DOMAIN own[s] /\ id = self[s].id
      BY <1>1, <2>1 DEF OwnOK, ImportOK
    <3>2. DOMAIN own'[s] = DOMAIN own[s] /\ own'[s][id].item = self[s].item
      BY <1>2, <2>1, <3>1
    <3>3. \A x \in DOMAIN own'[s] : own'[s][x] # NoRow /\ x <= MaxRows
      <4>1. \A x \in DOMAIN own[s] : own[s][x] # NoRow /\ x <= MaxRows
        BY <1>1, <2>1 DEF OwnOK, ImportOK
      <4>2. QED
        BY <1>1, <1>2, <3>2, <4>1
    <3>4. DOMAIN own'[s] \cap Ids(rows') = {} /\ Numbered(Ids(rows') \cup DOMAIN own'[s])
      BY <1>1, <2>1, <3>2 DEF OwnOK, ImportOK
    <3>5. QED
      BY <3>1, <3>2, <3>3, <3>4 DEF ImportOK
  <2>2. CASE command[s] # "import"
    BY <2>2 DEF ImportOK
  <2>3. QED
    BY <2>1, <2>2
<1>4. ChangeOK(s)'
  <2>1. CASE command[s] = "import"
    BY <2>1 DEF ChangeOK
  <2>2. CASE command[s] # "import"
    <3>1. \A x \in DOMAIN own[s] : own[s][x] # NoRow /\ Same(x, own[s][x].item)
      BY <1>1, <2>2 DEF OwnOK, ChangeOK
    <3>2. \A x \in DOMAIN own'[s] : own'[s][x] # NoRow /\ Same(x, own'[s][x].item)
      BY <1>1, <1>2, <2>2, <3>1
    <3>3. QED
      BY <3>2 DEF ChangeOK, Same
  <2>3. QED
    BY <2>1, <2>2
<1>5. SnapshotOK(s)' /\ SelfOK(s)' /\ MoveOK(s)'
  <2>1. SnapshotOK(s)'
    BY <1>1 DEF OwnOK, SnapshotOK
  <2>2. SelfOK(s)'
    BY <1>1 DEF OwnOK, SelfOK, Same
  <2>3. MoveOK(s)'
    BY DEF MoveOK
  <2>4. QED
    BY <2>1, <2>2, <2>3
<1>6. OwnOK(s)'
  BY <1>3, <1>4, <1>5 DEF OwnOK
<1>7. ASSUME NEW t \in Script, t # s PROVE DOMAIN own'[s] \cap DOMAIN own[t] = {}
  <2>1. id \notin DOMAIN own[t]
    BY <1>7 DEF Free
  <2>2. DOMAIN own[s] \cap DOMAIN own[t] = {}
    BY <1>7 DEF GrowOK
  <2>3. QED
    BY <1>2, <2>1, <2>2
<1>8. QED
  BY <1>6, <1>7, RowsStay

LEMMA SaveGrows ==
    ASSUME Typed, WorkOK, GrowOK, NEW s \in Script, Save(s)
    PROVE  GrowOK' /\ rows' = rows
<1>1. /\ pc[s] = "save" /\ command[s] \in Photographing /\ self[s].id \in Id /\ Free(s, self[s].id)
      /\ Fields(self[s]) \in Row
      /\ Done(s, IF command[s] = "import" THEN "line" ELSE "commit", command[s], snapshot[s],
              Put(own[s], self[s].id, Fields(self[s])), self[s], photo[s], num[s], todo[s])
      /\ rows' = rows
  BY SaveDoes
<1>2. /\ command'[s] = command[s] /\ snapshot'[s] = snapshot[s] /\ self'[s] = self[s]
      /\ own'[s] = Put(own[s], self[s].id, Fields(self[s])) /\ OthersWait(s)
  BY <1>1 DEF Done, Has
<1>3. command[s] # "import" => Same(self[s].id, Fields(self[s]).item)
  <2>1. SelfOK(s)
    BY DEF GrowOK, OwnOK
  <2>2. QED
    BY <1>1, <2>1 DEF SelfOK, Fields, Photographing
<1>4. EditOK(s)' /\ command[s] \in {"import", "photo add", "photo remove", "edit"} /\ Fields(self[s]).item = self[s].item
  BY <1>1, <1>2 DEF EditOK, Photographing, Fields
<1>5. QED
  BY <1>1, <1>2, <1>3, <1>4, PutGrows

LEMMA EditGrows ==
    ASSUME Typed, WorkOK, GrowOK, NEW s \in Script, Edit(s)
    PROVE  GrowOK' /\ rows' = rows
<1>1. /\ pc[s] = "edit" /\ command[s] = "edit" /\ todo[s] \in Seq(ListedSet) /\ todo[s] # <<>>
      /\ todo[s][1] \in ListedSet /\ todo[s][1].id \in Id /\ Free(s, todo[s][1].id)
      /\ Done(s, IF Len(todo[s]) = 1 THEN "commit" ELSE "edit", "edit", snapshot[s],
              Put(own[s], todo[s][1].id, Fields(todo[s][1])), self[s], photo[s], num[s], Tail(todo[s]))
      /\ rows' = rows
  BY EditDoes
<1>2. /\ command'[s] = command[s] /\ snapshot'[s] = snapshot[s] /\ self'[s] = self[s] /\ todo'[s] = Tail(todo[s])
      /\ own'[s] = Put(own[s], todo[s][1].id, Fields(todo[s][1])) /\ OthersWait(s)
  BY <1>1 DEF Done, Has
<1>3. /\ Len(todo[s]) \in Nat \ {0} /\ Len(Tail(todo[s])) = Len(todo[s]) - 1
      /\ \A i \in 1..(Len(todo[s]) - 1) : Tail(todo[s])[i] = todo[s][i + 1]
  <2>1. ListedSet \subseteq ObjectSet
    BY Numbers DEF ListedSet, ObjectSet
  <2>2. QED
    BY <1>1, <2>1, TodoOf
<1>4. \A k \in 1..Len(todo[s]) : Same(todo[s][k].id, todo[s][k].item)
  BY <1>1 DEF GrowOK, OwnOK, EditOK
<1>5. Fields(todo[s][1]) \in Row /\ Fields(todo[s][1]).item = todo[s][1].item
  BY <1>1 DEF Fields, ListedSet, Row
<1>6. Same(todo[s][1].id, Fields(todo[s][1]).item)
  BY <1>3, <1>4, <1>5
<1>7. EditOK(s)'
  <2>1. ASSUME NEW k \in 1..Len(todo'[s]) PROVE Same(todo'[s][k].id, todo'[s][k].item)
    <3>1. k \in 1..(Len(todo[s]) - 1) /\ k + 1 \in 1..Len(todo[s])
      BY <1>2, <1>3, <2>1
    <3>2. todo'[s][k] = todo[s][k + 1]
      BY <1>2, <1>3, <3>1
    <3>3. QED
      BY <1>4, <3>1, <3>2
  <2>2. QED
    BY <1>1, <2>1 DEF EditOK, Same
<1>8. QED
  BY <1>1, <1>2, <1>5, <1>6, <1>7, PutGrows

LEMMA MoveGrows ==
    ASSUME Typed, WorkOK, GrowOK, NEW s \in Script, Move(s)
    PROVE  GrowOK' /\ rows' = rows
<1>1. /\ pc[s] = "move" /\ command[s] = "move" /\ todo[s] \in Seq(MoveSet) /\ todo[s] # <<>>
      /\ ~Stuck(todo[s][1])
      /\ Done(s, IF Len(todo[s]) = 1 THEN "commit" ELSE "move", "move", snapshot[s],
              own[s], self[s], photo[s], num[s], Tail(todo[s]))
      /\ rows' = rows
  BY MoveDoes
<1>2. /\ command'[s] = "move" /\ snapshot'[s] = snapshot[s] /\ todo'[s] = Tail(todo[s])
      /\ own'[s] = own[s] /\ OthersWait(s)
  BY <1>1 DEF Done, Has
<1>3. /\ Len(todo[s]) \in Nat \ {0} /\ Len(Tail(todo[s])) = Len(todo[s]) - 1
      /\ \A i \in 1..(Len(todo[s]) - 1) : Tail(todo[s])[i] = todo[s][i + 1]
  BY <1>1, TodoOf
<1>4. OwnOK(s) /\ own[s] = <<>>
  BY <1>1 DEF GrowOK, OwnOK, MoveOK
<1>5. MoveOK(s)'
  <2>1. ASSUME NEW k \in 1..Len(todo'[s]) PROVE Harmless(todo'[s][k]) \/ \E j \in 1..(k - 1) : Stuck(todo'[s][j])
    <3>1. k \in 1..(Len(todo[s]) - 1) /\ k + 1 \in 1..Len(todo[s]) /\ k \in Nat
      BY <1>2, <1>3, <2>1
    <3>2. todo'[s][k] = todo[s][k + 1]
      BY <1>2, <1>3, <3>1
    <3>3. Harmless(todo[s][k + 1]) \/ \E j \in 1..(k + 1 - 1) : Stuck(todo[s][j])
      BY <1>1, <1>4, <3>1 DEF OwnOK, MoveOK
    <3>4. CASE Harmless(todo[s][k + 1])
      BY <3>2, <3>4
    <3>5. ASSUME NEW j \in 1..(k + 1 - 1), Stuck(todo[s][j]) PROVE \E i \in 1..(k - 1) : Stuck(todo'[s][i])
      <4>1. j # 1
        BY <1>1, <3>5
      <4>2. j - 1 \in 1..(k - 1) /\ j - 1 \in 1..(Len(todo[s]) - 1) /\ (j - 1) + 1 = j
        BY <1>3, <3>1, <4>1
      <4>3. todo'[s][j - 1] = todo[s][j]
        BY <1>2, <1>3, <4>2
      <4>4. QED
        BY <3>5, <4>2, <4>3
    <3>6. QED
      BY <3>3, <3>4, <3>5
  <2>2. own'[s] = <<>>
    BY <1>2, <1>4
  <2>3. QED
    BY <1>1, <2>1, <2>2 DEF MoveOK, Harmless, Stuck
<1>6. OwnOK(s)'
  <2>1. SnapshotOK(s)'
    BY <1>1, <1>2, <1>4 DEF OwnOK, SnapshotOK
  <2>2. ImportOK(s)' /\ ChangeOK(s)' /\ SelfOK(s)' /\ EditOK(s)'
    BY <1>2 DEF ImportOK, ChangeOK, SelfOK, EditOK
  <2>3. QED
    BY <1>5, <2>1, <2>2 DEF OwnOK
<1>7. QED
  BY <1>1, <1>2, <1>6, OwnStays

\* The other steps of a script: only where it is, its photo, and its number change.
LEMMA KeepsGrow ==
    ASSUME GrowOK, NEW s \in Script, NEW at, NEW obj, NEW p, NEW n, rows' = rows,
           Done(s, at, command[s], snapshot[s], own[s], obj, p, n, todo[s]),
           \/ obj.id = self[s].id /\ obj.item = self[s].item /\ pc[s] # "insert"
           \/ command[s] = "import" /\ at = "insert"
    PROVE  GrowOK'
<1>1. /\ pc'[s] = at /\ command'[s] = command[s] /\ snapshot'[s] = snapshot[s] /\ own'[s] = own[s]
      /\ self'[s] = obj /\ todo'[s] = todo[s] /\ OthersWait(s)
  BY DEF Done, Has
<1>2. OwnOK(s)'
  BY <1>1, OwnKept
<1>3. QED
  BY <1>1, <1>2, OwnStays

LEMMA RowStepGrows ==
    ASSUME Typed, WorkOK, GrowOK, NEW s \in Script, RowStep(s)
    PROVE  GrowOK' /\ rows' = rows
<1>1. CASE NextPhoto(s)
  <2>1. /\ pc[s] = "line" /\ command[s] = "import" /\ rows' = rows
        /\ Done(s, "big", command[s], snapshot[s], own[s], self[s], photo[s], num[s], todo[s])
    BY <1>1, NextPhotoDoes
  <2>2. QED
    BY <2>1, KeepsGrow
<1>2. CASE NextLine(s)
  <2>1. PICK i \in Item :
             /\ pc[s] = "line" /\ command[s] = "import" /\ rows' = rows
             /\ Done(s, "insert", command[s], snapshot[s], own[s], [id |-> 0, item |-> i, photos |-> 0], photo[s], num[s], todo[s])
    BY <1>2, NextLineDoes
  <2>2. QED
    BY <2>1, KeepsGrow
<1>3. CASE LastLine(s)
  <2>1. /\ pc[s] = "line" /\ command[s] = "import" /\ rows' = rows
        /\ Done(s, "commit", command[s], snapshot[s], own[s], self[s], photo[s], num[s], todo[s])
    BY <1>3, LastLineDoes
  <2>2. QED
    BY <2>1, KeepsGrow
<1>4. QED
  BY <1>1, <1>2, <1>3, InsertGrows, SaveGrows, EditGrows, MoveGrows DEF RowStep

LEMMA FileStepGrows ==
    ASSUME Typed, WorkOK, GrowOK, NEW s \in Script, FileStep(s)
    PROVE  GrowOK' /\ rows' = rows
<1>1. CASE ConvertBig(s)
  <2>1. pc[s] = "big" /\ rows' = rows
        /\ \E p \in Photo : Done(s, "preview", command[s], snapshot[s], own[s], self[s], p, num[s], todo[s])
    BY <1>1, ConvertBigDoes
  <2>2. PICK p \in Photo : Done(s, "preview", command[s], snapshot[s], own[s], self[s], p, num[s], todo[s])
    BY <2>1
  <2>3. QED
    BY <2>1, <2>2, KeepsGrow
<1>2. CASE ConvertPreview(s)
  <2>1. /\ pc[s] = "preview" /\ rows' = rows
        /\ Done(s, "save", command[s], snapshot[s], own[s], [id |-> self[s].id, item |-> self[s].item, photos |-> self[s].photos + 1],
                photo[s], num[s], todo[s])
    BY <1>2, ConvertPreviewDoes
  <2>2. QED
    BY <2>1, KeepsGrow
<1>3. CASE UnlinkBig(s)
  <2>1. /\ pc[s] = "unlinkBig" /\ rows' = rows
        /\ Done(s, "unlinkPreview", command[s], snapshot[s], own[s], self[s], photo[s], num[s], todo[s])
    BY <1>3, UnlinkBigDoes
  <2>2. QED
    BY <2>1, KeepsGrow
<1>4. ASSUME pc[s] # "insert", rows' = rows, NEW n, Renumbers(s, n) PROVE GrowOK'
  <2>1. CASE n + 1 < self[s].photos
    <3>1. Done(s, "renameBig", command[s], snapshot[s], own[s], self[s], photo[s], n, todo[s])
      BY <1>4, <2>1 DEF Renumbers
    <3>2. QED
      BY <1>4, <3>1, KeepsGrow
  <2>2. CASE ~(n + 1 < self[s].photos)
    <3>1. Done(s, "save", command[s], snapshot[s], own[s],
               [id |-> self[s].id, item |-> self[s].item, photos |-> self[s].photos - 1], photo[s], n, todo[s])
      BY <1>4, <2>2 DEF Renumbers
    <3>2. QED
      BY <1>4, <3>1, KeepsGrow
  <2>3. QED
    BY <2>1, <2>2
<1>5. CASE UnlinkPreview(s)
  <2>1. pc[s] = "unlinkPreview" /\ rows' = rows /\ Renumbers(s, num[s])
    BY <1>5, UnlinkPreviewDoes
  <2>2. QED
    BY <1>4, <2>1
<1>6. CASE RenameBig(s)
  <2>1. /\ pc[s] = "renameBig" /\ rows' = rows
        /\ Done(s, "renamePreview", command[s], snapshot[s], own[s], self[s], photo[s], num[s], todo[s])
    BY <1>6, RenameBigDoes
  <2>2. QED
    BY <2>1, KeepsGrow
<1>7. CASE RenamePreview(s)
  <2>1. pc[s] = "renamePreview" /\ rows' = rows /\ Renumbers(s, num[s] + 1)
    BY <1>7, RenamePreviewDoes
  <2>2. QED
    BY <1>4, <2>1
<1>8. QED
  BY <1>1, <1>2, <1>3, <1>5, <1>6, <1>7 DEF FileStep

\* What a transaction has done becomes the rows: those there were, and the ids
\* of an import, which are next.
LEMMA CommitRows ==
    ASSUME Typed, WorkOK, GrowOK, NEW s \in Script, rows' = Now(s)
    PROVE  /\ Grows /\ RowsOK' /\ \A id \in Ids(rows') : id \in Ids(rows) \cup DOMAIN own[s]
           /\ command[s] # "import" => Ids(rows') = Ids(rows)
           /\ \A id \in Ids(rows') : IF id \in DOMAIN own[s] THEN rows'[id] = own[s][id] ELSE rows'[id] = rows[id]
<1>1. OwnOK(s) /\ own[s] \in OwnSet /\ command[s] \in Command /\ HandOK(s) /\ RowsOK
  BY CommandOf DEF GrowOK, Typed
<1> DEFINE mine == DOMAIN own[s]
<1>2. mine \subseteq Id
  BY <1>1, OwnOf
<1>3. \A id \in Id : rows'[id] = IF id \in mine THEN own[s][id] ELSE rows[id]
  BY NowOf
<1>4. Ids(rows') = {id \in Id : rows'[id] # NoRow} /\ Ids(rows) = {id \in Id : rows[id] # NoRow}
  BY DEF Ids
<1>5. CASE command[s] = "import"
  <2>1. mine \cap Ids(rows) = {} /\ Numbered(Ids(rows) \cup mine) /\ \A id \in mine : own[s][id] # NoRow /\ id <= MaxRows
    BY <1>1, <1>5 DEF OwnOK, ImportOK
  <2>2. Ids(rows') = Ids(rows) \cup mine
    BY <1>2, <1>3, <1>4, <2>1
  <2>3. Grows
    BY <1>3, <1>4, <2>1, <2>2 DEF Grows
  <2>4. RowsOK'
    BY <1>1, <2>1, <2>2 DEF RowsOK
  <2>5. QED
    BY <1>3, <1>4, <1>5, <2>2, <2>3, <2>4
<1>6. CASE command[s] # "import"
  <2>1. \A id \in mine : own[s][id] # NoRow /\ Same(id, own[s][id].item)
    <3>1. CASE command[s] \in {"photo add", "photo remove", "edit"}
      BY <1>1, <3>1 DEF OwnOK, ChangeOK
    <3>2. CASE command[s] \in {"none", "move"}
      <4>1. own[s] = <<>>
        BY <1>1, <3>2 DEF OwnOK, MoveOK, HandOK
      <4>2. QED
        BY <4>1, EmptyOwn
    <3>3. QED
      BY <1>1, <1>6, <3>1, <3>2 DEF Command
  <2>2. Ids(rows') = Ids(rows)
    BY <1>2, <1>3, <1>4, <2>1 DEF Same
  <2>3. Grows
    BY <1>3, <1>4, <2>1, <2>2 DEF Grows, Same
  <2>4. RowsOK'
    BY <1>1, <2>2 DEF RowsOK
  <2>5. QED
    BY <1>3, <1>4, <2>2, <2>3, <2>4
<1>7. QED
  BY <1>5, <1>6

LEMMA IdleFits ==
    ASSUME NEW s \in Script, Done(s, "idle", "none", Nothing, <<>>, Nobody, Missing, 0, <<>>)
    PROVE  OwnOK(s)' /\ DOMAIN own'[s] = {}
<1>1. command'[s] = "none" /\ snapshot'[s] = Nothing /\ own'[s] = <<>> /\ DOMAIN own'[s] = {}
  BY EmptyOwn DEF Done, Has
<1>2. Ids(snapshot'[s]) = {}
  BY <1>1 DEF Ids, Nothing
<1>3. SnapshotOK(s)'
  BY <1>2 DEF SnapshotOK, Numbered
<1>4. ImportOK(s)' /\ ChangeOK(s)' /\ SelfOK(s)' /\ EditOK(s)' /\ MoveOK(s)'
  BY <1>1 DEF ImportOK, ChangeOK, SelfOK, EditOK, MoveOK
<1>5. QED
  BY <1>1, <1>3, <1>4 DEF OwnOK

LEMMA EndGrows ==
    ASSUME Typed, WorkOK, GrowOK, NEW s \in Script, Commit(s) \/ Dies(s)
    PROVE  GrowOK' /\ Grows /\ (rows' = rows \/ rows' = Now(s))
<1>1. Done(s, "idle", "none", Nothing, <<>>, Nobody, Missing, 0, <<>>)
  BY EndsDoes DEF Commit, Dies
<1>2. OwnOK(s)' /\ DOMAIN own'[s] = {} /\ OthersWait(s)
  BY <1>1, IdleFits DEF Done
<1>3. CASE Commit(s)
  <2>1. rows' = Now(s)
    BY <1>3 DEF Commit
  <2>2. QED
    BY <1>2, <2>1, CommitRows, OthersGrow
<1>4. CASE Dies(s)
  <2>1. rows' = rows
    BY <1>4 DEF Dies
  <2>2. QED
    BY <1>2, <2>1, RowsStay DEF Grows
<1>5. QED
  BY <1>3, <1>4

LEMMA GrowStep ==
    ASSUME Typed, WorkOK, GrowOK, Next
    PROVE  GrowOK' /\ Grows
<1>1. PICK s \in Script : Begins(s) \/ RowStep(s) \/ FileStep(s) \/ Commit(s) \/ Dies(s)
  BY DEF Next
<1>2. rows' = rows => Grows
  BY DEF Grows
<1>3. QED
  BY <1>1, <1>2, BeginsGrow, RowStepGrows, FileStepGrows, EndGrows

-----------------------------------------------------------------------------
(* At first: what scripts run one at a time have made *)

LEMMA InitRows ==
    ASSUME Init
    PROVE  /\ rows \in [Id -> Entry] /\ RowsOK /\ big \in Album /\ preview = big
           /\ \A id \in Ids(rows) : /\ rows[id].item \in Item /\ rows[id].photos \in 0..MaxPhotos
                                    /\ \A k \in Index : k < rows[id].photos => big[rows[id].item][k] = k + 1
           /\ \A i \in Item : \A k \in Index : big[i][k] \in {k + 1, Missing}
<1>1. PICK n \in 0..MaxRows : \E items \in [1..n -> Item], photos \in [1..n -> 0..MaxPhotos] :
           /\ rows = [id \in Id |-> IF id > n THEN NoRow ELSE [item |-> items[id], photos |-> photos[id]]]
           /\ big = [i \in Item |-> [k \in Index |->
                        IF \E id \in 1..n : items[id] = i /\ k < photos[id] THEN k + 1 ELSE Missing]]
  BY DEF Init
<1>2. PICK items \in [1..n -> Item], photos \in [1..n -> 0..MaxPhotos] :
           /\ rows = [id \in Id |-> IF id > n THEN NoRow ELSE [item |-> items[id], photos |-> photos[id]]]
           /\ big = [i \in Item |-> [k \in Index |->
                        IF \E id \in 1..n : items[id] = i /\ k < photos[id] THEN k + 1 ELSE Missing]]
  BY <1>1
<1>3. MaxRows \in Nat /\ n \in Nat /\ n <= MaxRows /\ Id = 1..(MaxRows + 1)
  BY Numbers DEF Id
<1>4. \A id \in Id : (id > n <=> id \notin 1..n) /\ (id \in 1..n => ~(id > n))
  BY <1>3
<1>5. /\ \A id \in Id : id \notin 1..n => rows[id] = NoRow
      /\ \A id \in 1..n : id \in Id /\ rows[id] = [item |-> items[id], photos |-> photos[id]]
  <2>1. 1..n \subseteq Id
    BY <1>3
  <2>2. QED
    BY <1>2, <1>4, <2>1
<1>6. \A id \in 1..n : /\ items[id] \in Item /\ photos[id] \in 0..MaxPhotos /\ rows[id] \in Row /\ rows[id] # NoRow
                       /\ rows[id].item = items[id] /\ rows[id].photos = photos[id]
  <2>1. ASSUME NEW id \in 1..n
        PROVE  /\ items[id] \in Item /\ photos[id] \in 0..MaxPhotos /\ rows[id] \in Row /\ rows[id] # NoRow
               /\ rows[id].item = items[id] /\ rows[id].photos = photos[id]
    <3>1. items[id] \in Item /\ photos[id] \in 0..MaxPhotos
      OBVIOUS
    <3>2. rows[id] = [item |-> items[id], photos |-> photos[id]]
      BY <1>5
    <3>3. rows[id] \in Row
      BY <3>1, <3>2 DEF Row
    <3>4. QED
      BY <3>1, <3>2, <3>3, Numbers
  <2>2. QED
    BY <2>1
<1>7. Ids(rows) = 1..n
  BY <1>5, <1>6 DEF Ids
<1>8. rows \in [Id -> Entry]
  <2>1. \A id \in Id : rows[id] \in Entry
    BY <1>5, <1>6, Numbers DEF Entry
  <2>2. rows = [id \in Id |-> rows[id]]
    BY <1>2
  <2>3. QED
    BY <2>1, <2>2
<1>9. RowsOK
  BY <1>3, <1>7 DEF RowsOK, Numbered
<1>10. \A k \in Index : k + 1 \in Photo
  <2>1. Cardinality(Script) \in Nat /\ MaxPhotos \in Nat
    BY Numbers, FS_CardinalityType
  <2>2. QED
    BY <2>1 DEF Index, Photo
<1>11. big \in Album
  BY <1>2, <1>10 DEF Album
<1>12. \A i \in Item : \A k \in Index : big[i][k] \in {k + 1, Missing}
  BY <1>2
<1>13. ASSUME NEW id \in Ids(rows), NEW k \in Index, k < rows[id].photos PROVE big[rows[id].item][k] = k + 1
  <2>1. id \in 1..n /\ items[id] = rows[id].item /\ k < photos[id] /\ rows[id].item \in Item
    BY <1>6, <1>7, <1>13
  <2>2. QED
    BY <1>2, <2>1
<1>14. preview = big
  BY DEF Init
<1>15. QED
  BY <1>6, <1>7, <1>8, <1>9, <1>11, <1>12, <1>13, <1>14

LEMMA InitTyped ==
    ASSUME Init
    PROVE  Typed /\ WorkOK /\ GrowOK
<1>1. /\ pc = [s \in Script |-> "idle"] /\ command = [s \in Script |-> "none"] /\ snapshot = [s \in Script |-> Nothing]
      /\ own = [s \in Script |-> <<>>] /\ self = [s \in Script |-> Nobody] /\ photo = [s \in Script |-> Missing]
      /\ num = [s \in Script |-> 0] /\ todo = [s \in Script |-> <<>>] /\ runs = 0 /\ spoiled = {} /\ removed = {}
  BY DEF Init
<1>2. /\ "idle" \in Place /\ "none" \in Command /\ Nothing \in [Id -> Entry] /\ 0 \in 0..MaxPhotos /\ 0 \in 0..MaxRuns
      /\ Missing \in Photo \cup {Missing} /\ <<>> \in OwnSet /\ <<>> \in Seq(ObjectSet) \cup Seq(MoveSet)
  BY Numbers, EmptyOwn, EmptyList DEF Place, Command, Nothing
<1>3. Typed
  BY <1>1, <1>2, InitRows, NobodyTyped DEF Typed
<1>4. ASSUME NEW s \in Script PROVE ScriptOK(s)
  <2>1. /\ pc[s] = "idle" /\ command[s] = "none" /\ own[s] = <<>> /\ photo[s] = Missing
        /\ self[s] = Nobody /\ todo[s] = <<>>
    BY <1>1
  <2>2. PlaceOK(s)
    BY <2>1 DEF PlaceOK
  <2>3. HandOK(s)
    BY <2>1 DEF HandOK, Adding, Removing, Renaming, Photographing
  <2>4. QED
    BY <2>2, <2>3 DEF ScriptOK
<1>5. ASSUME NEW s \in Script PROVE OwnOK(s) /\ DOMAIN own[s] = {}
  <2>1. command[s] = "none" /\ snapshot[s] = Nothing /\ DOMAIN own[s] = {}
    BY <1>1, EmptyOwn
  <2>2. Ids(snapshot[s]) = {}
    BY <2>1 DEF Ids, Nothing
  <2>3. QED
    BY <2>1, <2>2 DEF OwnOK, SnapshotOK, Numbered, ImportOK, ChangeOK, SelfOK, EditOK, MoveOK
<1>6. GrowOK
  BY <1>5, InitRows DEF GrowOK
<1>7. QED
  BY <1>3, <1>4, <1>6 DEF WorkOK

(* What scripts have in hand fits what they do, the ids of the rows are the  *)
(* first ones, those an import has are next, and all else that scripts have *)
(* is a row's that is still there: that is kept by every step.               *)
THEOREM GrowInductive == Spec => [](Typed /\ WorkOK /\ GrowOK)
<1>1. Init => Typed /\ WorkOK /\ GrowOK
  BY InitTyped
<1>2. ASSUME Typed, WorkOK, GrowOK, [Next]_vars PROVE Typed' /\ WorkOK' /\ GrowOK'
  <2>1. CASE Next
    BY <1>2, <2>1, TypedStep, GrowStep
  <2>2. CASE UNCHANGED vars
    <3>1. /\ UNCHANGED <<rows, big, preview, runs, pc, command>>
          /\ UNCHANGED <<snapshot, own, self, photo, num, todo, spoiled, removed>>
      BY <2>2 DEF vars
    <3>2. Typed'
      BY <1>2, <3>1 DEF Typed
    <3>3. WorkOK'
      BY <1>2, <3>1 DEF WorkOK, ScriptOK, PlaceOK, HandOK
    <3>4. GrowOK'
      <4>1. ASSUME NEW s \in Script PROVE OwnOK(s)'
        <5>1. OwnOK(s)
          BY <1>2 DEF GrowOK
        <5>2. SnapshotOK(s)'
          BY <3>1, <5>1 DEF OwnOK, SnapshotOK
        <5>3. ImportOK(s)'
          BY <3>1, <5>1 DEF OwnOK, ImportOK
        <5>4. ChangeOK(s)'
          BY <3>1, <5>1 DEF OwnOK, ChangeOK, Same
        <5>5. SelfOK(s)'
          BY <3>1, <5>1 DEF OwnOK, SelfOK, Same
        <5>6. EditOK(s)'
          BY <3>1, <5>1 DEF OwnOK, EditOK, Same
        <5>7. MoveOK(s)'
          BY <3>1, <5>1 DEF OwnOK, MoveOK, Harmless, Stuck
        <5>8. QED
          BY <5>2, <5>3, <5>4, <5>5, <5>6, <5>7 DEF OwnOK
      <4>2. RowsOK' /\ \A s, t \in Script : s # t => DOMAIN own'[s] \cap DOMAIN own'[t] = {}
        BY <1>2, <3>1 DEF GrowOK, RowsOK
      <4>3. QED
        BY <4>1, <4>2 DEF GrowOK
    <3>5. QED
      BY <3>2, <3>3, <3>4
  <2>3. QED
    BY <1>2, <2>1, <2>2
<1>3. QED
  BY <1>1, <1>2, PTL DEF Spec

(* TypeOK of the catalogue, for any scripts, items and bounds. *)
THEOREM TypeCorrect == Spec => []TypeOK
<1>1. ASSUME Typed PROVE TypeOK
  <2>1. \A s \in Script : DOMAIN own[s] \subseteq Id /\ \A id \in DOMAIN own[s] : own[s][id] \in Row \cup {NoRow}
    BY <1>1, OwnOf DEF Typed, Entry
  <2>2. QED
    BY <1>1, <2>1 DEF Typed, TypeOK, Entry, Place, ObjectSet
<1>2. QED
  BY <1>1, GrowInductive, PTL

-----------------------------------------------------------------------------
(* The collection only grows *)

ShownTo(T, ids, n) == [k \in 1..n |-> T[CHOOSE id \in ids : Cardinality({x \in ids : x >= id}) = k].item]
Shown(T) == ShownTo(T, Ids(T), Cardinality(Ids(T)))

NewestFirst(T, n) == [k \in 1..n |-> T[(n - k) + 1].item]

\* Rows with the ids 1 to n are shown from the n-th on.
LEMMA ShownOf ==
    ASSUME NEW T \in [Id -> Entry], Numbered(Ids(T))
    PROVE  \E n \in Nat : Ids(T) = 1..n /\ Shown(T) = NewestFirst(T, n)
<1>1. PICK n \in Nat : Ids(T) = 1..n
  <2>1. CASE Ids(T) = {}
    BY <2>1
  <2>2. CASE Ids(T) # {}
    <3>1. Ids(T) \subseteq 1..(MaxRows + 1) /\ MaxRows + 1 \in Nat
      BY Numbers DEF Ids, Id
    <3>2. PICK n \in Ids(T) : \A j \in Ids(T) : j <= n
      BY <2>2, <3>1, Greatest
    <3>3. n \in Nat /\ \A j \in Ids(T) : j \in 1..n
      BY <3>1, <3>2
    <3>4. \A j \in 1..n : j \in Ids(T)
      BY <3>2 DEF Numbered
    <3>5. QED
      BY <3>3, <3>4
  <2>3. QED
    BY <2>1, <2>2
<1>2. Cardinality(1..n) = n
  <2>1. n \in Int /\ 1 \in Int
    OBVIOUS
  <2>2. Cardinality(1..n) = IF 1 > n THEN 0 ELSE n - 1 + 1
    BY <2>1, FS_Interval
  <2>3. QED
    BY <2>2
<1>3. ASSUME NEW id \in 1..n PROVE Cardinality({x \in 1..n : x >= id}) = (n - id) + 1
  <2>1. {x \in 1..n : x >= id} = id..n /\ id \in Int /\ n \in Int /\ ~(id > n)
    OBVIOUS
  <2>2. Cardinality(id..n) = n - id + 1
    BY <2>1, FS_Interval
  <2>3. QED
    BY <2>1, <2>2
<1>4. ASSUME NEW k \in 1..n PROVE (CHOOSE id \in 1..n : Cardinality({x \in 1..n : x >= id}) = k) = (n - k) + 1
  <2>1. (n - k) + 1 \in 1..n /\ (n - ((n - k) + 1)) + 1 = k
    OBVIOUS
  <2>2. Cardinality({x \in 1..n : x >= (n - k) + 1}) = k
    BY <1>3, <2>1
  <2>3. ASSUME NEW id \in 1..n, Cardinality({x \in 1..n : x >= id}) = k PROVE id = (n - k) + 1
    <3>1. (n - id) + 1 = k
      BY <1>3, <2>3
    <3>2. QED
      BY <3>1
  <2>4. QED
    BY <2>1, <2>2, <2>3, Zenon
<1>5. Shown(T) = [k \in 1..n |-> T[CHOOSE id \in 1..n : Cardinality({x \in 1..n : x >= id}) = k].item]
  <2>1. Shown(T) = ShownTo(T, 1..n, n)
    BY <1>1, <1>2 DEF Shown
  <2>2. QED
    BY <2>1, Zenon DEF ShownTo
<1>6. \A k \in 1..n : T[CHOOSE id \in 1..n : Cardinality({x \in 1..n : x >= id}) = k].item = T[(n - k) + 1].item
  BY <1>4, Zenon
<1>7. Shown(T) = NewestFirst(T, n)
  BY <1>5, <1>6, Zenon DEF NewestFirst
<1>8. QED
  BY <1>1, <1>7

LEMMA ReverseOf ==
    ASSUME NEW n \in Nat, NEW T, \A i \in 1..n : T[i].item \in Item
    PROVE  /\ Reverse(NewestFirst(T, n)) \in Seq(Item) /\ Len(Reverse(NewestFirst(T, n))) = n
           /\ \A i \in 1..n : Reverse(NewestFirst(T, n))[i] = T[i].item
<1> DEFINE C == NewestFirst(T, n)
<1>1. \A k \in 1..n : (n - k) + 1 \in 1..n /\ (n - ((n - k) + 1)) + 1 = k
  OBVIOUS
<1>2. C \in [1..n -> Item] /\ \A k \in 1..n : C[k] = T[(n - k) + 1].item
  BY <1>1 DEF NewestFirst
<1> HIDE DEF C
<1>3. C \in Seq(Item)
  BY <1>2, SeqDef
<1>4. Len(C) = n
  BY <1>2, <1>3, LenProperties
<1>5. Reverse(C) = [i \in 1..n |-> C[(n - i) + 1]]
  BY <1>4 DEF Reverse
<1>6. \A i \in 1..n : C[(n - i) + 1] = T[i].item
  BY <1>1, <1>2
<1>7. Reverse(C) \in [1..n -> Item] /\ \A i \in 1..n : Reverse(C)[i] = T[i].item
  BY <1>5, <1>6
<1>8. Reverse(C) \in Seq(Item)
  BY <1>7, SeqDef
<1>9. QED
  BY <1>7, <1>8, LenProperties DEF C

LEMMA ShownGrows ==
    ASSUME NEW T \in [Id -> Entry], NEW U \in [Id -> Entry], Numbered(Ids(T)), Numbered(Ids(U)),
           \A id \in Ids(T) : id \in Ids(U) /\ U[id].item = T[id].item
    PROVE  IsSuffix(Shown(T), Shown(U))
<1>0. /\ \A id \in Ids(T) : T[id].item \in Item
      /\ \A id \in Ids(U) : U[id].item \in Item
  BY DEF Ids, Entry, Row
<1>1. PICK n \in Nat : Ids(T) = 1..n /\ Shown(T) = NewestFirst(T, n)
  BY ShownOf
<1>2. PICK m \in Nat : Ids(U) = 1..m /\ Shown(U) = NewestFirst(U, m)
  BY ShownOf
<1> DEFINE R == Reverse(Shown(T))
           S == Reverse(Shown(U))
<1>3. R \in Seq(Item) /\ Len(R) = n /\ \A i \in 1..n : R[i] = T[i].item
  <2>1. \A i \in 1..n : T[i].item \in Item
    BY <1>0, <1>1
  <2>2. QED
    BY <1>1, <2>1, ReverseOf
<1>4. S \in Seq(Item) /\ Len(S) = m /\ \A i \in 1..m : S[i] = U[i].item
  <2>1. \A i \in 1..m : U[i].item \in Item
    BY <1>0, <1>2
  <2>2. QED
    BY <1>2, <2>1, ReverseOf
<1> HIDE DEF R, S
<1>5. n <= m
  <2>1. CASE n = 0
    BY <2>1
  <2>2. CASE n # 0
    <3>1. n \in 1..n
      BY <2>2
    <3>2. n \in 1..m
      BY <1>1, <1>2, <3>1
    <3>3. QED
      BY <3>2
  <2>3. QED
    BY <2>1, <2>2
<1>6. \A i \in 1..n : i \in 1..m /\ R[i] = S[i] /\ R[i] \in Item
  <2>1. \A i \in 1..n : i \in 1..m
    BY <1>5
  <2>2. \A i \in 1..n : U[i].item = T[i].item /\ T[i].item \in Item
    BY <1>0, <1>1
  <2>3. QED
    BY <1>3, <1>4, <2>1, <2>2
<1>7. SubSeq(R, 1, n) = SubSeq(S, 1, n)
  <2>1. 1 \in Int /\ n \in Int /\ (n - 1) + 1 = n /\ \A i \in 1..n : (1 + i) - 1 = i
    OBVIOUS
  <2>2. \A i \in 1..n : R[i] \in Item /\ S[i] \in Item
    BY <1>6
  <2>3. /\ SubSeq(R, 1, n) \in Seq(Item) /\ Len(SubSeq(R, 1, n)) = IF 1 <= n THEN n - 1 + 1 ELSE 0
        /\ \A i \in 1..(n - 1 + 1) : SubSeq(R, 1, n)[i] = R[1 + i - 1]
    BY <2>1, <2>2, SubSeqProperties
  <2>4. /\ SubSeq(S, 1, n) \in Seq(Item) /\ Len(SubSeq(S, 1, n)) = IF 1 <= n THEN n - 1 + 1 ELSE 0
        /\ \A i \in 1..(n - 1 + 1) : SubSeq(S, 1, n)[i] = S[1 + i - 1]
    BY <2>1, <2>2, SubSeqProperties
  <2>5. /\ Len(SubSeq(R, 1, n)) = n /\ Len(SubSeq(S, 1, n)) = n
        /\ \A i \in 1..n : SubSeq(R, 1, n)[i] = SubSeq(S, 1, n)[i]
    BY <1>6, <2>1, <2>3, <2>4
  <2>6. QED
    BY <2>3, <2>4, <2>5, SeqEqual
<1>8. IsPrefix(R, S)
  BY <1>3, <1>4, <1>5, <1>7 DEF IsPrefix
<1>9. QED
  BY <1>8 DEF IsSuffix, R, S

\* Rows that stay where they are leave an item no fewer listings.
LEMMA ListingsGrow ==
    ASSUME Grows, NEW i
    PROVE  Cardinality(Listings(i)) <= Cardinality(Listings(i)')
<1> DEFINE A == Listings(i)
           B == Listings(i)'
<1>1. A \subseteq B
  BY DEF Listings, Grows
<1>2. IsFiniteSet(B)
  <2>1. B \subseteq Id
    BY DEF Listings, Ids
  <2>2. IsFiniteSet(Id)
    BY Numbers, FS_Interval DEF Id
  <2>3. QED
    BY <2>1, <2>2, FS_Subset, Zenon
<1> HIDE DEF A, B
<1>3. Cardinality(A) <= Cardinality(B)
  BY <1>1, <1>2, FS_Subset
<1>4. QED
  BY <1>3 DEF A, B

(* Whatever scripts run together and wherever they die, an item once listed  *)
(* stays listed as often, against an import that read the last id before     *)
(* another used it as against an object saved by its id long after it was    *)
(* read, and the collection grows at its head only, a move excepted (the     *)
(* proof needs no exception: the UPDATEs of a move never do their work).     *)
THEOREM CollectionKept == Spec => ItemsKept
<1> DEFINE Kept ==
        /\ \A i \in Item : Cardinality(Listings(i)) <= Cardinality(Listings(i)')
        /\ \/ IsSuffix(Collection, Collection')
           \/ \E s \in Script : pc[s] = "commit" /\ command[s] = "move" /\ pc'[s] = "idle"
<1>1. ASSUME Typed, WorkOK, GrowOK, Typed', GrowOK', [Next]_vars PROVE [Kept]_rows
  <2>1. CASE Next
    <3>1. rows \in [Id -> Entry] /\ rows' \in [Id -> Entry]
      BY <1>1 DEF Typed
    <3>2. Numbered(Ids(rows)) /\ Numbered(Ids(rows'))
      BY <1>1 DEF GrowOK, RowsOK
    <3>3. \A id \in Ids(rows) : id \in Ids(rows') /\ rows'[id].item = rows[id].item
      BY <1>1, <2>1, GrowStep DEF Grows
    <3>4. IsSuffix(Shown(rows), Shown(rows'))
      BY <3>1, <3>2, <3>3, ShownGrows
    <3>5. Collection = Shown(rows) /\ Collection' = Shown(rows')
      BY Zenon DEF Collection, Shown, ShownTo
    <3>6. \A i \in Item : Cardinality(Listings(i)) <= Cardinality(Listings(i)')
      BY <1>1, <2>1, GrowStep, ListingsGrow
    <3>7. QED
      BY <3>4, <3>5, <3>6
  <2>2. CASE UNCHANGED vars
    BY <2>2 DEF vars
  <2>3. QED
    BY <1>1, <2>1, <2>2
<1>2. QED
  BY <1>1, GrowInductive, PTL DEF Spec, ItemsKept

-----------------------------------------------------------------------------
(* The photos that are shown have files *)

\* The files of an item no photo was removed from.
Exist(b, p, gone, i, n) == i \in Item \ gone => \A k \in 0..(n - 1) : b[i][k] # Missing /\ p[i][k] # Missing

\* So have the photos of rows that a script is still to save, or has saved.
HandFull(s) ==
    /\ command[s] = "photo remove" => self[s].item \in removed
    /\ Exist(big, preview, removed, self[s].item, self[s].photos)
    /\ pc[s] = "preview" /\ self[s].item \notin removed => big[self[s].item][self[s].photos] # Missing
    /\ \A id \in DOMAIN own[s] : Exist(big, preview, removed, own[s][id].item, own[s][id].photos)
    /\ command[s] = "edit" => \A k \in 1..Len(todo[s]) : Exist(big, preview, removed, todo[s][k].item, todo[s][k].photos)
FullOK ==
    /\ \A id \in Ids(rows) : Exist(big, preview, removed, rows[id].item, rows[id].photos)
    /\ \A s \in Script : HandFull(s)

\* No file of such an item goes.
FilesStay ==
    /\ removed \subseteq removed'
    /\ \A i \in Item \ removed' : \A k \in Index :
        (big[i][k] # Missing => big'[i][k] # Missing) /\ (preview[i][k] # Missing => preview'[i][k] # Missing)

LEMMA ExistStays ==
    ASSUME FilesStay, NEW i, NEW n \in 0..MaxPhotos, Exist(big, preview, removed, i, n)
    PROVE  Exist(big', preview', removed', i, n)
<1>1. \A k \in 0..(n - 1) : k \in Index
  <2>1. MaxPhotos \in Nat
    BY Numbers
  <2>2. QED
    BY <2>1 DEF Index
<1>2. QED
  BY <1>1 DEF Exist, FilesStay

\* With the same files of the item, as many photos exist as did.
LEMMA Counts ==
    ASSUME Typed, NEW s \in Script
    PROVE  /\ self[s].photos \in 0..MaxPhotos
           /\ \A id \in DOMAIN own[s] : own[s][id].photos \in 0..MaxPhotos
           /\ command[s] = "edit" /\ WorkOK => \A k \in 1..Len(todo[s]) : todo[s][k].photos \in 0..MaxPhotos
           /\ \A id \in Ids(rows) : rows[id].photos \in 0..MaxPhotos
<1>1. \A e \in Entry : e.photos \in 0..MaxPhotos
  BY Numbers DEF Entry, Row, NoRow
<1>2. self[s].photos \in 0..MaxPhotos
  BY HandOf
<1>3. \A id \in DOMAIN own[s] : own[s][id].photos \in 0..MaxPhotos
  <2>1. own[s] \in OwnSet
    BY HandOf
  <2>2. QED
    BY <1>1, <2>1, OwnOf
<1>4. \A id \in Ids(rows) : rows[id].photos \in 0..MaxPhotos
  BY <1>1 DEF Typed, Ids
<1>5. ASSUME command[s] = "edit", WorkOK PROVE \A k \in 1..Len(todo[s]) : todo[s][k].photos \in 0..MaxPhotos
  <2>1. todo[s] \in Seq(ListedSet)
    BY <1>5, CommandOf DEF HandOK
  <2>2. \A k \in 1..Len(todo[s]) : todo[s][k] \in ListedSet
    BY <2>1, ElementOfSeq
  <2>3. QED
    BY <2>2 DEF ListedSet
<1>6. QED
  BY <1>2, <1>3, <1>4, <1>5

LEMMA OthersFull ==
    ASSUME Typed, WorkOK, FullOK, NEW s \in Script, FilesStay, OthersWait(s), HandFull(s)',
           rows' = rows \/ (\A id \in Ids(rows') : Exist(big', preview', removed', rows'[id].item, rows'[id].photos))
    PROVE  FullOK'
<1>1. ASSUME NEW t \in Script, t # s PROVE HandFull(t)'
  <2>1. HandFull(t) /\ Waits(t)
    BY <1>1 DEF FullOK, OthersWait
  <2>2. removed \subseteq removed'
    BY DEF FilesStay
  <2>3. PICK obj : obj = self[t]
    OBVIOUS
  <2>4. Exist(big', preview', removed', obj.item, obj.photos)
    BY <2>1, <2>3, Counts, ExistStays DEF HandFull
  <2>5. \A id \in DOMAIN own'[t] : Exist(big', preview', removed', own'[t][id].item, own'[t][id].photos)
    <3>1. ASSUME NEW id \in DOMAIN own[t], NEW row, row = own[t][id] PROVE Exist(big', preview', removed', row.item, row.photos)
      BY <2>1, <3>1, Counts, ExistStays DEF HandFull
    <3>2. own'[t] = own[t]
      BY <2>1 DEF Waits
    <3>3. QED
      BY <3>1, <3>2 DEF Exist
  <2>6. command'[t] = "edit" => \A k \in 1..Len(todo'[t]) : Exist(big', preview', removed', todo'[t][k].item, todo'[t][k].photos)
    <3>1. ASSUME command[t] = "edit", NEW k \in 1..Len(todo[t]), NEW row, row = todo[t][k] PROVE Exist(big', preview', removed', row.item, row.photos)
      BY <2>1, <3>1, Counts, ExistStays DEF HandFull
    <3>2. todo'[t] = todo[t] /\ command'[t] = command[t]
      BY <2>1 DEF Waits
    <3>3. QED
      BY <3>1, <3>2 DEF Exist
  <2>7. self'[t] = obj /\ (command'[t] = "photo remove" => self'[t].item \in removed')
    BY <2>1, <2>2, <2>3 DEF HandFull, Waits
  <2>8. pc'[t] = "preview" /\ self'[t].item \notin removed' => big'[self'[t].item][self'[t].photos] # Missing
    <3>1. SUFFICES ASSUME pc[t] = "preview", obj.item \notin removed' PROVE big'[obj.item][obj.photos] # Missing
      BY <2>1, <2>7 DEF Waits
    <3>2. obj.item \in Item /\ obj.photos \in Index
      <4>1. obj.item \in Item /\ obj.photos < MaxPhotos
        BY <2>3, <3>1, CommandOf DEF HandOK, Photographing, Adding
      <4>2. obj.photos \in 0..MaxPhotos
        BY <2>3, HandOf
      <4>3. QED
        BY <4>1, <4>2, IndexOf
    <3>3. big[obj.item][obj.photos] # Missing
      BY <2>1, <2>2, <2>3, <3>1 DEF HandFull
    <3>4. QED
      BY <3>1, <3>2, <3>3 DEF FilesStay
  <2>9. Exist(big', preview', removed', self'[t].item, self'[t].photos)
    BY <2>4, <2>7 DEF Exist
  <2>10. QED
    BY <2>5, <2>6, <2>7, <2>8, <2>9 DEF HandFull
<1>2. ASSUME NEW id \in Ids(rows'), rows' = rows PROVE Exist(big', preview', removed', rows'[id].item, rows'[id].photos)
  <2>1. PICK row : row = rows[id]
    OBVIOUS
  <2>2. id \in Ids(rows)
    BY <1>2
  <2>3. Exist(big', preview', removed', row.item, row.photos)
    BY <2>1, <2>2, Counts, ExistStays DEF FullOK
  <2>4. QED
    BY <1>2, <2>1, <2>3 DEF Exist
<1>3. QED
  BY <1>1, <1>2 DEF FullOK

AllExist(b, p, gone, f, S) == \A x \in S : Exist(b, p, gone, f[x].item, f[x].photos)

LEMMA HandDone ==
    ASSUME Typed, WorkOK, FullOK, NEW s \in Script, FilesStay,
           NEW at, NEW does, NEW snap, NEW rs, NEW obj, NEW p, NEW n, NEW list,
           Done(s, at, does, snap, rs, obj, p, n, list),
           does = "photo remove" => obj.item \in removed',
           Exist(big', preview', removed', obj.item, obj.photos),
           at = "preview" => obj.item \in removed' \/ big'[obj.item][obj.photos] # Missing,
           AllExist(big', preview', removed', rs, DOMAIN rs),
           does = "edit" => AllExist(big', preview', removed', list, 1..Len(list)),
           rows' = rows \/ AllExist(big', preview', removed', rows', Ids(rows'))
    PROVE  FullOK'
<1>1. /\ pc'[s] = at /\ command'[s] = does /\ own'[s] = rs /\ self'[s] = obj /\ todo'[s] = list
      /\ OthersWait(s)
  BY DEF Done, Has
<1>2. /\ command'[s] = "photo remove" => self'[s].item \in removed'
      /\ Exist(big', preview', removed', self'[s].item, self'[s].photos)
      /\ pc'[s] = "preview" /\ self'[s].item \notin removed' => big'[self'[s].item][self'[s].photos] # Missing
  BY <1>1
<1>3. \A id \in DOMAIN own'[s] : Exist(big', preview', removed', own'[s][id].item, own'[s][id].photos)
  BY <1>1 DEF AllExist
<1>4. command'[s] = "edit" => \A k \in 1..Len(todo'[s]) : Exist(big', preview', removed', todo'[s][k].item, todo'[s][k].photos)
  BY <1>1 DEF AllExist
<1>5. HandFull(s)'
  BY <1>2, <1>3, <1>4 DEF HandFull
<1>6. rows' = rows \/ \A id \in Ids(rows') : Exist(big', preview', removed', rows'[id].item, rows'[id].photos)
  BY DEF AllExist
<1>7. QED
  BY <1>1, <1>5, <1>6, OthersFull

\* What was there before the step is after it.
LEMMA HandStays ==
    ASSUME Typed, WorkOK, FullOK, NEW s \in Script, FilesStay
    PROVE  /\ Exist(big', preview', removed', self[s].item, self[s].photos)
           /\ AllExist(big', preview', removed', own[s], DOMAIN own[s])
           /\ command[s] = "edit" => AllExist(big', preview', removed', todo[s], 1..Len(todo[s]))
           /\ AllExist(big', preview', removed', rows, Ids(rows))
           /\ command[s] = "photo remove" => self[s].item \in removed'
<1>1. HandFull(s)
  BY DEF FullOK
<1>2. Exist(big', preview', removed', self[s].item, self[s].photos)
  BY <1>1, Counts, ExistStays DEF HandFull
<1>3. ASSUME NEW id \in DOMAIN own[s] PROVE Exist(big', preview', removed', own[s][id].item, own[s][id].photos)
  BY <1>1, Counts, ExistStays DEF HandFull
<1>4. ASSUME NEW id \in Ids(rows) PROVE Exist(big', preview', removed', rows[id].item, rows[id].photos)
  BY Counts, ExistStays DEF FullOK
<1>5. ASSUME command[s] = "edit", NEW k \in 1..Len(todo[s]) PROVE Exist(big', preview', removed', todo[s][k].item, todo[s][k].photos)
  BY <1>1, <1>5, Counts, ExistStays DEF HandFull
<1>6. command[s] = "photo remove" => self[s].item \in removed'
  BY <1>1 DEF HandFull, FilesStay
<1>7. QED
  BY <1>2, <1>3, <1>4, <1>5, <1>6 DEF AllExist

LEMMA NoneExist ==
    ASSUME NEW b, NEW p, NEW gone
    PROVE  /\ AllExist(b, p, gone, <<>>, DOMAIN <<>>) /\ Exist(b, p, gone, Nobody.item, Nobody.photos)
           /\ AllExist(b, p, gone, <<>>, 1..Len(<<>>)) /\ \A i : Exist(b, p, gone, i, 0)
<1>1. 0..(0 - 1) = {} /\ 1..0 = {}
  OBVIOUS
<1>2. Nobody.photos = 0 /\ Len(<<>>) = 0 /\ DOMAIN <<>> = {}
  BY EmptyOwn DEF Nobody
<1>3. QED
  BY <1>1, <1>2 DEF AllExist, Exist

LEMMA PutExists ==
    ASSUME NEW b, NEW p, NEW gone, NEW f \in OwnSet, NEW k \in Id, NEW v \in Entry,
           AllExist(b, p, gone, f, DOMAIN f), Exist(b, p, gone, v.item, v.photos)
    PROVE  AllExist(b, p, gone, Put(f, k, v), DOMAIN Put(f, k, v))
<1>1. /\ DOMAIN Put(f, k, v) = DOMAIN f \cup {k}
      /\ Put(f, k, v)[k] = v /\ \A x \in DOMAIN f : x # k => Put(f, k, v)[x] = f[x]
  BY PutOf
<1> DEFINE g == Put(f, k, v)
<1> HIDE DEF g
<1>2. DOMAIN g = DOMAIN f \cup {k} /\ g[k] = v /\ \A x \in DOMAIN f : x # k => g[x] = f[x]
  BY <1>1 DEF g
<1>3. AllExist(b, p, gone, g, DOMAIN g)
  BY <1>2 DEF AllExist
<1>4. QED
  BY <1>3 DEF g

LEMMA BeginsFull ==
    ASSUME Typed, WorkOK, GrowOK, FullOK, NEW s \in Script, Begins(s)
    PROVE  FullOK'
<1>0. RowsOK
  BY DEF GrowOK
<1>1. CASE BeginImport(s)
  <2>1. PICK i \in Item :
             /\ Done(s, "insert", "import", rows, <<>>, [id |-> 0, item |-> i, photos |-> 0], Missing, num[s], <<>>)
             /\ removed' = removed /\ UNCHANGED <<rows, big, preview>>
    BY <1>0, <1>1, BeginImportDoes
  <2>2. PICK obj : obj = [id |-> 0, item |-> i, photos |-> 0]
    OBVIOUS
  <2>3. Exist(big', preview', removed', obj.item, obj.photos)
    BY <2>2, NoneExist
  <2>4. FilesStay
    BY <2>1 DEF FilesStay
  <2>5. AllExist(big', preview', removed', <<>>, DOMAIN <<>>)
    BY NoneExist
  <2>6. Done(s, "insert", "import", rows, <<>>, obj, Missing, num[s], <<>>)
    BY <2>1, <2>2
  <2>7. "insert" # "preview" /\ "import" # "photo remove" /\ "import" # "edit" /\ rows' = rows
    BY <2>1
  <2>8. QED
    BY <2>3, <2>4, <2>5, <2>6, <2>7, HandDone
<1>2. ASSUME NEW id \in Ids(rows), NEW at, at # "preview", NEW does, does # "edit", NEW n,
             Done(s, at, does, rows, <<>>, Object(rows, id), Missing, n, <<>>),
             removed' = removed \/ removed' = removed \cup {rows[id].item}, UNCHANGED <<rows, big, preview>>,
             does = "photo remove" => removed' = removed \cup {rows[id].item}
      PROVE  FullOK'
  <2>1. PICK obj : obj = Object(rows, id)
    OBVIOUS
  <2>2. obj.item = rows[id].item /\ obj.photos = rows[id].photos
    BY <2>1 DEF Object
  <2>3. FilesStay
    BY <1>2 DEF FilesStay
  <2>4. Exist(big', preview', removed', obj.item, obj.photos)
    BY <2>2, <2>3, HandStays DEF AllExist
  <2>5. AllExist(big', preview', removed', <<>>, DOMAIN <<>>)
    BY NoneExist
  <2>6. does = "photo remove" => obj.item \in removed'
    BY <1>2, <2>2
  <2>7. Done(s, at, does, rows, <<>>, obj, Missing, n, <<>>)
    BY <1>2, <2>1
  <2>8. QED
    BY <1>2, <2>3, <2>4, <2>5, <2>6, <2>7, HandDone
<1>3. CASE BeginPhotoAdd(s)
  <2>1. PICK id \in Ids(rows) :
             /\ Done(s, "big", "photo add", rows, <<>>, Object(rows, id), Missing, num[s], <<>>)
             /\ removed' = removed /\ UNCHANGED <<rows, big, preview>>
    BY <1>0, <1>3, BeginPhotoAddDoes
  <2>2. QED
    BY <1>2, <2>1
<1>4. CASE BeginPhotoRemove(s)
  <2>1. PICK id \in Ids(rows) : \E n \in 0..(rows[id].photos - 1) :
             /\ Done(s, "unlinkBig", "photo remove", rows, <<>>, Object(rows, id), Missing, n, <<>>)
             /\ removed' = removed \cup {rows[id].item} /\ UNCHANGED <<rows, big, preview>>
    BY <1>0, <1>4, BeginPhotoRemoveDoes
  <2>2. QED
    BY <1>2, <2>1
<1>5. CASE BeginEdit(s)
  <2>1. PICK list \in Seq(ListedSet) :
             /\ \A k \in 1..Len(list) : list[k].id \in Ids(rows) /\ list[k] = Object(rows, list[k].id)
             /\ Done(s, "edit", "edit", rows, <<>>, Nobody, Missing, num[s], list)
             /\ removed' = removed /\ UNCHANGED <<rows, big, preview>>
    BY <1>0, <1>5, BeginEditDoes
  <2>2. FilesStay
    BY <2>1 DEF FilesStay
  <2>3. AllExist(big', preview', removed', list, 1..Len(list))
    <3>1. ASSUME NEW k \in 1..Len(list) PROVE Exist(big', preview', removed', list[k].item, list[k].photos)
      <4>1. PICK id \in Ids(rows) : list[k] = Object(rows, id)
        BY <2>1
      <4>2. list[k].item = rows[id].item /\ list[k].photos = rows[id].photos
        BY <4>1 DEF Object
      <4>3. QED
        BY <2>2, <4>2, HandStays DEF AllExist
    <3>2. QED
      BY <3>1 DEF AllExist
  <2>4. AllExist(big', preview', removed', <<>>, DOMAIN <<>>) /\ Exist(big', preview', removed', Nobody.item, Nobody.photos)
    BY NoneExist
  <2>5. QED
    BY <2>1, <2>2, <2>3, <2>4, HandDone
<1>6. CASE BeginMove(s)
  <2>1. PICK list \in Seq(MoveSet) :
             /\ Done(s, "move", "move", rows, <<>>, Nobody, Missing, num[s], list)
             /\ UNCHANGED <<rows, big, preview, spoiled, removed>>
    BY <1>0, <1>6, BeginMoveDoes
  <2>2. FilesStay
    BY <2>1 DEF FilesStay
  <2>3. AllExist(big', preview', removed', <<>>, DOMAIN <<>>) /\ Exist(big', preview', removed', Nobody.item, Nobody.photos)
    BY NoneExist
  <2>4. QED
    BY <2>1, <2>2, <2>3, HandDone
<1>7. QED
  BY <1>1, <1>3, <1>4, <1>5, <1>6 DEF Begins

LEMMA RowStepFull ==
    ASSUME Typed, WorkOK, GrowOK, FullOK, NEW s \in Script, RowStep(s)
    PROVE  FullOK'
<1>1. UNCHANGED <<rows, big, preview, removed>>
  <2>1. rows' = rows
    BY RowStepGrows
  <2>2. UNCHANGED <<big, preview, removed>>
    BY DEF RowStep, Insert, NextPhoto, NextLine, LastLine, Save, Edit, Move, files, histories
  <2>3. QED
    BY <2>1, <2>2
<1>2. FilesStay
  BY <1>1 DEF FilesStay
<1>3. /\ Exist(big', preview', removed', self[s].item, self[s].photos)
      /\ AllExist(big', preview', removed', own[s], DOMAIN own[s])
      /\ command[s] = "edit" => AllExist(big', preview', removed', todo[s], 1..Len(todo[s]))
      /\ command[s] = "photo remove" => self[s].item \in removed'
  BY <1>2, HandStays
<1>4. own[s] \in OwnSet
  BY HandOf
<1>5. CASE Insert(s)
  <2>1. PICK id \in Id :
             /\ command[s] = "import" /\ Fields(self[s]) \in Row
             /\ Done(s, "line", "import", snapshot[s], Put(own[s], id, Fields(self[s])),
                     [id |-> id, item |-> self[s].item, photos |-> self[s].photos], photo[s], num[s], todo[s])
    BY <1>5, InsertDoes
  <2>2. AllExist(big', preview', removed', Put(own[s], id, Fields(self[s])), DOMAIN Put(own[s], id, Fields(self[s])))
    <3>1. Fields(self[s]) \in Entry
      BY <2>1 DEF Entry
    <3>2. Fields(self[s]).item = self[s].item /\ Fields(self[s]).photos = self[s].photos
      BY DEF Fields
    <3>3. QED
      BY <1>3, <1>4, <3>1, <3>2, PutExists
  <2>3. PICK obj : obj = [id |-> id, item |-> self[s].item, photos |-> self[s].photos]
    OBVIOUS
  <2>4. obj.item = self[s].item /\ obj.photos = self[s].photos
    BY <2>3
  <2>5. Done(s, "line", "import", snapshot[s], Put(own[s], id, Fields(self[s])), obj, photo[s], num[s], todo[s])
    BY <2>1, <2>3
  <2>6. "line" # "preview" /\ "import" # "photo remove" /\ "import" # "edit" /\ Exist(big', preview', removed', obj.item, obj.photos)
    BY <1>3, <2>4
  <2>7. QED
    BY <1>1, <1>2, <2>2, <2>5, <2>6, HandDone
<1>6. CASE NextPhoto(s)
  <2>1. command[s] = "import" /\ Done(s, "big", command[s], snapshot[s], own[s], self[s], photo[s], num[s], todo[s])
    BY <1>6, NextPhotoDoes
  <2>2. QED
    BY <1>1, <1>2, <1>3, <2>1, HandDone
<1>7. CASE NextLine(s)
  <2>1. PICK i \in Item :
             Done(s, "insert", "import", snapshot[s], own[s], [id |-> 0, item |-> i, photos |-> 0], photo[s], num[s], todo[s])
    BY <1>7, NextLineDoes
  <2>2. PICK obj : obj = [id |-> 0, item |-> i, photos |-> 0]
    OBVIOUS
  <2>3. Exist(big', preview', removed', obj.item, obj.photos)
    BY <2>2, NoneExist
  <2>4. Done(s, "insert", "import", snapshot[s], own[s], obj, photo[s], num[s], todo[s])
    BY <2>1, <2>2
  <2>5. "insert" # "preview" /\ "import" # "photo remove" /\ "import" # "edit"
    OBVIOUS
  <2>6. QED
    BY <1>1, <1>2, <1>3, <2>3, <2>4, <2>5, HandDone
<1>8. CASE LastLine(s)
  <2>1. command[s] = "import" /\ Done(s, "commit", command[s], snapshot[s], own[s], self[s], photo[s], num[s], todo[s])
    BY <1>8, LastLineDoes
  <2>2. QED
    BY <1>1, <1>2, <1>3, <2>1, HandDone
<1>9. CASE Save(s)
  <2>1. /\ command[s] \in Photographing /\ self[s].id \in Id /\ Fields(self[s]) \in Row
        /\ Done(s, IF command[s] = "import" THEN "line" ELSE "commit", command[s], snapshot[s],
                Put(own[s], self[s].id, Fields(self[s])), self[s], photo[s], num[s], todo[s])
    BY <1>9, SaveDoes
  <2>2. AllExist(big', preview', removed', Put(own[s], self[s].id, Fields(self[s])), DOMAIN Put(own[s], self[s].id, Fields(self[s])))
    <3>1. Fields(self[s]) \in Entry
      BY <2>1 DEF Entry
    <3>2. Fields(self[s]).item = self[s].item /\ Fields(self[s]).photos = self[s].photos
      BY DEF Fields
    <3>3. QED
      BY <1>3, <1>4, <2>1, <3>1, <3>2, PutExists
  <2>3. PICK at : at = IF command[s] = "import" THEN "line" ELSE "commit"
    OBVIOUS
  <2>4. at # "preview" /\ command[s] # "edit"
    BY <2>1, <2>3 DEF Photographing
  <2>5. Done(s, at, command[s], snapshot[s], Put(own[s], self[s].id, Fields(self[s])), self[s], photo[s], num[s], todo[s])
    BY <2>1, <2>3
  <2>6. QED
    BY <1>1, <1>2, <1>3, <2>2, <2>4, <2>5, HandDone
<1>10. CASE Edit(s)
  <2>1. /\ command[s] = "edit" /\ todo[s] \in Seq(ListedSet) /\ todo[s] # <<>>
        /\ todo[s][1] \in ListedSet /\ todo[s][1].id \in Id
        /\ Done(s, IF Len(todo[s]) = 1 THEN "commit" ELSE "edit", "edit", snapshot[s],
                Put(own[s], todo[s][1].id, Fields(todo[s][1])), self[s], photo[s], num[s], Tail(todo[s]))
    BY <1>10, EditDoes
  <2>2. /\ Len(todo[s]) \in Nat \ {0} /\ Len(Tail(todo[s])) = Len(todo[s]) - 1
        /\ \A i \in 1..(Len(todo[s]) - 1) : Tail(todo[s])[i] = todo[s][i + 1]
    <3>1. ListedSet \subseteq ObjectSet
      BY Numbers DEF ListedSet, ObjectSet
    <3>2. QED
      BY <2>1, <3>1, TodoOf
  <2>3. AllExist(big', preview', removed', Put(own[s], todo[s][1].id, Fields(todo[s][1])), DOMAIN Put(own[s], todo[s][1].id, Fields(todo[s][1])))
    <3>1. Fields(todo[s][1]) \in Entry
      BY <2>1 DEF Fields, ListedSet, Entry, Row
    <3>2. Fields(todo[s][1]).item = todo[s][1].item /\ Fields(todo[s][1]).photos = todo[s][1].photos
      BY DEF Fields
    <3>3. 1 \in 1..Len(todo[s])
      BY <2>2
    <3>4. Exist(big', preview', removed', todo[s][1].item, todo[s][1].photos)
      BY <1>3, <2>1, <3>3 DEF AllExist
    <3>5. QED
      BY <1>3, <1>4, <2>1, <3>1, <3>2, <3>4, PutExists
  <2>4. AllExist(big', preview', removed', Tail(todo[s]), 1..Len(Tail(todo[s])))
    <3>1. ASSUME NEW k \in 1..Len(Tail(todo[s])) PROVE Exist(big', preview', removed', Tail(todo[s])[k].item, Tail(todo[s])[k].photos)
      <4>1. k \in 1..(Len(todo[s]) - 1) /\ k + 1 \in 1..Len(todo[s])
        BY <2>2
      <4>2. Tail(todo[s])[k] = todo[s][k + 1]
        BY <2>2, <4>1
      <4>3. QED
        BY <1>3, <2>1, <4>1, <4>2 DEF AllExist
    <3>2. QED
      BY <3>1 DEF AllExist
  <2>5. PICK at : at = IF Len(todo[s]) = 1 THEN "commit" ELSE "edit"
    OBVIOUS
  <2>6. at # "preview" /\ "edit" # "photo remove"
    BY <2>5
  <2>7. Done(s, at, "edit", snapshot[s], Put(own[s], todo[s][1].id, Fields(todo[s][1])), self[s], photo[s], num[s], Tail(todo[s]))
    BY <2>1, <2>5
  <2>8. QED
    BY <1>1, <1>2, <1>3, <2>3, <2>4, <2>6, <2>7, HandDone
<1>11. CASE Move(s)
  <2>1. Done(s, IF Len(todo[s]) = 1 THEN "commit" ELSE "move", "move", snapshot[s], own[s], self[s], photo[s], num[s], Tail(todo[s]))
    BY <1>11, MoveDoes
  <2>2. PICK at : at = IF Len(todo[s]) = 1 THEN "commit" ELSE "move"
    OBVIOUS
  <2>3. at # "preview" /\ "move" # "photo remove" /\ "move" # "edit"
    BY <2>2
  <2>4. Done(s, at, "move", snapshot[s], own[s], self[s], photo[s], num[s], Tail(todo[s]))
    BY <2>1, <2>2
  <2>5. QED
    BY <1>1, <1>2, <1>3, <2>3, <2>4, HandDone
<1>12. QED
  BY <1>5, <1>6, <1>7, <1>8, <1>9, <1>10, <1>11 DEF RowStep

LEMMA FilesOf ==
    ASSUME Typed, NEW i \in Item, removed' = removed,
           \/ preview' = preview /\ \E dir : SetsDir(big', big, i, dir) /\ (i \in removed \/ \A k \in Index : big[i][k] # Missing => dir[k] # Missing)
           \/ big' = big /\ \E dir : SetsDir(preview', preview, i, dir) /\ (i \in removed \/ \A k \in Index : preview[i][k] # Missing => dir[k] # Missing)
    PROVE  FilesStay
<1>1. ASSUME NEW j \in Item \ removed, NEW k \in Index
      PROVE  (big[j][k] # Missing => big'[j][k] # Missing) /\ (preview[j][k] # Missing => preview'[j][k] # Missing)
  <2>1. CASE j = i
    BY <1>1, <2>1 DEF SetsDir
  <2>2. CASE j # i
    BY <1>1, <2>2 DEF SetsDir
  <2>3. QED
    BY <2>1, <2>2
<1>2. QED
  BY <1>1 DEF FilesStay

LEMMA FileStepFull ==
    ASSUME Typed, WorkOK, FullOK, NEW s \in Script, FileStep(s)
    PROVE  FullOK'
<1>0. HandFull(s) /\ own[s] \in OwnSet /\ big \in Album /\ preview \in Album
  BY HandOf DEF FullOK, Typed
<1>1. CASE ConvertBig(s)
  <2>1. /\ command[s] \in {"import", "photo add"} /\ self[s].item \in Item /\ self[s].photos \in Index
        /\ \E p \in Photo :
             /\ p # Missing
             /\ Done(s, "preview", command[s], snapshot[s], own[s], self[s], p, num[s], todo[s])
             /\ SetsDir(big', big, self[s].item, [big[self[s].item] EXCEPT ![self[s].photos] = p])
        /\ UNCHANGED <<rows, preview, removed>>
    BY <1>1, ConvertBigDoes
  <2>2. PICK p \in Photo :
             /\ p # Missing
             /\ Done(s, "preview", command[s], snapshot[s], own[s], self[s], p, num[s], todo[s])
             /\ SetsDir(big', big, self[s].item, [big[self[s].item] EXCEPT ![self[s].photos] = p])
    BY <2>1
  <2>3. PICK dir : dir = [big[self[s].item] EXCEPT ![self[s].photos] = p]
    OBVIOUS
  <2>4. dir[self[s].photos] = p /\ \A k \in Index : big[self[s].item][k] # Missing => dir[k] # Missing
    <3>1. big[self[s].item] \in Dir
      BY <1>0, <2>1 DEF Album, Dir
    <3>2. QED
      BY <2>1, <2>2, <2>3, <3>1 DEF Dir
  <2>5. SetsDir(big', big, self[s].item, dir)
    BY <2>2, <2>3
  <2>6. FilesStay
    <3>1. \E d : SetsDir(big', big, self[s].item, d) /\ (self[s].item \in removed \/ \A k \in Index : big[self[s].item][k] # Missing => d[k] # Missing)
      BY <2>4, <2>5
    <3>2. QED
      BY <2>1, <3>1, FilesOf
  <2>7. big'[self[s].item][self[s].photos] # Missing
    BY <2>2, <2>4, <2>5 DEF SetsDir
  <2>8. /\ Exist(big', preview', removed', self[s].item, self[s].photos)
        /\ AllExist(big', preview', removed', own[s], DOMAIN own[s])
    BY <2>6, HandStays
  <2>9. command[s] # "edit" /\ command[s] # "photo remove" /\ rows' = rows
    BY <2>1
  <2>10. QED
    BY <2>2, <2>6, <2>7, <2>8, <2>9, HandDone
<1>2. CASE ConvertPreview(s)
  <2>1. /\ pc[s] = "preview" /\ command[s] \in {"import", "photo add"} /\ self[s].item \in Item /\ self[s].photos \in Index
        /\ photo[s] \in Photo /\ photo[s] # Missing
        /\ Done(s, "save", command[s], snapshot[s], own[s],
                [id |-> self[s].id, item |-> self[s].item, photos |-> self[s].photos + 1], photo[s], num[s], todo[s])
        /\ SetsDir(preview', preview, self[s].item, [preview[self[s].item] EXCEPT ![self[s].photos] = photo[s]])
        /\ UNCHANGED <<rows, big, removed>>
    BY <1>2, ConvertPreviewDoes
  <2>2. PICK dir : dir = [preview[self[s].item] EXCEPT ![self[s].photos] = photo[s]]
    OBVIOUS
  <2>3. dir[self[s].photos] # Missing /\ \A k \in Index : preview[self[s].item][k] # Missing => dir[k] # Missing
    <3>1. preview[self[s].item] \in Dir
      BY <1>0, <2>1 DEF Album, Dir
    <3>2. QED
      BY <2>1, <2>2, <3>1 DEF Dir
  <2>4. SetsDir(preview', preview, self[s].item, dir)
    BY <2>1, <2>2
  <2>5. FilesStay
    BY <2>1, <2>3, <2>4, FilesOf
  <2>6. /\ Exist(big', preview', removed', self[s].item, self[s].photos)
        /\ AllExist(big', preview', removed', own[s], DOMAIN own[s])
    BY <2>5, HandStays
  <2>7. PICK obj : obj = [id |-> self[s].id, item |-> self[s].item, photos |-> self[s].photos + 1]
    OBVIOUS
  <2>8. Exist(big', preview', removed', obj.item, obj.photos)
    <3>1. SUFFICES ASSUME self[s].item \notin removed', NEW k \in 0..((self[s].photos + 1) - 1)
                   PROVE  big'[self[s].item][k] # Missing /\ preview'[self[s].item][k] # Missing
      BY <2>7 DEF Exist
    <3>2. self[s].photos \in Nat
      <4>1. self[s].photos \in 0..MaxPhotos
        BY HandOf
      <4>2. QED
        BY <4>1, IndexOf
    <3>3. k \in 0..(self[s].photos - 1) \/ k = self[s].photos
      BY <3>2
    <3>4. CASE k \in 0..(self[s].photos - 1)
      BY <2>1, <2>6, <3>1, <3>4 DEF Exist
    <3>5. CASE k = self[s].photos
      BY <1>0, <2>1, <2>3, <2>4, <3>1, <3>5 DEF HandFull, SetsDir
    <3>6. QED
      BY <3>3, <3>4, <3>5
  <2>9. Done(s, "save", command[s], snapshot[s], own[s], obj, photo[s], num[s], todo[s])
    BY <2>1, <2>7
  <2>10. command[s] # "edit" /\ command[s] # "photo remove" /\ rows' = rows /\ "save" # "preview"
    BY <2>1
  <2>11. QED
    BY <2>5, <2>6, <2>8, <2>9, <2>10, HandDone
\* A removal has to do with files of items that are removed from only.
<1>3. ASSUME NEW at, at # "preview", NEW obj, obj.item = self[s].item, NEW n, pc[s] \in Removing, FilesStay, rows' = rows,
             Done(s, at, command[s], snapshot[s], own[s], obj, photo[s], n, todo[s])
      PROVE  FullOK'
  <2>1. command[s] = "photo remove" /\ command[s] # "edit"
    BY <1>3, CommandOf
  <2>2. obj.item \in removed' /\ AllExist(big', preview', removed', own[s], DOMAIN own[s])
    BY <1>3, <2>1, HandStays
  <2>3. Exist(big', preview', removed', obj.item, obj.photos)
    BY <2>2 DEF Exist
  <2>4. QED
    BY <1>3, <2>1, <2>2, <2>3, HandDone
<1>4. ASSUME pc[s] \in Removing PROVE self[s].item \in removed /\ self[s].item \in Item
  BY <1>0, <1>4, CommandOf, RemovingOf DEF HandFull
<1>5. ASSUME NEW n, pc[s] \in Removing, FilesStay, rows' = rows, Renumbers(s, n) PROVE FullOK'
  <2>1. CASE n + 1 < self[s].photos
    <3>1. Done(s, "renameBig", command[s], snapshot[s], own[s], self[s], photo[s], n, todo[s])
      BY <1>5, <2>1 DEF Renumbers
    <3>2. QED
      BY <1>3, <1>5, <3>1
  <2>2. CASE ~(n + 1 < self[s].photos)
    <3>1. Done(s, "save", command[s], snapshot[s], own[s],
               [id |-> self[s].id, item |-> self[s].item, photos |-> self[s].photos - 1], photo[s], n, todo[s])
      BY <1>5, <2>2 DEF Renumbers
    <3>2. QED
      BY <1>3, <1>5, <3>1
  <2>3. QED
    BY <2>1, <2>2
<1>6. CASE UnlinkBig(s)
  <2>1. /\ pc[s] = "unlinkBig"
        /\ Done(s, "unlinkPreview", command[s], snapshot[s], own[s], self[s], photo[s], num[s], todo[s])
        /\ SetsDir(big', big, self[s].item, [big[self[s].item] EXCEPT ![num[s]] = Missing])
        /\ UNCHANGED <<rows, preview, removed>>
    BY <1>6, UnlinkBigDoes
  <2>2. pc[s] \in Removing
    BY <2>1 DEF Removing
  <2>3. FilesStay
    BY <1>4, <2>1, <2>2, FilesOf
  <2>4. QED
    BY <1>3, <2>1, <2>2, <2>3
<1>7. CASE UnlinkPreview(s)
  <2>1. /\ pc[s] = "unlinkPreview" /\ Renumbers(s, num[s])
        /\ SetsDir(preview', preview, self[s].item, [preview[self[s].item] EXCEPT ![num[s]] = Missing])
        /\ UNCHANGED <<rows, big, removed>>
    BY <1>7, UnlinkPreviewDoes
  <2>2. pc[s] \in Removing
    BY <2>1 DEF Removing
  <2>3. FilesStay
    BY <1>4, <2>1, <2>2, FilesOf
  <2>4. QED
    BY <1>5, <2>1, <2>2, <2>3
<1>8. CASE RenameBig(s)
  <2>1. /\ pc[s] = "renameBig"
        /\ Done(s, "renamePreview", command[s], snapshot[s], own[s], self[s], photo[s], num[s], todo[s])
        /\ SetsDir(big', big, self[s].item, Renamed(big[self[s].item], num[s]))
        /\ UNCHANGED <<rows, preview, removed>>
    BY <1>8, RenameBigDoes
  <2>2. pc[s] \in Removing
    BY <2>1 DEF Removing, Renaming
  <2>3. FilesStay
    BY <1>4, <2>1, <2>2, FilesOf
  <2>4. QED
    BY <1>3, <2>1, <2>2, <2>3
<1>9. CASE RenamePreview(s)
  <2>1. /\ pc[s] = "renamePreview" /\ Renumbers(s, num[s] + 1)
        /\ SetsDir(preview', preview, self[s].item, Renamed(preview[self[s].item], num[s]))
        /\ UNCHANGED <<rows, big, removed>>
    BY <1>9, RenamePreviewDoes
  <2>2. pc[s] \in Removing
    BY <2>1 DEF Removing, Renaming
  <2>3. FilesStay
    BY <1>4, <2>1, <2>2, FilesOf
  <2>4. QED
    BY <1>5, <2>1, <2>2, <2>3
<1>10. QED
  BY <1>1, <1>2, <1>6, <1>7, <1>8, <1>9 DEF FileStep

LEMMA EndFull ==
    ASSUME Typed, WorkOK, GrowOK, FullOK, NEW s \in Script, Commit(s) \/ Dies(s)
    PROVE  FullOK'
<1>1. Done(s, "idle", "none", Nothing, <<>>, Nobody, Missing, 0, <<>>) /\ UNCHANGED <<big, preview, removed>>
  BY EndsDoes DEF Commit, Dies, files, histories
<1>2. FilesStay
  BY <1>1 DEF FilesStay
<1>3. AllExist(big', preview', removed', <<>>, DOMAIN <<>>) /\ Exist(big', preview', removed', Nobody.item, Nobody.photos)
  BY NoneExist
<1>4. rows' = rows \/ AllExist(big', preview', removed', rows', Ids(rows'))
  <2>1. CASE rows' = rows
    BY <2>1
  <2>2. CASE rows' = Now(s)
    <3>1. /\ \A id \in Ids(rows') : id \in Ids(rows) \cup DOMAIN own[s]
          /\ \A id \in Ids(rows') : IF id \in DOMAIN own[s] THEN rows'[id] = own[s][id] ELSE rows'[id] = rows[id]
      BY <2>2, CommitRows
    <3>2. AllExist(big', preview', removed', own[s], DOMAIN own[s]) /\ AllExist(big', preview', removed', rows, Ids(rows))
      BY <1>2, HandStays
    <3>3. ASSUME NEW id \in Ids(rows') PROVE Exist(big', preview', removed', rows'[id].item, rows'[id].photos)
      BY <3>1, <3>2 DEF AllExist
    <3>4. QED
      BY <3>3 DEF AllExist
  <2>3. QED
    BY <2>1, <2>2, EndGrows
<1>5. "idle" # "preview" /\ "none" # "photo remove" /\ "none" # "edit"
  OBVIOUS
<1>6. QED
  BY <1>1, <1>2, <1>3, <1>4, <1>5, HandDone

LEMMA FullStep ==
    ASSUME Typed, WorkOK, GrowOK, FullOK, [Next]_vars
    PROVE  FullOK'
<1>1. CASE Next
  <2>1. PICK s \in Script : Begins(s) \/ RowStep(s) \/ FileStep(s) \/ Commit(s) \/ Dies(s)
    BY <1>1 DEF Next
  <2>2. QED
    BY <2>1, BeginsFull, RowStepFull, FileStepFull, EndFull
<1>2. CASE UNCHANGED vars
  BY <1>2 DEF vars, FullOK, HandFull
<1>3. QED
  BY <1>1, <1>2

LEMMA InitFull ==
    ASSUME Init
    PROVE  FullOK
<1>1. ASSUME NEW id \in Ids(rows) PROVE Exist(big, preview, removed, rows[id].item, rows[id].photos)
  <2>1. ASSUME NEW k \in 0..(rows[id].photos - 1) PROVE big[rows[id].item][k] # Missing /\ preview[rows[id].item][k] # Missing
    <3>1. rows[id].photos \in 0..MaxPhotos /\ MaxPhotos \in Nat
      BY InitRows, Numbers
    <3>2. k \in Index /\ k < rows[id].photos /\ k + 1 # 0
      BY <3>1 DEF Index
    <3>3. big[rows[id].item][k] = k + 1
      BY <3>2, InitRows
    <3>4. QED
      BY <3>2, <3>3, InitRows DEF Missing
  <2>2. QED
    BY <2>1 DEF Exist
<1>2. ASSUME NEW s \in Script PROVE HandFull(s)
  <2>1. /\ pc[s] = "idle" /\ command[s] = "none" /\ own[s] = <<>> /\ self[s] = Nobody
    BY DEF Init
  <2>2. AllExist(big, preview, removed, <<>>, DOMAIN <<>>) /\ Exist(big, preview, removed, Nobody.item, Nobody.photos)
    BY NoneExist
  <2>3. QED
    BY <2>1, <2>2 DEF HandFull, AllExist
<1>3. QED
  BY <1>1, <1>2 DEF FullOK

THEOREM FullInductive == Spec => [](Typed /\ WorkOK /\ GrowOK /\ FullOK)
<1>1. Init => FullOK
  BY InitFull
<1>2. Typed /\ WorkOK /\ GrowOK /\ FullOK /\ [Next]_vars => FullOK'
  BY FullStep
<1>3. QED
  BY <1>1, <1>2, GrowInductive, PTL DEF Spec

(* However scripts meet or die, each photo of a row has both its files, as   *)
(* long as no photo of the item is removed: a number is counted only when    *)
(* both conversions are done, and no row is saved with more photos than were *)
(* counted by then.                                                          *)
THEOREM PhotosShownExist == Spec => []ShownPhotosExist
<1>1. ASSUME Typed, GrowOK, FullOK PROVE ShownPhotosExist
  <2>1. ASSUME NEW id \in Ids(rows) PROVE rows[id].item \in Item
    <3>1. RowsOK
      BY <1>1 DEF GrowOK
    <3>2. QED
      BY <1>1, <3>1, RowOf
  <2>2. QED
    BY <1>1, <2>1 DEF ShownPhotosExist, FullOK, Exist
<1>2. QED
  BY <1>1, FullInductive, PTL

-----------------------------------------------------------------------------
(* The two sizes of a photo match *)

\* The numbers of n photos, and the photos that have both sizes, and only once.
First(n) == 0..(n - 1)
Paired(b, p, K) == \A k \in K : b[k] = p[k] /\ b[k] # Missing /\ \A j \in K : j # k => b[j] # b[k]

\* A directory while a script is at work on it: between its two steps on a photo
\* one size is there, and the other is to come, to go, or to move.
Half == {"unlinkPreview", "renameBig", "renamePreview"}
Sound(at, b, p, n, r, x) ==
    /\ at \notin Half => Paired(b, p, First(n))
    /\ at = "preview" => Paired(b, [p EXCEPT ![n] = x], First(n + 1))
    /\ at \in {"unlinkPreview", "renameBig"} => Paired(b, p, First(n) \ {r})
    /\ at = "renamePreview" => Paired(b, [p EXCEPT ![r] = p[r + 1]], First(n) \ {r + 1})

\* The only row of its item: among those committed, and with those of an import.
Sole(id) == \A x \in Ids(rows) \ {id} : rows[x].item # rows[id].item
SoleOwn(s, id) == /\ \A x \in Ids(rows) : rows[x].item # own[s][id].item
                  /\ \A x \in DOMAIN own[s] \ {id} : own[s][x].item # own[s][id].item

\* Scripts that work on the same item spoil it, so any other has one at most.
\* While it removes photos, or inserts rows, the rows do not tell its photos.
Alone == \A s, t \in Script : s # t => Items(s) \cap Items(t) \subseteq spoiled
Shifting(s, i) == \/ command[s] = "photo remove" /\ self[s].item = i
                  \/ command[s] = "import" /\ i \in Items(s)
RowsMatch == \A id \in Ids(rows) :
    /\ Sole(id) /\ rows[id].item \notin spoiled /\ \A s \in Script : ~Shifting(s, rows[id].item)
    => Paired(big[rows[id].item], preview[rows[id].item], First(rows[id].photos))

\* The script's object does, and so do the rows it has saved.
SelfMatch(s) ==
    /\ self[s].item \in Item \ spoiled
    /\ command[s] = "import" \/ Sole(self[s].id)
    => Sound(pc[s], big[self[s].item], preview[self[s].item], self[s].photos, num[s], photo[s])
ImportMatch(s) == command[s] = "import" => \A id \in DOMAIN own[s] :
    /\ own[s][id].item \notin spoiled /\ SoleOwn(s, id) =>
            Paired(big[own[s][id].item], preview[own[s][id].item], First(own[s][id].photos))
    /\ id = self[s].id => own[s][id].photos <= self[s].photos
AddMatch(s) == command[s] = "photo add" /\ self[s].item \notin spoiled => rows[self[s].id].photos <= self[s].photos
ChangeMatch(s) == command[s] \in {"photo add", "photo remove"} =>
    IF pc[s] = "commit" THEN DOMAIN own[s] = {self[s].id} /\ own[s][self[s].id] = Fields(self[s])
                        ELSE own[s] = <<>>
EditMatch(s) == command[s] = "edit" =>
    /\ \A id \in DOMAIN own[s] : own[s][id].item \notin spoiled => own[s][id] = rows[id]
    /\ \A k \in 1..Len(todo[s]) : todo[s][k].item \notin spoiled => Fields(todo[s][k]) = rows[todo[s][k].id]
HandMatch(s) == SelfMatch(s) /\ ImportMatch(s) /\ AddMatch(s) /\ ChangeMatch(s) /\ EditMatch(s)
MatchOK == Alone /\ RowsMatch /\ \A s \in Script : HandMatch(s)

\* Files that are the same match as they did.
LEMMA PairedSame ==
    ASSUME NEW b, NEW p, NEW c, NEW q, NEW K, NEW L \in SUBSET K, Paired(b, p, K),
           \A k \in L : c[k] = b[k] /\ q[k] = p[k]
    PROVE  Paired(c, q, L)
BY DEF Paired

\* A photo that is new, in both sizes, makes one more.
LEMMA PairedMore ==
    ASSUME NEW b, NEW p, NEW c, NEW q, NEW K, NEW m, Paired(b, p, K), c[m] = q[m], c[m] # Missing,
           \A k \in K : k # m => c[k] = b[k] /\ q[k] = p[k] /\ b[k] # c[m]
    PROVE  Paired(c, q, K \cup {m})
BY DEF Paired

LEMMA FirstOf ==
    ASSUME NEW n \in 0..MaxPhotos
    PROVE  /\ First(0) = {} /\ First(n) \subseteq Index /\ n \notin First(n) /\ First(n + 1) = First(n) \cup {n}
           /\ \A m \in 0..MaxPhotos : m <= n => First(m) \subseteq First(n)
           /\ \A r \in Nat : r < n => First(r + 1) \subseteq First(n) /\ r \in Index /\ (~(r + 1 < n) => n - 1 = r)
<1>1. MaxPhotos \in Nat
  BY Numbers
<1>2. First(0) = {} /\ First(n) \subseteq Index /\ n \notin First(n) /\ First(n + 1) = First(n) \cup {n}
  BY <1>1 DEF First, Index
<1>3. \A m \in 0..MaxPhotos : m <= n => First(m) \subseteq First(n)
  BY <1>1 DEF First
<1>4. \A r \in Nat : r < n => First(r + 1) \subseteq First(n) /\ r \in Index /\ (~(r + 1 < n) => n - 1 = r)
  BY <1>1 DEF First, Index
<1>5. QED
  BY <1>2, <1>3, <1>4

LEMMA NoPhotos == ASSUME NEW b, NEW p PROVE Paired(b, p, First(0))
BY DEF Paired, First

-----------------------------------------------------------------------------
(* What each step on the files of an item does to them *)

LEMMA BigSound ==
    ASSUME NEW b \in Dir, NEW p \in Dir, NEW n \in 0..MaxPhotos, n < MaxPhotos, NEW r, NEW x, NEW y, x # Missing,
           \A k \in Index : x # b[k], Sound("big", b, p, n, r, y)
    PROVE  Sound("preview", [b EXCEPT ![n] = x], p, n, r, x)
<1>1. Paired(b, p, First(n))
  BY DEF Sound, Half
<1>2. First(n) \subseteq Index /\ n \notin First(n) /\ First(n + 1) = First(n) \cup {n} /\ n \in Index
  BY FirstOf, IndexOf
<1> DEFINE c == [b EXCEPT ![n] = x]
           q == [p EXCEPT ![n] = x]
<1>3. c[n] = x /\ q[n] = x /\ \A k \in First(n) : c[k] = b[k] /\ q[k] = p[k] /\ b[k] # x
  BY <1>2 DEF Dir
<1> HIDE DEF c, q
<1>4. Paired(c, q, First(n + 1))
  <2>1. Paired(c, q, First(n) \cup {n})
    <3>1. \A k \in First(n) : k # n => c[k] = b[k] /\ q[k] = p[k] /\ b[k] # c[n]
      BY <1>3
    <3>2. c[n] = q[n] /\ c[n] # Missing
      BY <1>3
    <3>3. QED
      BY <1>1, <3>1, <3>2, PairedMore
  <2>2. QED
    BY <1>2, <2>1
<1>5. Paired(c, p, First(n))
  BY <1>1, <1>3, PairedSame
<1>6. QED
  BY <1>4, <1>5 DEF Sound, Half, c, q

LEMMA PreviewSound ==
    ASSUME NEW b \in Dir, NEW p \in Dir, NEW n \in 0..MaxPhotos, NEW r, NEW x, Sound("preview", b, p, n, r, x)
    PROVE  Sound("save", b, [p EXCEPT ![n] = x], n + 1, r, x)
BY DEF Sound, Half

LEMMA UnlinkedSound ==
    ASSUME NEW b \in Dir, NEW p \in Dir, NEW n \in 0..MaxPhotos, NEW r \in Nat, r < n, NEW x, Sound("unlinkBig", b, p, n, r, x)
    PROVE  Sound("unlinkPreview", [b EXCEPT ![r] = Missing], p, n, r, x)
<1>1. Paired(b, p, First(n)) /\ First(n) \subseteq Index
  BY FirstOf DEF Sound, Half
<1> DEFINE c == [b EXCEPT ![r] = Missing]
<1>2. \A k \in First(n) \ {r} : c[k] = b[k]
  BY <1>1 DEF Dir
<1> HIDE DEF c
<1>3. Paired(c, p, First(n) \ {r})
  BY <1>1, <1>2, PairedSame
<1>4. QED
  BY <1>3 DEF Sound, Half, c

\* Where the gap is the last number, the photos before it are all there are.
LEMMA GapSound ==
    ASSUME NEW b, NEW p, NEW n \in 0..MaxPhotos, NEW r \in Nat, r < n, NEW x, Paired(b, p, First(n) \ {r})
    PROVE  /\ Sound("renameBig", b, p, n, r, x)
           /\ ~(r + 1 < n) => Sound("save", b, p, n - 1, r, x)
<1>1. Sound("renameBig", b, p, n, r, x)
  BY DEF Sound, Half
<1>2. ASSUME ~(r + 1 < n) PROVE Sound("save", b, p, n - 1, r, x)
  <2>1. n - 1 = r /\ n \in Nat
    BY <1>2, FirstOf, IndexOf
  <2>2. First(n - 1) = First(n) \ {r}
    BY <2>1 DEF First
  <2>3. QED
    BY <2>2 DEF Sound, Half
<1>3. QED
  BY <1>1, <1>2

LEMMA RenamedBigSound ==
    ASSUME NEW b \in Dir, NEW p \in Dir, NEW n \in 0..MaxPhotos, NEW r \in Nat, r + 1 < n, NEW x, Sound("renameBig", b, p, n, r, x)
    PROVE  Sound("renamePreview", Renamed(b, r), p, n, r, x)
<1>1. Paired(b, p, First(n) \ {r})
  BY DEF Sound, Half
<1>2. n \in Nat /\ r \in Index /\ r + 1 \in Index /\ r + 1 \in First(n) /\ r \in First(n) /\ r # r + 1 /\ First(n) \subseteq Index
  <2>1. n \in Nat /\ MaxPhotos \in Nat
    BY IndexOf
  <2>2. QED
    BY <2>1 DEF First, Index
<1>3. b[r + 1] = p[r + 1] /\ b[r + 1] # Missing /\ \A k \in First(n) \ {r, r + 1} : b[k] # b[r + 1]
  BY <1>1, <1>2 DEF Paired
<1> DEFINE c == Renamed(b, r)
           q == [p EXCEPT ![r] = p[r + 1]]
           K == First(n) \ {r, r + 1}
<1>4. c[r] = b[r + 1] /\ \A k \in K : c[k] = b[k]
  BY <1>2, <1>3, RenamedDir
<1>5. q[r] = p[r + 1] /\ \A k \in K : q[k] = p[k]
  BY <1>2 DEF Dir
<1>6. First(n) \ {r + 1} = K \cup {r} /\ K \subseteq First(n) \ {r}
  BY <1>2
<1> HIDE DEF c, q, K
<1>7. Paired(b, p, K)
  BY <1>1, <1>6, PairedSame
<1>8. \A k \in K : b[k] # c[r]
  BY <1>3, <1>4 DEF K
<1>9. Paired(c, q, K \cup {r})
  BY <1>3, <1>4, <1>5, <1>7, <1>8, PairedMore
<1>10. QED
  BY <1>6, <1>9 DEF Sound, Half, c, q

LEMMA RenamedPreviewSound ==
    ASSUME NEW b \in Dir, NEW p \in Dir, NEW n \in 0..MaxPhotos, NEW r \in Nat, r + 1 < n, NEW x, Sound("renamePreview", b, p, n, r, x)
    PROVE  Paired(b, Renamed(p, r), First(n) \ {r + 1})
<1> DEFINE q == [p EXCEPT ![r] = p[r + 1]]
           K == First(n) \ {r + 1}
<1>1. Paired(b, q, K)
  BY DEF Sound, Half
<1>2. n \in Nat /\ r \in Index /\ r + 1 \in Index /\ r \in K /\ K \subseteq Index /\ r # r + 1
  <2>1. n \in Nat /\ MaxPhotos \in Nat
    BY IndexOf
  <2>2. QED
    BY <2>1 DEF First, Index
<1>3. q[r] = p[r + 1] /\ \A k \in K : k # r => q[k] = p[k]
  BY <1>2 DEF Dir
<1> HIDE DEF q
<1>4. p[r + 1] # Missing
  BY <1>1, <1>2, <1>3 DEF Paired
<1>5. \A k \in K : Renamed(p, r)[k] = q[k]
  BY <1>2, <1>3, <1>4, RenamedDir
<1>6. QED
  BY <1>1, <1>5, PairedSame

-----------------------------------------------------------------------------
(* A step of one script and the items of the others *)

LEMMA ItemOf ==
    ASSUME Typed, WorkOK, GrowOK, NEW t \in Script
    PROVE  /\ command[t] \in Photographing <=> self[t].item \in Item
           /\ self[t].item \in Item => self[t].item \in Items(t)
           /\ \A id \in DOMAIN own[t] : id \in Id /\ own[t][id] \in Row /\ own[t][id].item \in Item /\ own[t][id].item \in Items(t)
           /\ command[t] = "edit" => \A k \in 1..Len(todo[t]) : todo[t][k] \in ListedSet /\ todo[t][k].item \in Items(t)
           /\ Items(t) \subseteq Item
<1>1. OwnOK(t) /\ HandOK(t) /\ own[t] \in OwnSet /\ command[t] \in Command
  BY CommandOf, HandOf DEF GrowOK
<1>2. command[t] \in Photographing <=> self[t].item \in Item
  BY <1>1, CatalogueAssumption DEF HandOK, Nobody
<1>3. self[t].item \in Item => self[t].item \in Items(t)
  BY DEF Items
<1>4. ASSUME NEW id \in DOMAIN own[t]
      PROVE  id \in Id /\ own[t][id] \in Row /\ own[t][id].item \in Item /\ own[t][id].item \in Items(t)
  <2>1. id \in Id /\ own[t][id] \in Entry
    BY <1>1, OwnOf
  <2>2. own[t][id] # NoRow
    <3>1. CASE command[t] = "import"
      BY <1>1, <3>1 DEF OwnOK, ImportOK
    <3>2. CASE command[t] \in {"photo add", "photo remove", "edit"}
      BY <1>1, <3>2 DEF OwnOK, ChangeOK
    <3>3. CASE command[t] \in {"none", "move"}
      <4>1. own[t] = <<>>
        BY <1>1, <3>3 DEF OwnOK, MoveOK, HandOK
      <4>2. QED
        BY <4>1, EmptyOwn
    <3>4. QED
      BY <1>1, <3>1, <3>2, <3>3 DEF Command
  <2>3. own[t][id] \in Row /\ own[t][id].item \in Item
    BY <2>1, <2>2 DEF Entry, Row
  <2>4. QED
    BY <2>1, <2>3 DEF Items
<1>5. ASSUME command[t] = "edit", NEW k \in 1..Len(todo[t]) PROVE todo[t][k] \in ListedSet /\ todo[t][k].item \in Items(t)
  <2>1. todo[t] \in Seq(ListedSet)
    BY <1>1, <1>5 DEF HandOK
  <2>2. todo[t][k] \in ListedSet /\ DOMAIN todo[t] = 1..Len(todo[t])
    BY <2>1, <1>5, ElementOfSeq, LenProperties
  <2>3. todo[t][k].item \in Item
    BY <2>2 DEF ListedSet
  <2>4. QED
    BY <1>5, <2>2, <2>3 DEF Items
<1>6. QED
  BY <1>2, <1>3, <1>4, <1>5, ItemsTyped

LEMMA ItemsStay == ASSUME NEW t \in Script, Waits(t) PROVE Items(t)' = Items(t)
BY DEF Waits, Items

\* The step has to do with the files and rows of the script's own items only.
Elsewhere(s) ==
    /\ spoiled \subseteq spoiled' /\ Grows
    /\ \A i \in Item \ Items(s) : big'[i] = big[i] /\ preview'[i] = preview[i]
    /\ \A id \in Ids(rows) : rows[id].item \in Items(s) \/ rows'[id] = rows[id]

LEMMA OthersMatch ==
    ASSUME Typed, WorkOK, GrowOK, MatchOK, NEW s \in Script, NEW t \in Script, t # s, Waits(t), Elsewhere(s)
    PROVE  HandMatch(t)'
<1>1. /\ pc'[t] = pc[t] /\ command'[t] = command[t] /\ own'[t] = own[t] /\ self'[t] = self[t] /\ photo'[t] = photo[t]
      /\ num'[t] = num[t] /\ todo'[t] = todo[t] /\ HandMatch(t) /\ OwnOK(t)
  BY DEF Waits, MatchOK, GrowOK
<1>2. ASSUME NEW i \in Items(t), i \notin spoiled'
      PROVE  i \notin spoiled /\ i \notin Items(s) /\ big'[i] = big[i] /\ preview'[i] = preview[i]
  BY <1>2, ItemsTyped DEF Elsewhere, MatchOK, Alone
<1>3. ASSUME NEW id \in Ids(rows), NEW row, row = rows[id], row.item \in Items(t), row.item \notin spoiled' PROVE rows'[id] = row
  BY <1>2, <1>3 DEF Elsewhere
<1>4. ASSUME NEW id \in Ids(rows), Sole(id)' PROVE Sole(id)
  BY <1>4 DEF Sole, Elsewhere, Grows
<1>5. SelfMatch(t)'
  <2>1. PICK obj : obj = self[t]
    OBVIOUS
  <2>2. SUFFICES ASSUME obj.item \in Item \ spoiled', command[t] = "import" \/ Sole(obj.id)'
                 PROVE  Sound(pc[t], big'[obj.item], preview'[obj.item], obj.photos, num[t], photo[t])
    BY <1>1, <2>1 DEF SelfMatch, Sole
  <2>3. obj.item \in Items(t) /\ command[t] \in Photographing
    BY <2>1, <2>2, ItemOf
  <2>4. obj.item \notin spoiled /\ big'[obj.item] = big[obj.item] /\ preview'[obj.item] = preview[obj.item]
    BY <1>2, <2>2, <2>3
  <2>5. command[t] = "import" \/ Sole(obj.id)
    <3>1. command[t] # "import" => obj.id \in Ids(rows)
      BY <1>1, <2>1, <2>3 DEF OwnOK, SelfOK, Same, Photographing
    <3>2. QED
      BY <1>4, <2>2, <3>1
  <2>6. Sound(pc[t], big[obj.item], preview[obj.item], obj.photos, num[t], photo[t])
    BY <1>1, <2>1, <2>2, <2>4, <2>5 DEF HandMatch, SelfMatch
  <2>7. QED
    BY <2>4, <2>6
<1>6. ImportMatch(t)'
  <2>1. SUFFICES ASSUME command[t] = "import", NEW id \in DOMAIN own[t], NEW row, row = own[t][id]
                 PROVE  /\ row.item \notin spoiled' /\ SoleOwn(t, id)' => Paired(big'[row.item], preview'[row.item], First(row.photos))
                        /\ id = self[t].id => row.photos <= self[t].photos
    BY <1>1 DEF ImportMatch
  <2>2. /\ row.item \notin spoiled /\ SoleOwn(t, id) => Paired(big[row.item], preview[row.item], First(row.photos))
        /\ id = self[t].id => row.photos <= self[t].photos
    BY <1>1, <2>1 DEF HandMatch, ImportMatch
  <2>3. SoleOwn(t, id)' => SoleOwn(t, id)
    BY <1>1 DEF SoleOwn, Elsewhere, Grows
  <2>4. row.item \in Items(t)
    BY <2>1, ItemOf
  <2>5. QED
    BY <1>2, <2>2, <2>3, <2>4
<1>7. AddMatch(t)'
  <2>1. SUFFICES ASSUME command[t] = "photo add", self[t].item \notin spoiled' PROVE rows'[self[t].id].photos <= self[t].photos
    BY <1>1 DEF AddMatch
  <2>2. self[t].item \in Items(t) /\ self[t].id \in Ids(rows) /\ rows[self[t].id].item = self[t].item
    BY <1>1, <2>1, ItemOf DEF OwnOK, SelfOK, Same, Photographing
  <2>3. rows'[self[t].id] = rows[self[t].id]
    BY <1>3, <2>1, <2>2
  <2>4. self[t].item \notin spoiled
    BY <1>2, <2>1, <2>2
  <2>5. QED
    BY <1>1, <2>1, <2>3, <2>4 DEF HandMatch, AddMatch
<1>8. ChangeMatch(t)'
  BY <1>1 DEF HandMatch, ChangeMatch
<1>9. EditMatch(t)'
  <2>1. SUFFICES ASSUME command[t] = "edit"
                 PROVE  /\ \A id \in DOMAIN own[t] : own[t][id].item \notin spoiled' => own[t][id] = rows'[id]
                        /\ \A k \in 1..Len(todo[t]) : todo[t][k].item \notin spoiled' => Fields(todo[t][k]) = rows'[todo[t][k].id]
    BY <1>1 DEF EditMatch
  <2>2. ASSUME NEW id \in DOMAIN own[t], own[t][id].item \notin spoiled' PROVE own[t][id] = rows'[id]
    <3>1. id \in Ids(rows) /\ rows[id].item = own[t][id].item /\ own[t][id].item \in Items(t)
      BY <1>1, <2>1, ItemOf DEF OwnOK, ChangeOK, Same
    <3>2. rows'[id] = rows[id] /\ own[t][id].item \notin spoiled
      BY <1>2, <1>3, <2>2, <3>1
    <3>3. QED
      BY <1>1, <2>1, <2>2, <3>2 DEF HandMatch, EditMatch
  <2>3. ASSUME NEW k \in 1..Len(todo[t]), todo[t][k].item \notin spoiled' PROVE Fields(todo[t][k]) = rows'[todo[t][k].id]
    <3>1. todo[t][k].id \in Ids(rows) /\ rows[todo[t][k].id].item = todo[t][k].item /\ todo[t][k].item \in Items(t)
      BY <1>1, <2>1, ItemOf DEF OwnOK, EditOK, Same
    <3>2. rows'[todo[t][k].id] = rows[todo[t][k].id] /\ todo[t][k].item \notin spoiled
      BY <1>2, <1>3, <2>3, <3>1
    <3>3. QED
      BY <1>1, <2>1, <2>3, <3>2 DEF HandMatch, EditMatch
  <2>4. QED
    BY <2>2, <2>3
<1>10. QED
  BY <1>5, <1>6, <1>7, <1>8, <1>9 DEF HandMatch

\* The script turns to items that no other has, or that are spoiled by that.
Takes(s) == \A t \in Script : t # s => Items(t) \cap Items(s)' \subseteq spoiled'

LEMMA StepMatch ==
    ASSUME Typed, WorkOK, GrowOK, MatchOK, NEW s \in Script, OthersWait(s), Elsewhere(s), Takes(s), RowsMatch', HandMatch(s)'
    PROVE  MatchOK'
<1>1. Alone'
  <2>1. ASSUME NEW t \in Script, t # s PROVE Items(t)' = Items(t)
    BY <2>1, ItemsStay DEF OthersWait
  <2>2. ASSUME NEW t \in Script, NEW u \in Script, t # u PROVE Items(t)' \cap Items(u)' \subseteq spoiled'
    <3>1. CASE t # s /\ u # s
      BY <2>1, <2>2, <3>1 DEF Elsewhere, MatchOK, Alone
    <3>2. CASE t = s \/ u = s
      BY <2>1, <2>2, <3>2 DEF Takes
    <3>3. QED
      BY <3>1, <3>2
  <2>3. QED
    BY <2>2 DEF Alone
<1>2. ASSUME NEW t \in Script PROVE HandMatch(t)'
  <2>1. CASE t = s
    BY <2>1
  <2>2. CASE t # s
    BY <2>2, OthersMatch DEF OthersWait
  <2>3. QED
    BY <2>1, <2>2
<1>3. QED
  BY <1>1, <1>2 DEF MatchOK

\* Files that the rows tell of stay.
RowFiles(s) == \A id \in Ids(rows) :
    /\ Sole(id) /\ rows[id].item \notin spoiled' /\ ~Shifting(s, rows[id].item)
    => \A k \in First(rows[id].photos) :
           big'[rows[id].item][k] = big[rows[id].item][k] /\ preview'[rows[id].item][k] = preview[rows[id].item][k]

LEMMA ShiftingOthers ==
    ASSUME NEW t \in Script, Waits(t), NEW i PROVE Shifting(t, i)' <=> Shifting(t, i)
<1>1. Items(t)' = Items(t)
  BY ItemsStay
<1>2. QED
  BY <1>1 DEF Shifting, Waits

LEMMA RowsMatchStay ==
    ASSUME MatchOK, NEW s \in Script, OthersWait(s), rows' = rows, spoiled \subseteq spoiled', RowFiles(s),
           \A i \in Listed : i \notin spoiled' /\ Shifting(s, i) => Shifting(s, i)'
    PROVE  RowsMatch'
<1>1. SUFFICES ASSUME NEW id \in Ids(rows), NEW row, row = rows[id], Sole(id), row.item \notin spoiled',
                      \A t \in Script : ~Shifting(t, row.item)'
               PROVE  Paired(big'[row.item], preview'[row.item], First(row.photos))
  BY DEF RowsMatch, Sole
<1>2. \A t \in Script : ~Shifting(t, row.item)
  <2>1. ASSUME NEW t \in Script, t # s PROVE ~Shifting(t, row.item)
    BY <1>1, <2>1, ShiftingOthers DEF OthersWait
  <2>2. ~Shifting(s, row.item)
    BY <1>1 DEF Listed
  <2>3. QED
    BY <2>1, <2>2
<1>3. Paired(big[row.item], preview[row.item], First(row.photos))
  BY <1>1, <1>2 DEF MatchOK, RowsMatch
<1>4. \A k \in First(row.photos) : big'[row.item][k] = big[row.item][k] /\ preview'[row.item][k] = preview[row.item][k]
  BY <1>1, <1>2 DEF RowFiles
<1>5. QED
  BY <1>3, <1>4, PairedSame

\* The object in hand matches after the step if its files do.
LEMMA SelfDone ==
    ASSUME NEW s \in Script, NEW at, NEW does, NEW snap, NEW rs, NEW obj, NEW p, NEW n, NEW list, rows' = rows,
           Done(s, at, does, snap, rs, obj, p, n, list),
           obj.item \in Item \ spoiled' /\ (does = "import" \/ Sole(obj.id))
               => Sound(at, big'[obj.item], preview'[obj.item], obj.photos, n, p)
    PROVE  SelfMatch(s)'
<1>1. /\ pc'[s] = at /\ command'[s] = does /\ self'[s] = obj /\ photo'[s] = p /\ num'[s] = n
  BY DEF Done, Has
<1>2. Sole(self[s].id)' <=> Sole(obj.id)
  BY <1>1 DEF Sole
<1>3. QED
  BY <1>1, <1>2 DEF SelfMatch

LEMMA IdleMatch ==
    ASSUME NEW s \in Script, NEW at, NEW does, does \in {"none", "move"}, NEW snap, NEW rs, NEW p, NEW n, NEW list,
           Done(s, at, does, snap, rs, Nobody, p, n, list)
    PROVE  HandMatch(s)'
<1>1. command'[s] = does /\ self'[s] = Nobody /\ Nobody.item \notin Item
  BY CatalogueAssumption DEF Done, Has, Nobody
<1>2. SelfMatch(s)'
  BY <1>1 DEF SelfMatch
<1>3. ImportMatch(s)' /\ AddMatch(s)' /\ ChangeMatch(s)' /\ EditMatch(s)'
  BY <1>1 DEF ImportMatch, AddMatch, ChangeMatch, EditMatch
<1>4. QED
  BY <1>2, <1>3 DEF HandMatch

-----------------------------------------------------------------------------
(* The scripts begin *)

\* The files of an item that is met by no script are those its only row tells.
LEMMA MetMatch ==
    ASSUME Typed, WorkOK, GrowOK, MatchOK, NEW s \in Script, command[s] = "none", NEW id \in Ids(rows), Sole(id),
           Meets(s, {rows[id].item}), rows[id].item \notin spoiled', NEW r, NEW x, NEW at, at \notin Half \cup {"preview"}
    PROVE  Sound(at, big[rows[id].item], preview[rows[id].item], rows[id].photos, r, x)
<1>1. rows[id].item \in Item
  BY RowOf DEF GrowOK
<1>2. spoiled' = spoiled \cup ({rows[id].item} \cap UNION {Items(t) : t \in Script \ {s}})
  BY DEF Meets
<1>3. ASSUME NEW t \in Script PROVE ~Shifting(t, rows[id].item)
  <2>1. CASE t = s
    BY <2>1 DEF Shifting
  <2>2. CASE t # s
    <3>1. rows[id].item \notin Items(t)
      BY <1>2, <2>2
    <3>2. QED
      BY <1>1, <3>1, ItemOf DEF Shifting
  <2>3. QED
    BY <2>1, <2>2
<1>4. Paired(big[rows[id].item], preview[rows[id].item], First(rows[id].photos))
  BY <1>2, <1>3 DEF MatchOK, RowsMatch
<1>5. QED
  BY <1>4 DEF Sound, Half

\* Most steps change neither files nor rows.
LEMMA QuietMatch ==
    ASSUME Typed, WorkOK, GrowOK, MatchOK, NEW s \in Script, OthersWait(s), UNCHANGED <<rows, big, preview>>,
           spoiled \subseteq spoiled', Takes(s), HandMatch(s)',
           \A i \in Listed : i \notin spoiled' /\ Shifting(s, i) => Shifting(s, i)'
    PROVE  MatchOK'
<1>1. Elsewhere(s) /\ RowFiles(s)
  BY DEF Elsewhere, Grows, RowFiles
<1>2. RowsMatch'
  BY <1>1, RowsMatchStay
<1>3. QED
  BY <1>1, <1>2, StepMatch

\* So do those with which a script begins.
LEMMA BeginMatch ==
    ASSUME Typed, WorkOK, GrowOK, MatchOK, NEW s \in Script, pc[s] = "idle", OthersWait(s), UNCHANGED <<rows, big, preview>>,
           NEW met, Meets(s, met) \/ (spoiled' = spoiled /\ met = {}), Items(s)' \subseteq met, HandMatch(s)'
    PROVE  MatchOK'
<1>1. command[s] = "none"
  BY IdleOf
<1>2. spoiled \subseteq spoiled' /\ Takes(s)
  BY DEF Takes, Meets
<1>3. \A i : ~Shifting(s, i)
  BY <1>1 DEF Shifting
<1>4. QED
  BY <1>2, <1>3, QuietMatch

\* The items a script has that just began.
LEMMA BegunItems ==
    ASSUME NEW s \in Script, NEW at, NEW does, NEW snap, NEW obj, NEW p, NEW n, NEW list,
           Done(s, at, does, snap, <<>>, obj, p, n, list)
    PROVE  /\ does # "edit" => Items(s)' \subseteq {obj.item} \cap Item
           /\ obj = Nobody /\ list \in Seq(ListedSet) => Items(s)' \subseteq {list[k].item : k \in 1..Len(list)}
<1>1. command'[s] = does /\ own'[s] = <<>> /\ self'[s] = obj /\ todo'[s] = list /\ DOMAIN own'[s] = {}
  BY EmptyOwn DEF Done, Has
<1>2. does # "edit" => Items(s)' \subseteq {obj.item} \cap Item
  BY <1>1 DEF Items
<1>3. ASSUME obj = Nobody, list \in Seq(ListedSet) PROVE Items(s)' \subseteq {list[k].item : k \in 1..Len(list)}
  <2>1. DOMAIN list = 1..Len(list) /\ obj.item \notin Item
    BY <1>3, LenProperties, CatalogueAssumption DEF Nobody
  <2>2. QED
    BY <1>1, <2>1 DEF Items
<1>4. QED
  BY <1>2, <1>3

LEMMA BeginsMatch ==
    ASSUME Typed, WorkOK, GrowOK, MatchOK, NEW s \in Script, Begins(s)
    PROVE  MatchOK'
<1>0. RowsOK /\ pc[s] = "idle" /\ command[s] = "none"
  <2>1. pc[s] = "idle"
    BY DEF Begins, BeginImport, BeginPhotoAdd, BeginPhotoRemove, BeginEdit, BeginMove, Begin
  <2>2. QED
    BY <2>1, IdleOf DEF GrowOK
<1>1. CASE BeginImport(s)
  <2>1. PICK i \in Item :
             /\ Done(s, "insert", "import", rows, <<>>, [id |-> 0, item |-> i, photos |-> 0], Missing, num[s], <<>>)
             /\ Meets(s, {i}) /\ UNCHANGED <<rows, big, preview>>
    BY <1>0, <1>1, BeginImportDoes
  <2>2. PICK obj : obj = [id |-> 0, item |-> i, photos |-> 0]
    OBVIOUS
  <2>3. Done(s, "insert", "import", rows, <<>>, obj, Missing, num[s], <<>>) /\ obj.photos = 0 /\ obj.item = i
    BY <2>1, <2>2
  <2>4. command'[s] = "import" /\ DOMAIN own'[s] = {} /\ OthersWait(s)
    BY <2>3, EmptyOwn DEF Done, Has
  <2>5. SelfMatch(s)'
    <3>1. Sound("insert", big'[i], preview'[i], 0, num[s], Missing)
      BY NoPhotos DEF Sound, Half
    <3>2. QED
      BY <2>1, <2>3, <3>1, SelfDone
  <2>6. HandMatch(s)'
    BY <2>4, <2>5 DEF HandMatch, ImportMatch, AddMatch, ChangeMatch, EditMatch
  <2>7. "import" # "edit"
    OBVIOUS
  <2>8. Items(s)' \subseteq {i}
    BY <2>3, <2>7, BegunItems
  <2>9. QED
    BY <1>0, <2>1, <2>4, <2>6, <2>8, BeginMatch
<1>2. ASSUME NEW id \in Ids(rows), NEW at, at \in {"big", "unlinkBig"}, NEW does, does \in {"photo add", "photo remove"}, NEW n,
             Done(s, at, does, rows, <<>>, Object(rows, id), Missing, n, <<>>),
             Meets(s, {rows[id].item}), UNCHANGED <<rows, big, preview>>
      PROVE  MatchOK'
  <2>1. PICK obj : obj = Object(rows, id)
    OBVIOUS
  <2>2. obj.id = id /\ obj.item = rows[id].item /\ obj.photos = rows[id].photos /\ obj.photos \in Nat
    <3>1. rows[id].photos \in 0..MaxPhotos
      BY <1>0, RowOf
    <3>2. QED
      BY <2>1, <3>1, IndexOf DEF Object
  <2>3. Done(s, at, does, rows, <<>>, obj, Missing, n, <<>>)
    BY <1>2, <2>1
  <2>4. command'[s] = does /\ own'[s] = <<>> /\ self'[s] = obj /\ pc'[s] = at /\ OthersWait(s)
    BY <2>3 DEF Done, Has
  <2>5. at \notin Half \cup {"preview"} /\ does # "import" /\ does # "edit" /\ at # "commit"
    BY <1>2 DEF Half
  <2>6. SelfMatch(s)'
    <3>1. obj.item \in Item \ spoiled' /\ (does = "import" \/ Sole(obj.id))
            => Sound(at, big'[obj.item], preview'[obj.item], obj.photos, n, Missing)
      BY <1>0, <1>2, <2>2, <2>5, MetMatch
    <3>2. QED
      BY <1>2, <2>3, <3>1, SelfDone
  <2>7. AddMatch(s)'
    <3>1. rows'[self'[s].id].photos = obj.photos /\ self'[s].photos = obj.photos
      BY <1>2, <2>2, <2>4
    <3>2. obj.photos <= obj.photos
      BY <2>2
    <3>3. QED
      BY <3>1, <3>2 DEF AddMatch
  <2>8. HandMatch(s)'
    BY <2>4, <2>5, <2>6, <2>7 DEF HandMatch, ImportMatch, ChangeMatch, EditMatch
  <2>9. Items(s)' \subseteq {rows[id].item}
    BY <2>2, <2>3, <2>5, BegunItems
  <2>10. QED
    BY <1>0, <1>2, <2>4, <2>8, <2>9, BeginMatch
<1>3. CASE BeginPhotoAdd(s)
  <2>1. PICK id \in Ids(rows) :
             /\ Done(s, "big", "photo add", rows, <<>>, Object(rows, id), Missing, num[s], <<>>)
             /\ Meets(s, {rows[id].item}) /\ UNCHANGED <<rows, big, preview>>
    BY <1>0, <1>3, BeginPhotoAddDoes
  <2>2. QED
    BY <1>2, <2>1
<1>4. CASE BeginPhotoRemove(s)
  <2>1. PICK id \in Ids(rows) : \E n \in 0..(rows[id].photos - 1) :
             /\ Done(s, "unlinkBig", "photo remove", rows, <<>>, Object(rows, id), Missing, n, <<>>)
             /\ Meets(s, {rows[id].item}) /\ UNCHANGED <<rows, big, preview>>
    BY <1>0, <1>4, BeginPhotoRemoveDoes
  <2>2. QED
    BY <1>2, <2>1
<1>5. CASE BeginEdit(s)
  <2>1. PICK list \in Seq(ListedSet) :
             /\ \A k \in 1..Len(list) : list[k].id \in Ids(rows) /\ list[k] = Object(rows, list[k].id)
             /\ Done(s, "edit", "edit", rows, <<>>, Nobody, Missing, num[s], list)
             /\ Meets(s, {list[k].item : k \in 1..Len(list)}) /\ UNCHANGED <<rows, big, preview>>
    BY <1>0, <1>5, BeginEditDoes
  <2>2. /\ command'[s] = "edit" /\ own'[s] = <<>> /\ DOMAIN own'[s] = {} /\ todo'[s] = list /\ self'[s] = Nobody
        /\ Nobody.item \notin Item /\ OthersWait(s)
    BY <2>1, EmptyOwn, CatalogueAssumption DEF Done, Has, Nobody
  <2>3. ASSUME NEW k \in 1..Len(list) PROVE Fields(list[k]) = rows[list[k].id]
    <3>1. PICK id \in Ids(rows) : list[k] = Object(rows, id) /\ list[k].id = id
      BY <2>1
    <3>2. rows[id] \in Row
      BY <1>0, RowOf
    <3>3. list[k].item = rows[id].item /\ list[k].photos = rows[id].photos
      BY <3>1 DEF Object
    <3>4. QED
      BY <3>1, <3>2, <3>3 DEF Fields, Row
  <2>4. EditMatch(s)'
    BY <2>1, <2>2, <2>3 DEF EditMatch
  <2>5. HandMatch(s)'
    BY <2>2, <2>4 DEF HandMatch, SelfMatch, ImportMatch, AddMatch, ChangeMatch
  <2>6. Items(s)' \subseteq {list[k].item : k \in 1..Len(list)}
    BY <2>1, BegunItems
  <2>7. QED
    BY <1>0, <2>1, <2>2, <2>5, <2>6, BeginMatch
<1>6. CASE BeginMove(s)
  <2>1. PICK list \in Seq(MoveSet) :
             Done(s, "move", "move", rows, <<>>, Nobody, Missing, num[s], list) /\ UNCHANGED <<rows, big, preview, spoiled>>
    BY <1>0, <1>6, BeginMoveDoes
  <2>2. HandMatch(s)' /\ OthersWait(s)
    BY <2>1, IdleMatch DEF Done
  <2>3. "move" # "edit" /\ Nobody.item \notin Item
    BY CatalogueAssumption DEF Nobody
  <2>4. Items(s)' \subseteq {}
    BY <2>1, <2>3, BegunItems
  <2>5. QED
    BY <1>0, <2>1, <2>2, <2>4, BeginMatch
<1>7. QED
  BY <1>1, <1>3, <1>4, <1>5, <1>6 DEF Begins

-----------------------------------------------------------------------------
(* The scripts work on their photos *)

\* A script writes beyond the photos it has counted, or removes one.
FilesBelow(s) ==
    /\ \A i \in Item : i # self[s].item => big'[i] = big[i] /\ preview'[i] = preview[i]
    /\ command[s] # "photo remove" => \A k \in First(self[s].photos) :
           big'[self[s].item][k] = big[self[s].item][k] /\ preview'[self[s].item][k] = preview[self[s].item][k]

LEMMA BelowRows ==
    ASSUME Typed, WorkOK, GrowOK, MatchOK, NEW s \in Script, spoiled' = spoiled, FilesBelow(s), command[s] \in Photographing
    PROVE  RowFiles(s)
<1>1. SUFFICES ASSUME NEW id \in Ids(rows), NEW row, row = rows[id], Sole(id), row.item \notin spoiled, ~Shifting(s, row.item),
                      NEW k \in First(row.photos)
               PROVE  big'[row.item][k] = big[row.item][k] /\ preview'[row.item][k] = preview[row.item][k]
  BY DEF RowFiles
<1>2. row.item \in Item /\ row.photos \in 0..MaxPhotos /\ self[s].photos \in 0..MaxPhotos
  BY <1>1, RowOf, HandOf DEF GrowOK
<1>3. CASE row.item # self[s].item
  BY <1>2, <1>3 DEF FilesBelow
<1>4. CASE row.item = self[s].item
  <2>1. row.item \in Items(s)
    BY <1>2, <1>4, ItemOf
  <2>2. command[s] = "photo add"
    BY <1>1, <1>4, <2>1 DEF Shifting, Photographing
  <2>3. self[s].id \in Ids(rows) /\ rows[self[s].id].item = self[s].item
    BY <2>2 DEF GrowOK, OwnOK, SelfOK, Same
  <2>4. id = self[s].id
    BY <1>1, <1>4, <2>3 DEF Sole
  <2>5. row.photos <= self[s].photos
    BY <1>1, <1>4, <2>2, <2>4 DEF MatchOK, HandMatch, AddMatch
  <2>6. k \in First(self[s].photos)
    BY <1>1, <1>2, <2>5, FirstOf
  <2>7. QED
    BY <1>4, <2>2, <2>6 DEF FilesBelow
<1>5. QED
  BY <1>3, <1>4

\* The rows an import has saved: of the item it works on, only the last.
LEMMA BelowOwn ==
    ASSUME Typed, WorkOK, GrowOK, MatchOK, NEW s \in Script, spoiled' = spoiled, FilesBelow(s), command[s] = "import", pc[s] # "insert",
           NEW id \in DOMAIN own[s], NEW row, row = own[s][id], SoleOwn(s, id), row.item \notin spoiled
    PROVE  Paired(big'[row.item], preview'[row.item], First(row.photos)) /\ (row.item = self[s].item => id = self[s].id)
<1>1. row.item \in Item /\ row.photos \in 0..MaxPhotos /\ self[s].photos \in 0..MaxPhotos
  BY Counts, ItemOf, HandOf
<1>2. self[s].id \in DOMAIN own[s] /\ own[s][self[s].id].item = self[s].item
  BY DEF GrowOK, OwnOK, ImportOK
<1>3. row.item = self[s].item => id = self[s].id
  BY <1>2 DEF SoleOwn
<1>4. /\ Paired(big[row.item], preview[row.item], First(row.photos))
      /\ id = self[s].id => row.photos <= self[s].photos
  BY DEF MatchOK, HandMatch, ImportMatch
<1>5. \A k \in First(row.photos) : big'[row.item][k] = big[row.item][k] /\ preview'[row.item][k] = preview[row.item][k]
  <2>1. CASE row.item # self[s].item
    BY <1>1, <2>1 DEF FilesBelow
  <2>2. CASE row.item = self[s].item
    <3>1. First(row.photos) \subseteq First(self[s].photos)
      BY <1>1, <1>3, <1>4, <2>2, FirstOf
    <3>2. QED
      BY <2>2, <3>1 DEF FilesBelow
  <2>3. QED
    BY <2>1, <2>2
<1>6. Paired(big'[row.item], preview'[row.item], First(row.photos))
  BY <1>4, <1>5, PairedSame
<1>7. QED
  BY <1>3, <1>6

LEMMA AtMost == ASSUME NEW a \in Nat, NEW b \in Nat, NEW c \in Nat, a <= b, b <= c PROVE a <= c
OBVIOUS

LEMMA WorkMatch ==
    ASSUME Typed, WorkOK, GrowOK, MatchOK, NEW s \in Script, rows' = rows, spoiled' = spoiled, FilesBelow(s),
           NEW at, NEW obj, NEW p, NEW n, Done(s, at, command[s], snapshot[s], own[s], obj, p, n, todo[s]), SelfMatch(s)',
           command[s] \in Photographing, obj.id = self[s].id, obj.item = self[s].item,
           command[s] # "photo remove" => self[s].photos <= obj.photos,
           pc[s] # "insert", command[s] = "import" \/ (pc[s] # "commit" /\ at # "commit")
    PROVE  MatchOK'
<1>1. /\ pc'[s] = at /\ command'[s] = command[s] /\ own'[s] = own[s] /\ self'[s] = obj /\ OthersWait(s) /\ obj \in ObjectSet
      /\ HandMatch(s)
  <2>1. /\ pc'[s] = at /\ command'[s] = command[s] /\ own'[s] = own[s] /\ self'[s] = obj /\ OthersWait(s)
    BY DEF Done, Has
  <2>2. self' \in [Script -> ObjectSet]
    BY DEF Done, ScriptTypes
  <2>3. obj \in ObjectSet
    BY <2>1, <2>2
  <2>4. QED
    BY <2>1, <2>3 DEF MatchOK
<1>2. self[s].item \in Items(s) /\ self[s].photos \in Nat /\ obj.photos \in Nat
  <2>1. self[s].photos \in 0..MaxPhotos /\ obj.photos \in 0..MaxPhotos
    BY <1>1, HandOf DEF ObjectSet
  <2>2. QED
    BY <2>1, ItemOf, IndexOf
<1>3. Items(s)' = Items(s)
  <2>1. command[s] # "edit"
    BY DEF Photographing
  <2>2. QED
    BY <1>1, <2>1 DEF Items
<1>4. Elsewhere(s)
  <2>1. Grows
    BY DEF Grows
  <2>2. ASSUME NEW i \in Item \ Items(s) PROVE big'[i] = big[i] /\ preview'[i] = preview[i]
    BY <1>2, <2>2 DEF FilesBelow
  <2>3. QED
    BY <2>1, <2>2 DEF Elsewhere
<1>5. Takes(s)
  BY <1>3 DEF Takes, MatchOK, Alone
<1>6. RowsMatch'
  <2>1. \A i : Shifting(s, i) => Shifting(s, i)'
    BY <1>1, <1>3 DEF Shifting
  <2>2. QED
    BY <1>1, <2>1, BelowRows, RowsMatchStay
<1>7. ImportMatch(s)'
  <2>1. SUFFICES ASSUME command[s] = "import", NEW id \in DOMAIN own[s], NEW row, row = own[s][id]
                 PROVE  /\ row.item \notin spoiled /\ SoleOwn(s, id)' => Paired(big'[row.item], preview'[row.item], First(row.photos))
                        /\ id = obj.id => row.photos <= obj.photos
    BY <1>1 DEF ImportMatch
  <2>2. SoleOwn(s, id)' => SoleOwn(s, id)
    BY <1>1 DEF SoleOwn
  <2>3. row.item \notin spoiled /\ SoleOwn(s, id)' => Paired(big'[row.item], preview'[row.item], First(row.photos))
    BY <2>1, <2>2, BelowOwn
  <2>4. ASSUME id = obj.id PROVE row.photos <= obj.photos
    <3>1. row.photos <= self[s].photos /\ self[s].photos <= obj.photos
      BY <1>1, <2>1, <2>4 DEF HandMatch, ImportMatch
    <3>2. row.photos \in 0..MaxPhotos
      BY <2>1, Counts
    <3>3. row.photos \in Nat
      BY <3>2, IndexOf
    <3>4. QED
      BY <1>2, <3>1, <3>3, AtMost
  <2>5. QED
    BY <2>3, <2>4
<1>8. AddMatch(s)'
  <2>1. SUFFICES ASSUME command[s] = "photo add", obj.item \notin spoiled PROVE rows[obj.id].photos <= obj.photos
    BY <1>1 DEF AddMatch
  <2>2. rows[self[s].id].photos <= self[s].photos /\ self[s].photos <= obj.photos
    BY <1>1, <2>1 DEF HandMatch, AddMatch
  <2>3. rows[self[s].id].photos \in 0..MaxPhotos
    <3>1. self[s].id \in Ids(rows)
      BY <2>1 DEF GrowOK, OwnOK, SelfOK, Same
    <3>2. QED
      BY <3>1, RowOf DEF GrowOK
  <2>4. rows[self[s].id].photos \in Nat
    BY <2>3, IndexOf
  <2>5. QED
    BY <1>2, <2>2, <2>4, AtMost
<1>9. ChangeMatch(s)'
  BY <1>1 DEF HandMatch, ChangeMatch
<1>10. EditMatch(s)'
  BY <1>1 DEF EditMatch, Photographing
<1>11. HandMatch(s)'
  BY <1>7, <1>8, <1>9, <1>10 DEF HandMatch
<1>12. QED
  BY <1>1, <1>4, <1>5, <1>6, <1>11, StepMatch

\* What the step makes of the files of the object's item.
LEMMA SoundDone ==
    ASSUME MatchOK, NEW s \in Script, rows' = rows, spoiled' = spoiled,
           NEW at, NEW obj, NEW p, NEW n, Done(s, at, command[s], snapshot[s], own[s], obj, p, n, todo[s]),
           obj.id = self[s].id, NEW i, i = self[s].item, i = obj.item,
           Sound(pc[s], big[i], preview[i], self[s].photos, num[s], photo[s]) => Sound(at, big'[i], preview'[i], obj.photos, n, p)
    PROVE  SelfMatch(s)'
<1>1. SelfMatch(s)
  BY DEF MatchOK, HandMatch
<1>2. obj.item \in Item \ spoiled' /\ (command[s] = "import" \/ Sole(obj.id)) => Sound(at, big'[obj.item], preview'[obj.item], obj.photos, n, p)
  BY <1>1 DEF SelfMatch
<1>3. QED
  BY <1>2, SelfDone

\* Files of one directory change, in one size.
LEMMA BelowBig ==
    ASSUME NEW s \in Script, NEW i, i = self[s].item, preview' = preview, NEW dir, SetsDir(big', big, i, dir),
           command[s] = "photo remove" \/ \A k \in First(self[s].photos) : dir[k] = big[i][k]
    PROVE  FilesBelow(s)
BY DEF FilesBelow, SetsDir

LEMMA BelowPreview ==
    ASSUME NEW s \in Script, NEW i, i = self[s].item, big' = big, NEW dir, SetsDir(preview', preview, i, dir),
           command[s] = "photo remove" \/ \A k \in First(self[s].photos) : dir[k] = preview[i][k]
    PROVE  FilesBelow(s)
BY DEF FilesBelow, SetsDir

\* After a photo's files are gone, or have moved, the gap is at r.
LEMMA RenumbersMatch ==
    ASSUME Typed, WorkOK, GrowOK, MatchOK, NEW s \in Script, pc[s] \in Removing, rows' = rows, spoiled' = spoiled, FilesBelow(s),
           NEW r \in Nat, r < self[s].photos, Renumbers(s, r), NEW i, i = self[s].item,
           Sound(pc[s], big[i], preview[i], self[s].photos, num[s], photo[s]) => Paired(big'[i], preview'[i], First(self[s].photos) \ {r})
    PROVE  MatchOK'
<1>1. command[s] = "photo remove" /\ command[s] \in Photographing /\ pc[s] # "insert" /\ pc[s] # "commit" /\ self[s].photos \in 0..MaxPhotos
  BY CommandOf, HandOf DEF Photographing, Removing, Renaming
<1>2. Sound(pc[s], big[i], preview[i], self[s].photos, num[s], photo[s])
        => /\ Sound("renameBig", big'[i], preview'[i], self[s].photos, r, photo[s])
           /\ ~(r + 1 < self[s].photos) => Sound("save", big'[i], preview'[i], self[s].photos - 1, r, photo[s])
  BY <1>1, GapSound
<1>3. CASE r + 1 < self[s].photos
  <2>1. Done(s, "renameBig", command[s], snapshot[s], own[s], self[s], photo[s], r, todo[s])
    BY <1>3 DEF Renumbers
  <2>2. SelfMatch(s)'
    BY <1>2, <2>1, SoundDone
  <2>3. QED
    BY <1>1, <2>1, <2>2, WorkMatch
<1>4. CASE ~(r + 1 < self[s].photos)
  <2>1. PICK obj : obj = [id |-> self[s].id, item |-> self[s].item, photos |-> self[s].photos - 1]
    OBVIOUS
  <2>2. Done(s, "save", command[s], snapshot[s], own[s], obj, photo[s], r, todo[s])
    BY <1>4, <2>1 DEF Renumbers
  <2>3. obj.id = self[s].id /\ obj.item = self[s].item /\ obj.photos = self[s].photos - 1
    BY <2>1
  <2>4. SelfMatch(s)'
    <3>1. Sound(pc[s], big[i], preview[i], self[s].photos, num[s], photo[s]) => Sound("save", big'[i], preview'[i], obj.photos, r, photo[s])
      BY <1>2, <1>4, <2>3
    <3>2. QED
      BY <2>2, <2>3, <3>1, SoundDone
  <2>5. QED
    BY <1>1, <2>2, <2>3, <2>4, WorkMatch
<1>5. QED
  BY <1>3, <1>4

LEMMA FileStepMatch ==
    ASSUME Typed, WorkOK, GrowOK, MatchOK, NEW s \in Script, FileStep(s)
    PROVE  MatchOK'
<1> DEFINE n == self[s].photos
<1>0. PICK i : i = self[s].item
  OBVIOUS
<1>1. n \in 0..MaxPhotos /\ n \in Nat /\ (i \in Item => big[i] \in Dir /\ preview[i] \in Dir)
  <2>1. n \in 0..MaxPhotos
    BY HandOf
  <2>2. QED
    BY <2>1, IndexOf DEF Typed, Album, Dir
<1> HIDE DEF n
<1>2. CASE ConvertBig(s)
  <2>1. /\ pc[s] = "big" /\ command[s] \in {"import", "photo add"} /\ i \in Item /\ n \in Index /\ n < MaxPhotos
        /\ \E p \in Photo :
             /\ p # Missing /\ \A k \in Index : p # big[i][k]
             /\ Done(s, "preview", command[s], snapshot[s], own[s], self[s], p, num[s], todo[s])
             /\ SetsDir(big', big, i, [big[i] EXCEPT ![n] = p])
        /\ UNCHANGED <<rows, preview, spoiled>>
    BY <1>0, <1>2, ConvertBigDoes DEF n
  <2>2. PICK p \in Photo :
             /\ p # Missing /\ \A k \in Index : p # big[i][k]
             /\ Done(s, "preview", command[s], snapshot[s], own[s], self[s], p, num[s], todo[s])
             /\ SetsDir(big', big, i, [big[i] EXCEPT ![n] = p])
    BY <2>1
  <2>3. PICK b, q, dir : b = big[i] /\ q = preview[i] /\ dir = [b EXCEPT ![n] = p]
    OBVIOUS
  <2>4. b \in Dir /\ q \in Dir /\ big'[i] = dir /\ preview'[i] = q /\ SetsDir(big', big, i, dir)
    BY <1>1, <2>1, <2>2, <2>3 DEF SetsDir
  <2>5. \A k \in First(n) : dir[k] = b[k]
    BY <1>1, <2>3, <2>4, FirstOf DEF Dir
  <2>6. FilesBelow(s)
    <3>1. SetsDir(big', big, i, dir) /\ \A k \in First(self[s].photos) : dir[k] = big[i][k]
      BY <2>3, <2>4, <2>5 DEF n
    <3>2. QED
      BY <1>0, <2>1, <3>1, BelowBig
  <2>7. Sound("big", b, q, n, num[s], photo[s]) => Sound("preview", dir, q, n, num[s], p)
    <3>1. \A k \in Index : p # b[k]
      BY <2>2, <2>3
    <3>2. n \in 0..MaxPhotos /\ n < MaxPhotos /\ p # Missing
      BY <1>1, <2>1, <2>2
    <3>3. SUFFICES ASSUME Sound("big", b, q, n, num[s], photo[s]) PROVE Sound("preview", [b EXCEPT ![n] = p], q, n, num[s], p)
      BY <2>3
    <3>4. QED
      BY <2>4, <3>1, <3>2, <3>3, BigSound
  <2>8. SelfMatch(s)'
    <3>1. Sound(pc[s], big[i], preview[i], self[s].photos, num[s], photo[s]) => Sound("preview", big'[i], preview'[i], self[s].photos, num[s], p)
      BY <2>1, <2>3, <2>4, <2>7 DEF n
    <3>2. QED
      BY <1>0, <2>1, <2>2, <3>1, SoundDone
  <2>9. /\ command[s] \in Photographing /\ pc[s] # "insert" /\ pc[s] # "commit" /\ "preview" # "commit"
    BY <2>1 DEF Photographing
  <2>10. n <= n
    BY <1>1
  <2>11. QED
    BY <2>1, <2>2, <2>6, <2>8, <2>9, <2>10, WorkMatch DEF n
<1>3. CASE ConvertPreview(s)
  <2>1. /\ pc[s] = "preview" /\ command[s] \in {"import", "photo add"} /\ i \in Item /\ n \in Index
        /\ Done(s, "save", command[s], snapshot[s], own[s], [id |-> self[s].id, item |-> i, photos |-> n + 1], photo[s], num[s], todo[s])
        /\ SetsDir(preview', preview, i, [preview[i] EXCEPT ![n] = photo[s]])
        /\ UNCHANGED <<rows, big, spoiled>>
    BY <1>0, <1>3, ConvertPreviewDoes DEF n
  <2>2. PICK obj : obj = [id |-> self[s].id, item |-> i, photos |-> n + 1]
    OBVIOUS
  <2>3. PICK b, q, dir : b = big[i] /\ q = preview[i] /\ dir = [q EXCEPT ![n] = photo[s]]
    OBVIOUS
  <2>4. b \in Dir /\ q \in Dir /\ big'[i] = b /\ preview'[i] = dir /\ SetsDir(preview', preview, i, dir)
    BY <1>1, <2>1, <2>3 DEF SetsDir
  <2>5. \A k \in First(n) : dir[k] = q[k]
    BY <1>1, <2>3, <2>4, FirstOf DEF Dir
  <2>6. FilesBelow(s)
    <3>1. SetsDir(preview', preview, i, dir) /\ \A k \in First(self[s].photos) : dir[k] = preview[i][k]
      BY <2>3, <2>4, <2>5 DEF n
    <3>2. QED
      BY <1>0, <2>1, <3>1, BelowPreview
  <2>7. Sound("preview", b, q, n, num[s], photo[s]) => Sound("save", b, dir, n + 1, num[s], photo[s])
    BY <1>1, <2>3, <2>4, PreviewSound
  <2>8. /\ obj.id = self[s].id /\ obj.item = i /\ obj.photos = n + 1
        /\ Done(s, "save", command[s], snapshot[s], own[s], obj, photo[s], num[s], todo[s])
    BY <2>1, <2>2
  <2>9. SelfMatch(s)'
    <3>1. Sound(pc[s], big[i], preview[i], self[s].photos, num[s], photo[s]) => Sound("save", big'[i], preview'[i], obj.photos, num[s], photo[s])
      BY <2>1, <2>3, <2>4, <2>7, <2>8 DEF n
    <3>2. QED
      BY <1>0, <2>1, <2>8, <3>1, SoundDone
  <2>10. /\ command[s] \in Photographing /\ pc[s] # "insert" /\ pc[s] # "commit" /\ "save" # "commit"
    BY <2>1 DEF Photographing
  <2>11. n <= obj.photos
    <3>1. n <= n + 1
      BY <1>1
    <3>2. QED
      BY <2>8, <3>1
  <2>12. QED
    BY <1>0, <2>1, <2>6, <2>8, <2>9, <2>10, <2>11, WorkMatch DEF n
\* A removal
<1>4. ASSUME pc[s] \in Removing
      PROVE  /\ command[s] = "photo remove" /\ command[s] \in Photographing /\ pc[s] # "insert" /\ pc[s] # "commit"
             /\ i \in Item /\ num[s] \in Nat /\ num[s] < n /\ (pc[s] \in Renaming => num[s] + 1 < n)
  <2>1. /\ command[s] = "photo remove" /\ i \in Item /\ num[s] \in Nat /\ num[s] < n
    BY <1>0, <1>4, RemovingOf DEF n
  <2>2. pc[s] \in Renaming => num[s] + 1 < n
    BY CommandOf DEF HandOK, n
  <2>3. QED
    BY <1>4, <2>1, <2>2 DEF Photographing, Removing, Renaming
<1>5. CASE UnlinkBig(s)
  <2>1. /\ pc[s] = "unlinkBig" /\ pc[s] \in Removing
        /\ Done(s, "unlinkPreview", command[s], snapshot[s], own[s], self[s], photo[s], num[s], todo[s])
        /\ SetsDir(big', big, i, [big[i] EXCEPT ![num[s]] = Missing])
        /\ UNCHANGED <<rows, preview, spoiled>>
    BY <1>0, <1>5, UnlinkBigDoes DEF Removing
  <2>2. PICK b, q, dir : b = big[i] /\ q = preview[i] /\ dir = [b EXCEPT ![num[s]] = Missing]
    OBVIOUS
  <2>3. b \in Dir /\ q \in Dir /\ big'[i] = dir /\ preview'[i] = q /\ SetsDir(big', big, i, dir)
    BY <1>1, <1>4, <2>1, <2>2 DEF SetsDir
  <2>4. FilesBelow(s)
    BY <1>0, <1>4, <2>1, <2>3, BelowBig
  <2>5. Sound("unlinkBig", b, q, n, num[s], photo[s]) => Sound("unlinkPreview", dir, q, n, num[s], photo[s])
    <3>1. n \in 0..MaxPhotos /\ num[s] \in Nat /\ num[s] < n
      BY <1>1, <1>4, <2>1
    <3>2. SUFFICES ASSUME Sound("unlinkBig", b, q, n, num[s], photo[s])
                   PROVE  Sound("unlinkPreview", [b EXCEPT ![num[s]] = Missing], q, n, num[s], photo[s])
      BY <2>2
    <3>3. QED
      BY <2>3, <3>1, <3>2, UnlinkedSound
  <2>6. SelfMatch(s)'
    <3>1. Sound(pc[s], big[i], preview[i], self[s].photos, num[s], photo[s]) => Sound("unlinkPreview", big'[i], preview'[i], self[s].photos, num[s], photo[s])
      BY <2>1, <2>2, <2>3, <2>5 DEF n
    <3>2. QED
      BY <1>0, <2>1, <3>1, SoundDone
  <2>7. "unlinkPreview" # "commit"
    OBVIOUS
  <2>8. QED
    BY <1>4, <2>1, <2>4, <2>6, <2>7, WorkMatch
<1>6. CASE UnlinkPreview(s)
  <2>1. /\ pc[s] = "unlinkPreview" /\ pc[s] \in Removing /\ Renumbers(s, num[s])
        /\ SetsDir(preview', preview, i, [preview[i] EXCEPT ![num[s]] = Missing])
        /\ UNCHANGED <<rows, big, spoiled>>
    BY <1>0, <1>6, UnlinkPreviewDoes DEF Removing
  <2>2. PICK b, q, dir : b = big[i] /\ q = preview[i] /\ dir = [q EXCEPT ![num[s]] = Missing]
    OBVIOUS
  <2>3. b \in Dir /\ q \in Dir /\ big'[i] = b /\ preview'[i] = dir /\ SetsDir(preview', preview, i, dir)
    BY <1>1, <1>4, <2>1, <2>2 DEF SetsDir
  <2>4. FilesBelow(s)
    BY <1>0, <1>4, <2>1, <2>3, BelowPreview
  <2>5. Sound(pc[s], b, q, n, num[s], photo[s]) => Paired(b, dir, First(n) \ {num[s]})
    <3>1. SUFFICES ASSUME Sound(pc[s], b, q, n, num[s], photo[s]) PROVE Paired(b, dir, First(n) \ {num[s]})
      OBVIOUS
    <3>2. Paired(b, q, First(n) \ {num[s]})
      BY <2>1, <3>1 DEF Sound
    <3>3. \A k \in First(n) \ {num[s]} : dir[k] = q[k]
      BY <1>1, <2>2, <2>3, FirstOf DEF Dir
    <3>4. QED
      BY <3>2, <3>3, PairedSame
  <2>6. Sound(pc[s], big[i], preview[i], self[s].photos, num[s], photo[s]) => Paired(big'[i], preview'[i], First(self[s].photos) \ {num[s]})
    BY <2>2, <2>3, <2>5 DEF n
  <2>7. QED
    BY <1>0, <1>4, <2>1, <2>4, <2>6, RenumbersMatch DEF n
<1>7. CASE RenameBig(s)
  <2>1. /\ pc[s] = "renameBig" /\ pc[s] \in Removing /\ pc[s] \in Renaming
        /\ Done(s, "renamePreview", command[s], snapshot[s], own[s], self[s], photo[s], num[s], todo[s])
        /\ SetsDir(big', big, i, Renamed(big[i], num[s]))
        /\ UNCHANGED <<rows, preview, spoiled>>
    BY <1>0, <1>7, RenameBigDoes DEF Removing, Renaming
  <2>2. PICK b, q, dir : b = big[i] /\ q = preview[i] /\ dir = Renamed(b, num[s])
    OBVIOUS
  <2>3. b \in Dir /\ q \in Dir /\ big'[i] = dir /\ preview'[i] = q /\ SetsDir(big', big, i, dir)
    BY <1>1, <1>4, <2>1, <2>2 DEF SetsDir
  <2>4. FilesBelow(s)
    BY <1>0, <1>4, <2>1, <2>3, BelowBig
  <2>5. Sound("renameBig", b, q, n, num[s], photo[s]) => Sound("renamePreview", dir, q, n, num[s], photo[s])
    BY <1>1, <1>4, <2>1, <2>2, <2>3, RenamedBigSound
  <2>6. SelfMatch(s)'
    <3>1. Sound(pc[s], big[i], preview[i], self[s].photos, num[s], photo[s]) => Sound("renamePreview", big'[i], preview'[i], self[s].photos, num[s], photo[s])
      BY <2>1, <2>2, <2>3, <2>5 DEF n
    <3>2. QED
      BY <1>0, <2>1, <3>1, SoundDone
  <2>7. "renamePreview" # "commit"
    OBVIOUS
  <2>8. QED
    BY <1>4, <2>1, <2>4, <2>6, <2>7, WorkMatch
<1>8. CASE RenamePreview(s)
  <2>1. /\ pc[s] = "renamePreview" /\ pc[s] \in Removing /\ pc[s] \in Renaming /\ Renumbers(s, num[s] + 1)
        /\ SetsDir(preview', preview, i, Renamed(preview[i], num[s]))
        /\ UNCHANGED <<rows, big, spoiled>>
    BY <1>0, <1>8, RenamePreviewDoes DEF Removing, Renaming
  <2>2. PICK b, q, dir : b = big[i] /\ q = preview[i] /\ dir = Renamed(q, num[s])
    OBVIOUS
  <2>3. b \in Dir /\ q \in Dir /\ big'[i] = b /\ preview'[i] = dir /\ SetsDir(preview', preview, i, dir)
    BY <1>1, <1>4, <2>1, <2>2 DEF SetsDir
  <2>4. FilesBelow(s)
    BY <1>0, <1>4, <2>1, <2>3, BelowPreview
  <2>0. n \in 0..MaxPhotos /\ num[s] \in Nat /\ num[s] + 1 < n
    BY <1>1, <1>4, <2>1
  <2>5. Sound("renamePreview", b, q, n, num[s], photo[s]) => Paired(b, dir, First(n) \ {num[s] + 1})
    BY <2>0, <2>2, <2>3, RenamedPreviewSound
  <2>6. Sound(pc[s], big[i], preview[i], self[s].photos, num[s], photo[s]) => Paired(big'[i], preview'[i], First(self[s].photos) \ {num[s] + 1})
    BY <2>1, <2>2, <2>3, <2>5 DEF n
  <2>7. PICK r \in Nat : r = num[s] + 1
    BY <2>0
  <2>8. r < self[s].photos
    BY <2>0, <2>7 DEF n
  <2>9. QED
    BY <1>0, <2>1, <2>4, <2>6, <2>7, <2>8, RenumbersMatch
<1>9. QED
  BY <1>2, <1>3, <1>5, <1>6, <1>7, <1>8 DEF FileStep

-----------------------------------------------------------------------------
(* The scripts save rows *)

LEMMA PutSaves ==
    ASSUME Typed, NEW s \in Script, NEW id \in Id, NEW row \in Entry, own'[s] = Put(own[s], id, row)
    PROVE  DOMAIN own'[s] = DOMAIN own[s] \cup {id} /\ own'[s][id] = row /\ \A x \in DOMAIN own[s] : x # id => own'[s][x] = own[s][x]
<1>1. own[s] \in OwnSet
  BY HandOf
<1>2. /\ DOMAIN Put(own[s], id, row) = DOMAIN own[s] \cup {id} /\ Put(own[s], id, row)[id] = row
      /\ \A x \in DOMAIN own[s] : x # id => Put(own[s], id, row)[x] = own[s][x]
  BY <1>1, PutOf
<1>3. QED
  BY <1>2

LEMMA TakesSame == ASSUME MatchOK, NEW s \in Script, Items(s)' \subseteq Items(s), spoiled' = spoiled PROVE Takes(s)
BY DEF Takes, MatchOK, Alone

LEMMA InsertMatch ==
    ASSUME Typed, WorkOK, GrowOK, MatchOK, NEW s \in Script, Insert(s)
    PROVE  MatchOK'
<1>1. PICK id \in Id :
         /\ pc[s] = "insert" /\ command[s] = "import" /\ Now(s)[id] = NoRow /\ Fields(self[s]) \in Row
         /\ Done(s, "line", "import", snapshot[s], Put(own[s], id, Fields(self[s])),
                 [id |-> id, item |-> self[s].item, photos |-> self[s].photos], photo[s], num[s], todo[s])
         /\ UNCHANGED <<rows, big, preview, spoiled>>
  BY InsertDoes
<1>2. self[s].photos = 0 /\ self[s].item \in Item /\ HandMatch(s) /\ HandOK(s) /\ self[s].item \in Items(s)
  BY <1>1, CommandOf, ItemOf DEF HandOK, MatchOK, Photographing
<1>3. PICK obj : obj = [id |-> id, item |-> self[s].item, photos |-> self[s].photos]
  OBVIOUS
<1>4. /\ Done(s, "line", "import", snapshot[s], Put(own[s], id, Fields(self[s])), obj, photo[s], num[s], todo[s])
      /\ obj.id = id /\ obj.item = self[s].item /\ obj.photos = 0
  BY <1>1, <1>2, <1>3
<1>5. /\ pc'[s] = "line" /\ command'[s] = "import" /\ self'[s] = obj /\ own'[s] = Put(own[s], id, Fields(self[s]))
      /\ OthersWait(s)
  BY <1>4 DEF Done, Has
<1>6. id \notin DOMAIN own[s]
  <2>1. ASSUME id \in DOMAIN own[s] PROVE FALSE
    <3>1. ImportOK(s)
      BY DEF GrowOK, OwnOK
    <3>2. own[s][id] # NoRow
      BY <1>1, <2>1, <3>1 DEF ImportOK
    <3>3. Now(s)[id] = own[s][id]
      BY <2>1, NowOf
    <3>4. QED
      BY <1>1, <3>2, <3>3
  <2>2. QED
    BY <2>1
<1>7. PICK row : row = Fields(self[s])
  OBVIOUS
<1>8. row.item = self[s].item /\ row.photos = 0 /\ row \in Entry
  BY <1>1, <1>2, <1>7 DEF Fields, Entry
<1>9. DOMAIN own'[s] = DOMAIN own[s] \cup {id} /\ own'[s][id] = row /\ \A x \in DOMAIN own[s] : own'[s][x] = own[s][x]
  BY <1>5, <1>6, <1>7, <1>8, PutSaves
<1>10. Items(s)' = Items(s)
  <2>1. Items(s) = ({self[s].item} \cup {own[s][x].item : x \in DOMAIN own[s]}) \cap Item
    BY <1>1 DEF Items
  <2>2. Items(s)' = ({obj.item} \cup {own'[s][x].item : x \in DOMAIN own'[s]}) \cap Item
    BY <1>5 DEF Items
  <2>3. {own'[s][x].item : x \in DOMAIN own'[s]} = {own[s][x].item : x \in DOMAIN own[s]} \cup {row.item}
    BY <1>9
  <2>4. QED
    BY <1>4, <1>8, <2>1, <2>2, <2>3
<1>11. SelfMatch(s)'
  <2>1. Sound("line", big'[obj.item], preview'[obj.item], obj.photos, num[s], photo[s])
    BY <1>4, NoPhotos DEF Sound, Half
  <2>2. QED
    BY <1>1, <1>4, <2>1, SelfDone
<1>12. ImportMatch(s)'
  <2>1. ASSUME NEW x \in DOMAIN own[s], NEW r, r = own[s][x], SoleOwn(s, x)', r.item \notin spoiled
        PROVE  Paired(big[r.item], preview[r.item], First(r.photos))
    <3>1. SoleOwn(s, x)
      BY <1>1, <1>9, <2>1 DEF SoleOwn
    <3>2. QED
      BY <1>1, <1>2, <2>1, <3>1 DEF HandMatch, ImportMatch
  <2>2. ASSUME NEW x \in DOMAIN own'[s]
        PROVE  /\ own'[s][x].item \notin spoiled' /\ SoleOwn(s, x)' => Paired(big'[own'[s][x].item], preview'[own'[s][x].item], First(own'[s][x].photos))
               /\ x = self'[s].id => own'[s][x].photos <= self'[s].photos
    <3>1. CASE x = id
      <4>1. own'[s][x].photos = 0 /\ self'[s].photos = 0
        BY <1>4, <1>5, <1>8, <1>9, <3>1
      <4>2. QED
        BY <4>1, NoPhotos
    <3>2. CASE x # id
      <4>1. x \in DOMAIN own[s] /\ own'[s][x] = own[s][x] /\ x # self'[s].id
        BY <1>4, <1>5, <1>9, <2>2, <3>2
      <4>2. QED
        BY <1>1, <2>1, <4>1
    <3>3. QED
      BY <3>1, <3>2
  <2>3. QED
    BY <2>2 DEF ImportMatch
<1>13. HandMatch(s)'
  BY <1>5, <1>11, <1>12 DEF HandMatch, AddMatch, ChangeMatch, EditMatch
<1>14. \A i : Shifting(s, i) => Shifting(s, i)'
  BY <1>1, <1>5, <1>10 DEF Shifting
<1>15. QED
  BY <1>1, <1>5, <1>10, <1>13, <1>14, TakesSame, QuietMatch

LEMMA NextLineMatch ==
    ASSUME Typed, WorkOK, GrowOK, MatchOK, NEW s \in Script, NextLine(s)
    PROVE  MatchOK'
<1>1. PICK i \in Item :
         /\ pc[s] = "line" /\ command[s] = "import"
         /\ Done(s, "insert", "import", snapshot[s], own[s], [id |-> 0, item |-> i, photos |-> 0], photo[s], num[s], todo[s])
         /\ Meets(s, {i}) /\ UNCHANGED <<rows, big, preview>>
  BY NextLineDoes
<1>2. PICK obj : obj = [id |-> 0, item |-> i, photos |-> 0]
  OBVIOUS
<1>3. /\ Done(s, "insert", "import", snapshot[s], own[s], obj, photo[s], num[s], todo[s])
      /\ obj.id = 0 /\ obj.item = i /\ obj.photos = 0
  BY <1>1, <1>2
<1>4. /\ pc'[s] = "insert" /\ command'[s] = "import" /\ self'[s] = obj /\ own'[s] = own[s] /\ OthersWait(s)
  BY <1>3 DEF Done, Has
<1>5. self[s].id \in DOMAIN own[s] /\ own[s][self[s].id].item = self[s].item /\ HandMatch(s)
  BY <1>1 DEF GrowOK, OwnOK, ImportOK, MatchOK
<1>6. Items(s) \subseteq Items(s)' /\ Items(s)' \subseteq Items(s) \cup {i}
  <2>1. Items(s) = ({self[s].item} \cup {own[s][x].item : x \in DOMAIN own[s]}) \cap Item
    BY <1>1 DEF Items
  <2>2. Items(s)' = ({obj.item} \cup {own[s][x].item : x \in DOMAIN own[s]}) \cap Item
    BY <1>4 DEF Items
  <2>3. QED
    BY <1>3, <1>5, <2>1, <2>2
<1>7. spoiled \subseteq spoiled' /\ Takes(s)
  BY <1>1, <1>6 DEF Meets, Takes, MatchOK, Alone
<1>8. SelfMatch(s)'
  <2>1. Sound("insert", big'[obj.item], preview'[obj.item], obj.photos, num[s], photo[s])
    BY <1>3, NoPhotos DEF Sound, Half
  <2>2. QED
    BY <1>1, <1>3, <2>1, SelfDone
<1>9. ImportMatch(s)'
  <2>1. \A id \in DOMAIN own[s] : id # 0
    <3>1. 0 \notin Id
      BY Numbers DEF Id
    <3>2. QED
      BY <3>1, ItemOf
  <2>2. \A id \in DOMAIN own[s] : SoleOwn(s, id)' <=> SoleOwn(s, id)
    BY <1>1, <1>4 DEF SoleOwn
  <2>3. QED
    BY <1>1, <1>3, <1>4, <1>5, <1>7, <2>1, <2>2 DEF HandMatch, ImportMatch
<1>10. HandMatch(s)'
  BY <1>4, <1>8, <1>9 DEF HandMatch, AddMatch, ChangeMatch, EditMatch
<1>11. \A x : Shifting(s, x) => Shifting(s, x)'
  BY <1>1, <1>4, <1>6 DEF Shifting
<1>12. QED
  BY <1>1, <1>4, <1>7, <1>10, <1>11, QuietMatch

LEMMA SaveMatch ==
    ASSUME Typed, WorkOK, GrowOK, MatchOK, NEW s \in Script, Save(s)
    PROVE  MatchOK'
<1>1. /\ pc[s] = "save" /\ command[s] \in Photographing /\ self[s].id \in Id /\ Fields(self[s]) \in Row
      /\ Done(s, IF command[s] = "import" THEN "line" ELSE "commit", command[s], snapshot[s],
              Put(own[s], self[s].id, Fields(self[s])), self[s], photo[s], num[s], todo[s])
      /\ UNCHANGED <<rows, big, preview, spoiled>>
  BY SaveDoes
<1>2. PICK at, id, row : at = (IF command[s] = "import" THEN "line" ELSE "commit") /\ id = self[s].id /\ row = Fields(self[s])
  OBVIOUS
<1>3. Done(s, at, command[s], snapshot[s], Put(own[s], id, row), self[s], photo[s], num[s], todo[s])
  BY <1>1, <1>2
<1>4. /\ pc'[s] = at /\ command'[s] = command[s] /\ self'[s] = self[s] /\ todo'[s] = todo[s] /\ own'[s] = Put(own[s], id, row)
      /\ OthersWait(s)
  BY <1>3 DEF Done, Has
<1>5. row \in Entry /\ row.item = self[s].item /\ row.photos = self[s].photos /\ self[s].item \in Item /\ id \in Id
  BY <1>1, <1>2, ItemOf DEF Fields, Entry
<1>6. DOMAIN own'[s] = DOMAIN own[s] \cup {id} /\ own'[s][id] = row /\ \A x \in DOMAIN own[s] : x # id => own'[s][x] = own[s][x]
  BY <1>4, <1>5, PutSaves
<1>7. HandMatch(s) /\ OwnOK(s)
  BY DEF MatchOK, GrowOK
<1>8. command[s] = "import" => id \in DOMAIN own[s] /\ own[s][id].item = row.item
  BY <1>1, <1>2, <1>5, <1>7 DEF OwnOK, ImportOK
<1>9. command[s] # "import" => own[s] = <<>>
  BY <1>1, <1>7 DEF HandMatch, ChangeMatch, Photographing
<1>10. \A x \in DOMAIN own[s] : own'[s][x].item = own[s][x].item
  BY <1>6, <1>8, <1>9, EmptyOwn
<1>11. Items(s)' = Items(s)
  <2>1. command[s] # "edit"
    BY <1>1 DEF Photographing
  <2>2. Items(s) = ({self[s].item} \cup {own[s][x].item : x \in DOMAIN own[s]}) \cap Item
    BY <2>1 DEF Items
  <2>3. Items(s)' = ({self[s].item} \cup {own'[s][x].item : x \in DOMAIN own'[s]}) \cap Item
    BY <1>4, <2>1 DEF Items
  <2>4. {own'[s][x].item : x \in DOMAIN own'[s]} = {own[s][x].item : x \in DOMAIN own[s]} \cup {row.item}
    BY <1>6, <1>10
  <2>5. QED
    BY <1>5, <2>2, <2>3, <2>4
<1>12. at \notin Half \cup {"preview"}
  BY <1>2 DEF Half
<1>13. ASSUME self[s].item \in Item \ spoiled, command[s] = "import" \/ Sole(self[s].id)
       PROVE  Paired(big[self[s].item], preview[self[s].item], First(self[s].photos))
  <2>1. Sound("save", big[self[s].item], preview[self[s].item], self[s].photos, num[s], photo[s])
    BY <1>1, <1>7, <1>13 DEF HandMatch, SelfMatch
  <2>2. QED
    BY <2>1 DEF Sound, Half
<1>14. SelfMatch(s)'
  <2>1. self[s].item \in Item \ spoiled' /\ (command[s] = "import" \/ Sole(self[s].id))
          => Sound(at, big'[self[s].item], preview'[self[s].item], self[s].photos, num[s], photo[s])
    <3>1. SUFFICES ASSUME self[s].item \in Item \ spoiled, command[s] = "import" \/ Sole(self[s].id)
                   PROVE  Sound(at, big[self[s].item], preview[self[s].item], self[s].photos, num[s], photo[s])
      BY <1>1
    <3>2. Paired(big[self[s].item], preview[self[s].item], First(self[s].photos))
      BY <1>13, <3>1
    <3>3. QED
      BY <1>12, <3>2 DEF Sound, Half
  <2>2. QED
    BY <1>1, <1>3, <2>1, SelfDone
<1>15. ImportMatch(s)'
  <2>1. SUFFICES ASSUME command[s] = "import", NEW x \in DOMAIN own'[s]
                 PROVE  /\ own'[s][x].item \notin spoiled' /\ SoleOwn(s, x)'
                              => Paired(big'[own'[s][x].item], preview'[own'[s][x].item], First(own'[s][x].photos))
                        /\ x = self'[s].id => own'[s][x].photos <= self'[s].photos
    BY <1>4 DEF ImportMatch
  <2>2. DOMAIN own'[s] = DOMAIN own[s]
    BY <1>6, <1>8, <2>1
  <2>3. CASE x = id
    <3>1. own'[s][x].item = self[s].item /\ own'[s][x].photos = self[s].photos /\ self'[s].photos = self[s].photos
      BY <1>4, <1>5, <1>6, <2>3
    <3>2. self[s].photos \in 0..MaxPhotos
      BY HandOf
    <3>3. self[s].photos <= self[s].photos
      BY <3>2, IndexOf
    <3>4. self[s].item \notin spoiled => Paired(big[self[s].item], preview[self[s].item], First(self[s].photos))
      BY <1>5, <1>13, <2>1
    <3>5. QED
      BY <1>1, <3>1, <3>3, <3>4
  <2>4. CASE x # id
    <3>1. x \in DOMAIN own[s] /\ own'[s][x] = own[s][x] /\ x # self'[s].id
      BY <1>2, <1>4, <1>6, <2>1, <2>2, <2>4
    <3>2. SoleOwn(s, x)' => SoleOwn(s, x)
      BY <1>1, <1>10, <2>2 DEF SoleOwn
    <3>3. own[s][x].item \notin spoiled /\ SoleOwn(s, x) => Paired(big[own[s][x].item], preview[own[s][x].item], First(own[s][x].photos))
      BY <1>7, <2>1, <3>1 DEF HandMatch, ImportMatch
    <3>4. QED
      BY <1>1, <3>1, <3>2, <3>3
  <2>5. QED
    BY <2>3, <2>4
<1>16. AddMatch(s)' /\ EditMatch(s)'
  BY <1>1, <1>4, <1>7 DEF HandMatch, AddMatch, EditMatch, Photographing
<1>17. ChangeMatch(s)'
  <2>1. SUFFICES ASSUME command[s] # "import" PROVE DOMAIN own'[s] = {self'[s].id} /\ own'[s][self'[s].id] = Fields(self'[s]) /\ pc'[s] = "commit"
    BY <1>4 DEF ChangeMatch
  <2>2. DOMAIN own'[s] = {id}
    BY <1>6, <1>9, <2>1, EmptyOwn
  <2>3. QED
    BY <1>2, <1>4, <1>6, <2>1, <2>2
<1>18. \A i : Shifting(s, i) => Shifting(s, i)'
  BY <1>4, <1>11 DEF Shifting
<1>19. HandMatch(s)'
  BY <1>14, <1>15, <1>16, <1>17 DEF HandMatch
<1>20. QED
  BY <1>1, <1>4, <1>11, <1>18, <1>19, TakesSame, QuietMatch

LEMMA EditStepMatch ==
    ASSUME Typed, WorkOK, GrowOK, MatchOK, NEW s \in Script, Edit(s)
    PROVE  MatchOK'
<1>1. /\ pc[s] = "edit" /\ command[s] = "edit" /\ todo[s] \in Seq(ListedSet) /\ todo[s] # <<>>
      /\ todo[s][1] \in ListedSet /\ todo[s][1].id \in Id
      /\ Done(s, IF Len(todo[s]) = 1 THEN "commit" ELSE "edit", "edit", snapshot[s],
              Put(own[s], todo[s][1].id, Fields(todo[s][1])), self[s], photo[s], num[s], Tail(todo[s]))
      /\ UNCHANGED <<rows, big, preview, spoiled>>
  BY EditDoes
<1>2. PICK obj, id, row : obj = todo[s][1] /\ id = obj.id /\ row = Fields(obj)
  OBVIOUS
<1>3. /\ command'[s] = "edit" /\ self'[s] = self[s] /\ todo'[s] = Tail(todo[s]) /\ own'[s] = Put(own[s], id, row)
      /\ OthersWait(s)
  BY <1>1, <1>2 DEF Done, Has
<1>4. row \in Entry /\ row.item = obj.item /\ id \in Id
  <2>1. row \in Row /\ row.item = obj.item
    BY <1>1, <1>2 DEF Fields, ListedSet, Row
  <2>2. QED
    BY <1>1, <1>2, <2>1 DEF Entry
<1>5. DOMAIN own'[s] = DOMAIN own[s] \cup {id} /\ own'[s][id] = row /\ \A x \in DOMAIN own[s] : x # id => own'[s][x] = own[s][x]
  BY <1>3, <1>4, PutSaves
<1>6. /\ Len(todo[s]) \in Nat \ {0} /\ Len(Tail(todo[s])) = Len(todo[s]) - 1 /\ Tail(todo[s]) \in Seq(ListedSet)
      /\ \A k \in 1..(Len(todo[s]) - 1) : Tail(todo[s])[k] = todo[s][k + 1]
  <2>1. ListedSet \subseteq ObjectSet
    BY Numbers DEF ListedSet, ObjectSet
  <2>2. QED
    BY <1>1, <2>1, TodoOf
<1>7. /\ HandMatch(s) /\ HandOK(s) /\ self[s] = Nobody
      /\ \A k \in 1..Len(todo[s]) : todo[s][k].item \in Items(s)
      /\ \A x \in DOMAIN own[s] : own[s][x].item \in Items(s)
      /\ 1 \in 1..Len(todo[s])
  <2>1. HandOK(s) /\ self[s] = Nobody
    BY <1>1, CommandOf DEF HandOK, Photographing
  <2>2. 1 \in 1..Len(todo[s])
    BY <1>6
  <2>3. QED
    BY <1>1, <2>1, <2>2, ItemOf DEF MatchOK
<1>8. ASSUME NEW k \in 1..Len(todo'[s]) PROVE \E j \in 1..Len(todo[s]) : todo'[s][k] = todo[s][j]
  <2>1. k \in 1..(Len(todo[s]) - 1) /\ k + 1 \in 1..Len(todo[s])
    BY <1>3, <1>6
  <2>2. QED
    BY <1>3, <1>6, <2>1
<1>9. Items(s)' \subseteq Items(s)
  <2>1. ASSUME NEW i \in Items(s)' PROVE i \in Items(s)
    <3>1. DOMAIN todo'[s] = 1..Len(todo'[s])
      BY <1>3, <1>6, LenProperties
    <3>2. \/ i = Nobody.item
          \/ \E x \in DOMAIN own'[s] : i = own'[s][x].item
          \/ \E k \in 1..Len(todo'[s]) : i = todo'[s][k].item
      BY <1>3, <1>7, <2>1, <3>1 DEF Items
    <3>3. i \in Item /\ Nobody.item \notin Item
      BY <2>1, CatalogueAssumption DEF Items, Nobody
    <3>4. CASE \E x \in DOMAIN own'[s] : i = own'[s][x].item
      BY <1>2, <1>4, <1>5, <1>7, <3>4
    <3>5. CASE \E k \in 1..Len(todo'[s]) : i = todo'[s][k].item
      BY <1>7, <1>8, <3>5
    <3>6. QED
      BY <3>2, <3>3, <3>4, <3>5
  <2>2. QED
    BY <2>1
<1>10. EditMatch(s)'
  <2>1. ASSUME NEW x \in DOMAIN own'[s], own'[s][x].item \notin spoiled PROVE own'[s][x] = rows[x]
    <3>1. CASE x = id
      <4>1. todo[s][1].item \notin spoiled
        BY <1>2, <1>4, <1>5, <2>1, <3>1
      <4>2. Fields(todo[s][1]) = rows[todo[s][1].id]
        BY <1>1, <1>7, <4>1 DEF HandMatch, EditMatch
      <4>3. QED
        BY <1>2, <1>5, <3>1, <4>2
    <3>2. CASE x # id
      BY <1>1, <1>5, <1>7, <2>1, <3>2 DEF HandMatch, EditMatch
    <3>3. QED
      BY <3>1, <3>2
  <2>2. ASSUME NEW k \in 1..Len(todo'[s]), todo'[s][k].item \notin spoiled PROVE Fields(todo'[s][k]) = rows[todo'[s][k].id]
    <3>1. PICK j \in 1..Len(todo[s]) : todo'[s][k] = todo[s][j]
      BY <1>8
    <3>2. QED
      BY <1>1, <1>7, <2>2, <3>1 DEF HandMatch, EditMatch
  <2>3. QED
    BY <1>1, <2>1, <2>2 DEF EditMatch
<1>11. SelfMatch(s)'
  <2>1. self'[s].item \notin Item
    BY <1>3, <1>7, CatalogueAssumption DEF Nobody
  <2>2. QED
    BY <2>1 DEF SelfMatch
<1>12. ImportMatch(s)' /\ AddMatch(s)' /\ ChangeMatch(s)'
  BY <1>3 DEF ImportMatch, AddMatch, ChangeMatch
<1>13. HandMatch(s)'
  BY <1>10, <1>11, <1>12 DEF HandMatch
<1>14. \A i \in Listed : ~Shifting(s, i)
  <2>1. self[s].item \notin Item /\ command[s] # "import" /\ command[s] # "photo remove"
    BY <1>1, <1>7, CatalogueAssumption DEF Nobody
  <2>2. QED
    BY <2>1 DEF Shifting
<1>15. QED
  BY <1>1, <1>3, <1>9, <1>13, <1>14, TakesSame, QuietMatch

LEMMA MoveStepMatch ==
    ASSUME Typed, WorkOK, GrowOK, MatchOK, NEW s \in Script, Move(s)
    PROVE  MatchOK'
<1>1. /\ pc[s] = "move" /\ command[s] = "move"
      /\ Done(s, IF Len(todo[s]) = 1 THEN "commit" ELSE "move", "move", snapshot[s],
              own[s], self[s], photo[s], num[s], Tail(todo[s]))
      /\ UNCHANGED <<rows, big, preview, spoiled>>
  BY MoveDoes
<1>2. self[s] = Nobody
  BY <1>1, CommandOf DEF HandOK, Photographing
<1>3. HandMatch(s)'
  <2>1. "move" \in {"none", "move"}
    OBVIOUS
  <2>2. QED
    BY <1>1, <1>2, <2>1, IdleMatch
<1>4. command'[s] = "move" /\ self'[s] = self[s] /\ own'[s] = own[s] /\ OthersWait(s)
  BY <1>1 DEF Done, Has
<1>5. Items(s)' = Items(s)
  BY <1>1, <1>4 DEF Items
<1>6. \A i : ~Shifting(s, i)
  BY <1>1 DEF Shifting
<1>7. QED
  BY <1>1, <1>3, <1>4, <1>5, <1>6, TakesSame, QuietMatch

LEMMA LineMatch ==
    ASSUME Typed, WorkOK, GrowOK, MatchOK, NEW s \in Script, NEW at \in {"big", "commit"}, pc[s] = "line", command[s] = "import",
           Done(s, at, command[s], snapshot[s], own[s], self[s], photo[s], num[s], todo[s]),
           UNCHANGED <<rows, big, preview, spoiled>>
    PROVE  MatchOK'
<1>1. FilesBelow(s)
  BY DEF FilesBelow
<1>2. PICK i, b, q : i = self[s].item /\ b = big[i] /\ q = preview[i]
  OBVIOUS
<1>3. Sound("line", b, q, self[s].photos, num[s], photo[s]) => Sound(at, b, q, self[s].photos, num[s], photo[s])
  BY DEF Sound, Half
<1>4. SelfMatch(s)'
  BY <1>2, <1>3, SoundDone
<1>5. command[s] \in Photographing
  BY DEF Photographing
<1>6. self[s].photos <= self[s].photos
  <2>1. self[s].photos \in 0..MaxPhotos
    BY HandOf
  <2>2. QED
    BY <2>1, IndexOf
<1>7. QED
  BY <1>1, <1>4, <1>5, <1>6, WorkMatch

LEMMA RowStepMatch ==
    ASSUME Typed, WorkOK, GrowOK, MatchOK, NEW s \in Script, RowStep(s)
    PROVE  MatchOK'
<1>1. CASE NextPhoto(s)
  <2>1. /\ pc[s] = "line" /\ command[s] = "import" /\ UNCHANGED <<rows, big, preview, spoiled>>
        /\ Done(s, "big", command[s], snapshot[s], own[s], self[s], photo[s], num[s], todo[s])
    BY <1>1, NextPhotoDoes
  <2>2. QED
    BY <2>1, LineMatch
<1>2. CASE LastLine(s)
  <2>1. /\ pc[s] = "line" /\ command[s] = "import" /\ UNCHANGED <<rows, big, preview, spoiled>>
        /\ Done(s, "commit", command[s], snapshot[s], own[s], self[s], photo[s], num[s], todo[s])
    BY <1>2, LastLineDoes
  <2>2. QED
    BY <2>1, LineMatch
<1>3. QED
  BY <1>1, <1>2, InsertMatch, NextLineMatch, SaveMatch, EditStepMatch, MoveStepMatch DEF RowStep

-----------------------------------------------------------------------------
(* A script comes to its end, or dies *)

\* What is committed are rows as they were, and those of the script, which match.
LEMMA CommitMatch ==
    ASSUME Typed, WorkOK, GrowOK, MatchOK, NEW s \in Script, pc[s] = "commit", rows' = Now(s), UNCHANGED <<big, preview, spoiled>>,
           OthersWait(s)
    PROVE  RowsMatch'
<1>1. /\ Grows /\ \A id \in Ids(rows') : id \in Ids(rows) \cup DOMAIN own[s]
      /\ command[s] # "import" => Ids(rows') = Ids(rows)
      /\ \A id \in Ids(rows') : IF id \in DOMAIN own[s] THEN rows'[id] = own[s][id] ELSE rows'[id] = rows[id]
  BY CommitRows
<1>2. HandMatch(s) /\ OwnOK(s) /\ command[s] \in Command \ {"none"} /\ RowsMatch
  BY CommandOf, HandOf DEF MatchOK, GrowOK
<1>3. SUFFICES ASSUME NEW id \in Ids(rows'), NEW row, row = rows'[id], \A x \in Ids(rows') \ {id} : rows'[x].item # row.item,
                      row.item \notin spoiled, \A t \in Script : ~Shifting(t, row.item)'
               PROVE  Paired(big[row.item], preview[row.item], First(row.photos))
  BY DEF RowsMatch, Sole
<1>4. ASSUME id \in Ids(rows), rows'[id] = rows[id], ~Shifting(s, row.item)
      PROVE  Paired(big[row.item], preview[row.item], First(row.photos))
  <2>1. \A x \in Ids(rows) \ {id} : rows[x].item # row.item
    BY <1>1, <1>3 DEF Grows
  <2>2. Sole(id)
    BY <1>3, <1>4, <2>1 DEF Sole
  <2>3. ASSUME NEW t \in Script PROVE ~Shifting(t, row.item)
    <3>1. CASE t = s
      BY <1>4, <3>1
    <3>2. CASE t # s
      BY <1>3, <3>2, ShiftingOthers DEF OthersWait
    <3>3. QED
      BY <3>1, <3>2
  <2>4. QED
    BY <1>2, <1>3, <1>4, <2>2, <2>3 DEF RowsMatch
<1>5. CASE command[s] = "import"
  <2>1. /\ DOMAIN own[s] \cap Ids(rows) = {} /\ self[s].id \in DOMAIN own[s] /\ own[s][self[s].id].item = self[s].item
    BY <1>2, <1>5 DEF OwnOK, ImportOK
  <2>2. ASSUME NEW x \in DOMAIN own[s] PROVE x \in Ids(rows') /\ rows'[x] = own[s][x]
    <3>1. x \in Id /\ own[s][x] # NoRow
      BY <1>2, <1>5, ItemOf DEF OwnOK, ImportOK
    <3>2. rows'[x] = own[s][x]
      BY <3>1, NowOf
    <3>3. QED
      BY <3>1, <3>2 DEF Ids
  <2>3. CASE id \in DOMAIN own[s]
    <3>1. row = own[s][id]
      BY <1>3, <2>2, <2>3
    <3>2. SoleOwn(s, id)
      <4>1. ASSUME NEW x \in Ids(rows) PROVE rows[x].item # row.item
        <5>1. x \in Ids(rows') /\ rows'[x].item = rows[x].item /\ x # id
          BY <1>1, <2>1, <2>3 DEF Grows
        <5>2. QED
          BY <1>3, <5>1
      <4>2. ASSUME NEW x \in DOMAIN own[s] \ {id} PROVE own[s][x].item # row.item
        BY <1>3, <2>2
      <4>3. QED
        BY <3>1, <4>1, <4>2 DEF SoleOwn
    <3>3. QED
      BY <1>2, <1>3, <1>5, <2>3, <3>1, <3>2 DEF HandMatch, ImportMatch
  <2>4. CASE id \notin DOMAIN own[s]
    <3>1. id \in Ids(rows) /\ rows'[id] = rows[id]
      BY <1>1, <2>4
    <3>2. row.item \notin Items(s)
      <4>1. ASSUME row.item \in Items(s) PROVE \E x \in DOMAIN own[s] : own[s][x].item = row.item
        <5>1. row.item = self[s].item \/ \E x \in DOMAIN own[s] : own[s][x].item = row.item
          BY <1>5, <4>1 DEF Items
        <5>2. QED
          BY <2>1, <5>1
      <4>2. ASSUME NEW x \in DOMAIN own[s], own[s][x].item = row.item PROVE FALSE
        BY <1>3, <2>2, <2>4, <4>2
      <4>3. QED
        BY <4>1, <4>2
    <3>3. ~Shifting(s, row.item)
      BY <1>5, <3>2 DEF Shifting
    <3>4. QED
      BY <1>4, <3>1, <3>3
  <2>5. QED
    BY <2>3, <2>4
<1>6. CASE command[s] \in {"photo add", "photo remove"}
  <2>1. /\ DOMAIN own[s] = {self[s].id} /\ own[s][self[s].id] = Fields(self[s]) /\ Ids(rows') = Ids(rows)
        /\ self[s].id \in Ids(rows) /\ rows[self[s].id].item = self[s].item
    BY <1>1, <1>2, <1>6 DEF HandMatch, ChangeMatch, OwnOK, SelfOK, Same
  <2>2. CASE id = self[s].id
    <3>1. row = Fields(self[s])
      BY <1>1, <1>3, <2>1, <2>2
    <3>2. row.item = self[s].item /\ row.photos = self[s].photos
      BY <3>1 DEF Fields
    <3>3. Sole(self[s].id)
      <4>1. \A x \in Ids(rows) \ {id} : rows[x].item # row.item
        BY <1>1, <1>3 DEF Grows
      <4>2. QED
        BY <2>1, <2>2, <3>2, <4>1 DEF Sole
    <3>4. self[s].item \in Item
      BY <1>6, ItemOf DEF Photographing
    <3>5. Sound("commit", big[row.item], preview[row.item], row.photos, num[s], photo[s])
      BY <1>2, <1>3, <3>2, <3>3, <3>4 DEF HandMatch, SelfMatch
    <3>6. QED
      BY <3>5 DEF Sound, Half
  <2>3. CASE id # self[s].id
    <3>1. rows'[id] = rows[id]
      BY <1>1, <2>1, <2>3
    <3>2. row.item # self[s].item
      <4>1. self[s].id \in Ids(rows') \ {id} /\ rows'[self[s].id].item = self[s].item
        BY <1>1, <2>1, <2>3 DEF Grows
      <4>2. QED
        BY <1>3, <4>1
    <3>3. ~Shifting(s, row.item)
      BY <1>6, <3>2 DEF Shifting
    <3>4. QED
      BY <1>4, <2>1, <3>1, <3>3
  <2>4. QED
    BY <2>2, <2>3
<1>7. CASE command[s] \in {"edit", "move"}
  <2>1. id \in Ids(rows)
    BY <1>1, <1>7
  <2>2. rows'[id] = rows[id]
    <3>1. CASE id \notin DOMAIN own[s]
      BY <1>1, <3>1
    <3>2. CASE id \in DOMAIN own[s]
      <4>1. command[s] = "edit"
        <5>1. command[s] = "move" => own[s] = <<>>
          BY <1>2 DEF OwnOK, MoveOK
        <5>2. QED
          BY <1>7, <3>2, <5>1, EmptyOwn
      <4>2. row = own[s][id]
        BY <1>1, <1>3, <3>2
      <4>3. own[s][id] = rows[id]
        BY <1>2, <1>3, <3>2, <4>1, <4>2 DEF HandMatch, EditMatch
      <4>4. QED
        BY <1>3, <4>2, <4>3
    <3>3. QED
      BY <3>1, <3>2
  <2>3. ~Shifting(s, row.item)
    BY <1>7 DEF Shifting
  <2>4. QED
    BY <1>4, <2>1, <2>2, <2>3
<1>8. QED
  BY <1>2, <1>5, <1>6, <1>7 DEF Command

LEMMA EndMatch ==
    ASSUME Typed, WorkOK, GrowOK, MatchOK, NEW s \in Script, Commit(s) \/ Dies(s)
    PROVE  MatchOK'
<1>1. Done(s, "idle", "none", Nothing, <<>>, Nobody, Missing, 0, <<>>)
  BY EndsDoes DEF Commit, Dies
<1>2. OthersWait(s) /\ command'[s] = "none"
  BY <1>1 DEF Done, Has
<1>3. HandMatch(s)'
  <2>1. "none" \in {"none", "move"}
    OBVIOUS
  <2>2. QED
    BY <1>1, <2>1, IdleMatch
<1>4. Items(s)' = {}
  <2>1. "none" # "edit" /\ Nobody.item \notin Item
    BY CatalogueAssumption DEF Nobody
  <2>2. Items(s)' \subseteq {Nobody.item} \cap Item
    BY <1>1, <2>1, BegunItems
  <2>3. QED
    BY <2>1, <2>2
<1>5. Takes(s)
  BY <1>4 DEF Takes
<1>6. CASE Commit(s)
  <2>1. pc[s] = "commit" /\ rows' = Now(s) /\ UNCHANGED <<big, preview, spoiled>>
    BY <1>6 DEF Commit, files, histories
  <2>2. RowsMatch'
    BY <1>2, <2>1, CommitMatch
  <2>3. Elsewhere(s)
    <3>1. Grows /\ \A id \in Ids(rows') : IF id \in DOMAIN own[s] THEN rows'[id] = own[s][id] ELSE rows'[id] = rows[id]
      BY <2>1, CommitRows
    <3>2. ASSUME NEW id \in Ids(rows), rows[id].item \notin Items(s) PROVE rows'[id] = rows[id]
      <4>1. id \in Ids(rows') /\ rows'[id].item = rows[id].item
        BY <3>1 DEF Grows
      <4>2. id \notin DOMAIN own[s]
        <5>1. ASSUME id \in DOMAIN own[s] PROVE FALSE
          <6>1. rows'[id] = own[s][id]
            BY <3>1, <4>1, <5>1
          <6>2. own[s][id].item \in Items(s)
            BY <5>1, ItemOf
          <6>3. QED
            BY <3>2, <4>1, <6>1, <6>2
        <5>2. QED
          BY <5>1
      <4>3. QED
        BY <3>1, <4>1, <4>2
    <3>3. QED
      BY <2>1, <3>1, <3>2 DEF Elsewhere
  <2>4. QED
    BY <1>2, <1>3, <1>5, <2>2, <2>3, StepMatch
<1>7. CASE Dies(s)
  <2>1. /\ UNCHANGED <<rows, big, preview>>
        /\ spoiled' = spoiled \cup CASE command[s] = "photo remove" -> {self[s].item}
                                     [] command[s] = "import" -> Items(s) \cap Listed
                                     [] OTHER -> {}
    BY <1>7 DEF Dies, files
  <2>2. spoiled \subseteq spoiled'
    BY <2>1
  <2>3. /\ command[s] = "photo remove" => self[s].item \in spoiled'
        /\ command[s] = "import" => Items(s) \cap Listed \subseteq spoiled'
    BY <2>1
  <2>4. \A i \in Listed : i \notin spoiled' => ~Shifting(s, i)
    BY <2>3 DEF Shifting
  <2>5. QED
    BY <1>2, <1>3, <1>5, <2>1, <2>2, <2>4, QuietMatch
<1>8. QED
  BY <1>6, <1>7

-----------------------------------------------------------------------------

LEMMA MatchStep ==
    ASSUME Typed, WorkOK, GrowOK, MatchOK, [Next]_vars
    PROVE  MatchOK'
<1>1. CASE Next
  <2>1. PICK s \in Script : Begins(s) \/ RowStep(s) \/ FileStep(s) \/ Commit(s) \/ Dies(s)
    BY <1>1 DEF Next
  <2>2. QED
    BY <2>1, BeginsMatch, RowStepMatch, FileStepMatch, EndMatch
<1>2. CASE UNCHANGED vars
  <2>1. /\ UNCHANGED <<rows, big, preview, spoiled, pc, command, own, self, photo, num, todo>>
    BY <1>2 DEF vars
  <2>2. \A t \in Script : Items(t)' = Items(t)
    BY <2>1 DEF Items
  <2>3. Alone' /\ RowsMatch'
    BY <2>1, <2>2 DEF MatchOK, Alone, RowsMatch, Sole, Shifting
  <2>4. ASSUME NEW t \in Script PROVE HandMatch(t)'
    <3>1. HandMatch(t)
      BY DEF MatchOK
    <3>2. SelfMatch(t)' /\ ImportMatch(t)'
      BY <2>1, <3>1 DEF HandMatch, SelfMatch, ImportMatch, Sole, SoleOwn
    <3>3. AddMatch(t)' /\ ChangeMatch(t)' /\ EditMatch(t)'
      BY <2>1, <3>1 DEF HandMatch, AddMatch, ChangeMatch, EditMatch
    <3>4. QED
      BY <3>2, <3>3 DEF HandMatch
  <2>5. QED
    BY <2>3, <2>4 DEF MatchOK
<1>3. QED
  BY <1>1, <1>2

LEMMA InitMatch ==
    ASSUME Init
    PROVE  MatchOK
<1>1. \A s \in Script : command[s] = "none" /\ own[s] = <<>> /\ self[s] = Nobody
  BY DEF Init
<1>2. Nobody.item \notin Item
  BY CatalogueAssumption DEF Nobody
<1>3. \A s \in Script : Items(s) = {}
  BY <1>1, <1>2, EmptyOwn DEF Items
<1>4. Alone
  BY <1>3 DEF Alone
<1>5. ASSUME NEW id \in Ids(rows), NEW row, row = rows[id], NEW b, b = big[row.item]
      PROVE  Paired(b, preview[row.item], First(row.photos))
  <2>1. row.photos \in 0..MaxPhotos /\ MaxPhotos \in Nat /\ preview[row.item] = b
    BY <1>5, InitRows, Numbers
  <2>2. ASSUME NEW k \in First(row.photos) PROVE k \in Nat /\ b[k] = k + 1
    <3>1. k \in Index /\ k < row.photos /\ k \in Nat
      BY <2>1 DEF First, Index
    <3>2. QED
      BY <1>5, <3>1, InitRows
  <2>3. ASSUME NEW k \in First(row.photos), NEW j \in First(row.photos), j # k PROVE b[j] # b[k]
    BY <2>2, <2>3
  <2>4. \A k \in First(row.photos) : b[k] # Missing
    BY <2>2 DEF Missing
  <2>5. QED
    BY <2>1, <2>3, <2>4 DEF Paired
<1>6. RowsMatch
  BY <1>5 DEF RowsMatch
<1>7. ASSUME NEW s \in Script PROVE HandMatch(s)
  BY <1>1, <1>2 DEF HandMatch, SelfMatch, ImportMatch, AddMatch, ChangeMatch, EditMatch
<1>8. QED
  BY <1>4, <1>6, <1>7 DEF MatchOK

(* What the scripts keep true of the two sizes of the photos: scripts on one  *)
(* item at a time spoil it; where a script is tells which files of its item   *)
(* have both sizes; and the rows tell it where none removes or imports.       *)
THEOREM MatchInductive == Spec => [](Typed /\ WorkOK /\ GrowOK /\ MatchOK)
<1>1. Init => MatchOK
  BY InitMatch
<1>2. Typed /\ WorkOK /\ GrowOK /\ MatchOK /\ [Next]_vars => MatchOK'
  BY MatchStep
<1>3. QED
  BY <1>1, <1>2, GrowInductive, PTL DEF Spec

(* Removals included, an item that is listed once, whose scripts ran one      *)
(* after the other and came to their end, shows for each of its numbers the   *)
(* same photo in both sizes, and no photo twice: renaming one size and then   *)
(* the other, number by number, never pairs a preview with another's photo.   *)
THEOREM PhotosAgree == Spec => []PhotosMatch
<1>1. ASSUME Typed, WorkOK, GrowOK, MatchOK PROVE PhotosMatch
  <2>1. SUFFICES ASSUME NEW id \in Ids(rows), NEW i, i = rows[id].item, \A x \in Ids(rows) \ {id} : rows[x].item # i,
                        i \notin spoiled, \A s \in Script : i \notin Items(s), NEW k \in 0..(rows[id].photos - 1)
                 PROVE  big[i][k] = preview[i][k] /\ big[i][k] # Missing /\ \A j \in 0..(k - 1) : big[i][j] # big[i][k]
    BY DEF PhotosMatch
  <2>2. i \in Item /\ rows[id].photos \in 0..MaxPhotos
    BY <1>1, <2>1, RowOf DEF GrowOK
  <2>3. ASSUME NEW s \in Script PROVE ~Shifting(s, i)
    BY <1>1, <2>1, <2>2, ItemOf DEF Shifting
  <2>4. Sole(id)
    BY <2>1 DEF Sole
  <2>5. Paired(big[i], preview[i], First(rows[id].photos))
    BY <1>1, <2>1, <2>3, <2>4 DEF MatchOK, RowsMatch
  <2>6. rows[id].photos \in Nat
    BY <2>2, IndexOf
  <2>7. k \in First(rows[id].photos) /\ \A j \in 0..(k - 1) : j \in First(rows[id].photos) /\ j # k
    BY <2>6 DEF First
  <2>8. QED
    BY <2>5, <2>7 DEF Paired
<1>2. QED
  BY <1>1, MatchInductive, PTL
=============================================================================
