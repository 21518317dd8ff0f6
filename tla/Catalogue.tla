----------------------------- MODULE Catalogue ------------------------------
(***************************************************************************)
(* The scripts that keep the catalogue: item, photo (sbin) and the class    *)
(* ModelColor of Simurga.pm, on the table model_color and on the directory  *)
(* of photos.  Several may run at the same time, each in one transaction,   *)
(* and each may die anywhere: a statement or a conversion fails, or the     *)
(* operator interrupts it.                                                  *)
(*                                                                          *)
(* The database: a transaction reads the rows committed when it first read, *)
(* and its own changes; INSERT and UPDATE act on the rows as they are now,  *)
(* wait for a row another transaction has changed, and fail on a duplicate  *)
(* id.  (Gaps are locked too; that only delays, or kills a script.)  The    *)
(* files are changed at once and for ever.  Models, colours and materials   *)
(* are there before; of a row only the item and its number of photos count. *)
(***************************************************************************)
EXTENDS Naturals, Sequences, FiniteSets, SequencesExt

CONSTANTS
    Script,         \* operators' terminals: each runs one script after another
    Item,           \* model-and-colour pairs, whose photos share a directory
    MaxRows,        \* bound: rows of model_color
    MaxPhotos,      \* bound: photos of one row
    MaxRuns         \* bound: scripts run

ASSUME CatalogueAssumption == MaxRows \in Nat /\ MaxPhotos \in Nat /\ MaxRuns \in Nat
                              /\ IsFiniteSet(Script) /\ "none" \notin Item

Id == 1..(MaxRows + 1)          \* tmp_id is one beyond the last
Index == 0..(MaxPhotos - 1)     \* the numbers in the names of the files
Photo == 1..(2 * MaxPhotos + Cardinality(Script) + 1)
Missing == 0                    \* no such file
NoRow == [item |-> "none", photos |-> 0]
Row == [item : Item, photos : 0..MaxPhotos]
Album == [Item -> [Index -> Photo \cup {Missing}]]
Command == {"import", "photo add", "photo remove", "edit", "move", "none"}

VARIABLES
    rows,           \* model_color, as committed
    big, preview,   \* the files big_N.jpg and preview_N.jpg of each item
    runs,           \* scripts run so far
    pc,
    command,        \* what the script does
    snapshot,       \* rows as its transaction reads them
    own,            \* the rows it has changed, and locked
    self,           \* the object it works on: its id and its fields
    photo,          \* the photo it adds
    num,            \* the number whose files it renames next to
    todo,           \* objects to save, or moves still to make
    spoiled,        \* history: items several scripts worked on, or one left half-way
    removed         \* history: items a photo was removed from

files == <<big, preview>>
scriptVars == <<command, snapshot, own, self, photo, num, todo>>
histories == <<spoiled, removed>>
vars == <<rows, big, preview, runs, pc, command, snapshot, own, self, photo, num, todo, spoiled,
          removed>>

Ids(table) == {id \in Id : table[id] # NoRow}
Put(f, k, v) == [x \in DOMAIN f \cup {k} |-> IF x = k THEN v ELSE f[x]]
Nothing == [id \in Id |-> NoRow]
Nobody == [id |-> 0, item |-> "none", photos |-> 0]

\* What scripts run one at a time can have made: ids from 1 on, every item once.
Init ==
    /\ \E n \in 0..MaxRows : \E items \in [1..n -> Item], photos \in [1..n -> 0..MaxPhotos] :
           /\ IsInjective(items)
           /\ rows = [id \in Id |-> IF id > n THEN NoRow ELSE [item |-> items[id], photos |-> photos[id]]]
           /\ big = [i \in Item |-> [k \in Index |->
                        IF \E id \in 1..n : items[id] = i /\ k < photos[id] THEN k + 1 ELSE Missing]]
    /\ preview = big
    /\ runs = 0 /\ pc = [s \in Script |-> "idle"]
    /\ command = [s \in Script |-> "none"]
    /\ snapshot = [s \in Script |-> Nothing] /\ own = [s \in Script |-> <<>>]
    /\ self = [s \in Script |-> Nobody] /\ photo = [s \in Script |-> Missing]
    /\ num = [s \in Script |-> 0] /\ todo = [s \in Script |-> <<>>]
    /\ spoiled = {} /\ removed = {}

-----------------------------------------------------------------------------
(* Transactions *)

\* What a SELECT of the script finds, and what its INSERT or UPDATE does.
Read(s) == [id \in Id |-> IF id \in DOMAIN own[s] THEN own[s][id] ELSE snapshot[s][id]]
Now(s) == [id \in Id |-> IF id \in DOMAIN own[s] THEN own[s][id] ELSE rows[id]]
Free(s, id) == \A t \in Script \ {s} : id \notin DOMAIN own[t]

Object(table, id) == [id |-> id, item |-> table[id].item, photos |-> table[id].photos]
Fields(object) == [item |-> object.item, photos |-> object.photos]

\* save() of an object that has an id: UPDATE of its whole row.
UpdateRow(s, object) ==
    /\ Free(s, object.id)
    /\ own' = IF Now(s)[object.id] = NoRow
              THEN own
              ELSE [own EXCEPT ![s] = Put(@, object.id, Fields(object))]

\* The script is over and its transaction with it.
Ends(s) ==
    /\ pc' = [pc EXCEPT ![s] = "idle"]
    /\ own' = [own EXCEPT ![s] = <<>>] /\ snapshot' = [snapshot EXCEPT ![s] = Nothing]
    /\ self' = [self EXCEPT ![s] = Nobody] /\ photo' = [photo EXCEPT ![s] = Missing]
    /\ num' = [num EXCEPT ![s] = 0] /\ todo' = [todo EXCEPT ![s] = <<>>]
    /\ command' = [command EXCEPT ![s] = "none"]

-----------------------------------------------------------------------------
(* History: who works on the same item, and whose work is left half-way *)

Items(s) ==
    ({self[s].item} \cup {own[s][id].item : id \in DOMAIN own[s]}
     \cup (IF command[s] = "edit" THEN {todo[s][i].item : i \in DOMAIN todo[s]} ELSE {}))
    \cap Item
Listed == {rows[id].item : id \in Ids(rows)}

\* s turns to the given items; others may be at work on them.
Meets(s, items) ==
    spoiled' = spoiled \cup (items \cap UNION {Items(t) : t \in Script \ {s}})

-----------------------------------------------------------------------------
(* The scripts begin *)

\* connect_db(), the first SELECT of the command, and what it finds.
Begin(s, name, where, object, list) ==
    /\ pc[s] = "idle" /\ pc' = [pc EXCEPT ![s] = where]
    /\ runs < MaxRuns /\ runs' = runs + 1
    /\ command' = [command EXCEPT ![s] = name]
    /\ snapshot' = [snapshot EXCEPT ![s] = rows]
    /\ self' = [self EXCEPT ![s] = object]
    /\ todo' = [todo EXCEPT ![s] = list]
    /\ UNCHANGED <<rows, files, own, photo>>

\* item add; item csv from its first line on.
BeginImport(s) ==
    /\ \E i \in Item :
        /\ Begin(s, "import", "insert", [Nobody EXCEPT !.item = i], <<>>)
        /\ Meets(s, {i})
    /\ UNCHANGED <<num, removed>>

\* by_model_and_color(): any row of the item.
BeginPhotoAdd(s) ==
    /\ \E id \in Ids(rows) :
        /\ rows[id].photos < MaxPhotos
        /\ Begin(s, "photo add", "big", Object(rows, id), <<>>)
        /\ Meets(s, {rows[id].item})
    /\ UNCHANGED <<num, removed>>

\* The number asked for must be that of a photo.
BeginPhotoRemove(s) ==
    /\ \E id \in Ids(rows) : \E n \in 0..(rows[id].photos - 1) :
        /\ Begin(s, "photo remove", "unlinkBig", Object(rows, id), <<>>)
        /\ num' = [num EXCEPT ![s] = n]
        /\ Meets(s, {rows[id].item})
        /\ removed' = removed \cup {rows[id].item}

\* item desc, sprice and scsv: objects are read and then saved, one or several.
BeginEdit(s) ==
    /\ \E ids \in SeqOf(Ids(rows), 2) :
        /\ ids # <<>> /\ IsInjective(ids)
        /\ Begin(s, "edit", "edit", Nobody, [i \in DOMAIN ids |-> Object(rows, ids[i])])
        /\ Meets(s, {rows[ids[i]].item : i \in DOMAIN ids})
    /\ UNCHANGED <<num, removed>>

next_id(table) == IF Ids(table) = {} THEN 1 ELSE 1 + CHOOSE id \in Ids(table) : \A x \in Ids(table) : x <= id

\* The UPDATEs of move_to(), as their values reach them.
Moves(old, new, tmp) ==
    LET shift == IF old < new
                 THEN [k \in 1..(new - old) |-> [to |-> old + k - 1, from |-> old + k]]
                 ELSE [k \in 1..(old - new) |-> [to |-> old - k + 1, from |-> old - k]]
    IN  <<[to |-> old, from |-> tmp]>> \o shift \o <<[to |-> tmp, from |-> new]>>

\* item move
BeginMove(s) ==
    /\ \E from \in Ids(rows), to \in Id :
        /\ from # to
        /\ Begin(s, "move", "move", Nobody, Moves(from, to, next_id(rows)))
    /\ UNCHANGED <<num, histories>>

-----------------------------------------------------------------------------
(* ModelColor: rows *)

\* A mutant of Insert: the row replaces one that has the id.
InsertReplaces(s) ==
    /\ pc[s] = "insert" /\ Cardinality(Ids(rows)) < MaxRows
    /\ LET id == next_id(Read(s)) IN
        /\ id <= MaxRows /\ Free(s, id)
        /\ own' = [own EXCEPT ![s] = Put(@, id, Fields(self[s]))]
        /\ self' = [self EXCEPT ![s].id = id]
    /\ pc' = [pc EXCEPT ![s] = "line"]
    /\ UNCHANGED <<runs, rows, files, command, snapshot, photo, num, todo, histories>>

\* save() of an object without an id; a duplicate key is left to Dies.
Insert(s) ==
    /\ pc[s] = "insert"
    /\ LET id == next_id(Read(s)) IN
        /\ id <= MaxRows /\ Free(s, id) /\ Now(s)[id] = NoRow
        /\ own' = [own EXCEPT ![s] = Put(@, id, Fields(self[s]))]
        /\ self' = [self EXCEPT ![s].id = id]
    /\ pc' = [pc EXCEPT ![s] = "line"]
    /\ UNCHANGED <<runs, rows, files, command, snapshot, photo, num, todo, histories>>

\* item csv: the line names photos, or there is another line; or it is the last.
NextPhoto(s) ==
    /\ pc[s] = "line" /\ self[s].photos < MaxPhotos
    /\ pc' = [pc EXCEPT ![s] = "big"]
    /\ UNCHANGED <<runs, rows, files, scriptVars, histories>>

NextLine(s) ==
    /\ pc[s] = "line" /\ pc' = [pc EXCEPT ![s] = "insert"]
    /\ \E i \in Item : self' = [self EXCEPT ![s] = [Nobody EXCEPT !.item = i]] /\ Meets(s, {i})
    /\ UNCHANGED <<runs, rows, files, command, snapshot, own, photo, num, todo, removed>>

LastLine(s) ==
    /\ pc[s] = "line" /\ pc' = [pc EXCEPT ![s] = "commit"]
    /\ UNCHANGED <<runs, rows, files, scriptVars, histories>>

\* save() at the end of add_image() and of remove_image().
Save(s) ==
    /\ pc[s] = "save"
    /\ UpdateRow(s, self[s])
    /\ pc' = [pc EXCEPT ![s] = IF command[s] = "import" THEN "line" ELSE "commit"]
    /\ UNCHANGED <<runs, rows, files, command, snapshot, self, photo, num, todo, histories>>

Edit(s) ==
    /\ pc[s] = "edit"
    /\ UpdateRow(s, Head(todo[s]))
    /\ todo' = [todo EXCEPT ![s] = Tail(@)]
    /\ pc' = [pc EXCEPT ![s] = IF Len(todo[s]) = 1 THEN "commit" ELSE "edit"]
    /\ UNCHANGED <<runs, rows, files, command, snapshot, self, photo, num, histories>>

\* One UPDATE of move_to(); a duplicate key is left to Dies.
Move(s) ==
    /\ pc[s] = "move"
    /\ LET to == Head(todo[s]).to
           from == Head(todo[s]).from
       IN  /\ Free(s, from)
           /\ IF Now(s)[from] = NoRow
              THEN UNCHANGED own
              ELSE /\ Free(s, to) /\ Now(s)[to] = NoRow
                   /\ own' = [own EXCEPT ![s] = Put(Put(@, to, Now(s)[from]), from, NoRow)]
    /\ todo' = [todo EXCEPT ![s] = Tail(@)]
    /\ pc' = [pc EXCEPT ![s] = IF Len(todo[s]) = 1 THEN "commit" ELSE "move"]
    /\ UNCHANGED <<runs, rows, files, command, snapshot, self, photo, num, histories>>

Commit(s) ==
    /\ pc[s] = "commit"
    /\ rows' = Now(s)
    /\ Ends(s)
    /\ UNCHANGED <<runs, files, histories>>

\* What the script did to the rows is undone, what it did to the files is not.
Dies(s) ==
    /\ pc[s] # "idle"
    /\ spoiled' = spoiled \cup CASE command[s] = "photo remove" -> {self[s].item}
                                 [] command[s] = "import" -> Items(s) \cap Listed
                                 [] OTHER -> {}
    /\ Ends(s)
    /\ UNCHANGED <<runs, rows, files, removed>>

-----------------------------------------------------------------------------
(* ModelColor: photos *)

\* A photo that is nowhere yet.
New(i) == CHOOSE p \in Photo :
    /\ \A k \in Index : p # big[i][k] /\ p # preview[i][k]
    /\ \A t \in Script : p # photo[t]

\* add_image(): the two conversions write to the number after the last.
ConvertBig(s) ==
    /\ pc[s] = "big" /\ pc' = [pc EXCEPT ![s] = "preview"]
    /\ LET i == self[s].item IN
        /\ photo' = [photo EXCEPT ![s] = New(i)]
        /\ big' = [big EXCEPT ![i][self[s].photos] = New(i)]
    /\ UNCHANGED <<runs, rows, preview, command, snapshot, own, self, num, todo, histories>>

\* A mutant of ConvertPreview: the number is counted before the preview is made.
ConvertPreviewNext(s) ==
    /\ pc[s] = "preview" /\ pc' = [pc EXCEPT ![s] = "save"]
    /\ preview' = [preview EXCEPT ![self[s].item] =
                      [k \in Index |-> IF k = self[s].photos + 1 THEN photo[s] ELSE @[k]]]
    /\ self' = [self EXCEPT ![s].photos = @ + 1]
    /\ UNCHANGED <<runs, rows, big, command, snapshot, own, photo, num, todo, histories>>

ConvertPreview(s) ==
    /\ pc[s] = "preview" /\ pc' = [pc EXCEPT ![s] = "save"]
    /\ preview' = [preview EXCEPT ![self[s].item][self[s].photos] = photo[s]]
    /\ self' = [self EXCEPT ![s].photos = @ + 1]
    /\ UNCHANGED <<runs, rows, big, command, snapshot, own, photo, num, todo, histories>>

UnlinkBig(s) ==
    /\ pc[s] = "unlinkBig" /\ pc' = [pc EXCEPT ![s] = "unlinkPreview"]
    /\ big' = [big EXCEPT ![self[s].item][num[s]] = Missing]
    /\ UNCHANGED <<runs, rows, preview, scriptVars, histories>>

\* A mutant of Renames: the last file stays where it is.
RenamesShort(s, n) == n < self[s].photos - 2

\* The files behind the one removed move up, one number at a time.
Renames(s, n) == n < self[s].photos - 1

UnlinkPreview(s) ==
    /\ pc[s] = "unlinkPreview"
    /\ preview' = [preview EXCEPT ![self[s].item][num[s]] = Missing]
    /\ IF Renames(s, num[s])
       THEN pc' = [pc EXCEPT ![s] = "renameBig"] /\ UNCHANGED self
       ELSE pc' = [pc EXCEPT ![s] = "save"] /\ self' = [self EXCEPT ![s].photos = @ - 1]
    /\ UNCHANGED <<runs, rows, big, command, snapshot, own, photo, num, todo, histories>>

\* rename(), whose result is not looked at: nothing happens without the file.
Renamed(dir, n) ==
    IF dir[n + 1] = Missing THEN dir ELSE [dir EXCEPT ![n] = dir[n + 1], ![n + 1] = Missing]

RenameBig(s) ==
    /\ pc[s] = "renameBig" /\ pc' = [pc EXCEPT ![s] = "renamePreview"]
    /\ big' = [big EXCEPT ![self[s].item] = Renamed(@, num[s])]
    /\ UNCHANGED <<runs, rows, preview, scriptVars, histories>>

RenamePreview(s) ==
    /\ pc[s] = "renamePreview"
    /\ preview' = [preview EXCEPT ![self[s].item] = Renamed(@, num[s])]
    /\ num' = [num EXCEPT ![s] = @ + 1]
    /\ IF Renames(s, num[s] + 1)
       THEN pc' = [pc EXCEPT ![s] = "renameBig"] /\ UNCHANGED self
       ELSE pc' = [pc EXCEPT ![s] = "save"] /\ self' = [self EXCEPT ![s].photos = @ - 1]
    /\ UNCHANGED <<runs, rows, big, command, snapshot, own, photo, todo, histories>>

-----------------------------------------------------------------------------
Begins(s) == BeginImport(s) \/ BeginPhotoAdd(s) \/ BeginPhotoRemove(s) \/ BeginEdit(s) \/ BeginMove(s)
RowStep(s) == Insert(s) \/ NextPhoto(s) \/ NextLine(s) \/ LastLine(s) \/ Save(s) \/ Edit(s) \/ Move(s)
FileStep(s) ==
    \/ ConvertBig(s) \/ ConvertPreview(s)
    \/ UnlinkBig(s) \/ UnlinkPreview(s) \/ RenameBig(s) \/ RenamePreview(s)

Next == \E s \in Script : Begins(s) \/ RowStep(s) \/ FileStep(s) \/ Commit(s) \/ Dies(s)

Spec == Init /\ [][Next]_vars

TypeOK ==
    /\ rows \in [Id -> Row \cup {NoRow}] /\ big \in Album /\ preview \in Album
    /\ runs \in 0..MaxRuns
    /\ pc \in [Script -> {"idle", "insert", "line", "edit", "move", "big", "preview", "unlinkBig",
                          "unlinkPreview", "renameBig", "renamePreview", "save", "commit"}]
    /\ command \in [Script -> Command]
    /\ snapshot \in [Script -> [Id -> Row \cup {NoRow}]]
    /\ \A s \in Script : DOMAIN own[s] \subseteq Id /\ \A id \in DOMAIN own[s] : own[s][id] \in Row \cup {NoRow}
    /\ self \in [Script -> [id : 0..MaxRows, item : Item \cup {"none"}, photos : 0..MaxPhotos]]
    /\ photo \in [Script -> Photo \cup {Missing}] /\ num \in [Script -> 0..MaxPhotos]
    /\ spoiled \subseteq Item /\ removed \subseteq Item

-----------------------------------------------------------------------------
(* Properties *)

\* The collection page, the newest row first.
Collection == [k \in 1..Cardinality(Ids(rows)) |->
    rows[CHOOSE id \in Ids(rows) : Cardinality({x \in Ids(rows) : x >= id}) = k].item]

Listings(i) == {id \in Ids(rows) : rows[id].item = i}

(* Whatever scripts run together, no listing of an item is lost or replaced, *)
(* neither by a script that read the last id before another used it, nor by  *)
(* one that saves by id an object it read long ago, and only a move that     *)
(* commits may put items elsewhere: all others leave the collection as it is *)
(* or make it grow at its head.  (An edit saves by id: once moves do move,   *)
(* below, one between its reading and its saving would lose an item.)        *)
ItemsKept ==
    [][/\ \A i \in Item : Cardinality(Listings(i)) <= Cardinality(Listings(i)')
       /\ \/ IsSuffix(Collection, Collection')
          \/ \E s \in Script : pc[s] = "commit" /\ command[s] = "move" /\ pc'[s] = "idle"]_rows

(* What the comments in move_to() say: the item is moved aside and the others *)
(* are moved "to make new_id free".  So no UPDATE of a move meets a row at    *)
(* the number it moves a row to, if nobody else committed since it began.     *)
MovesMeetNobody ==
    \A s \in Script : pc[s] = "move" /\ snapshot[s] = rows =>
        Now(s)[Head(todo[s]).from] = NoRow \/ Now(s)[Head(todo[s]).to] = NoRow

(* However scripts meet or die, a page never shows a photo whose files are   *)
(* not there, as long as no photo of the item is removed.                    *)
ShownPhotosExist ==
    \A id \in Ids(rows) : rows[id].item \notin removed =>
        \A k \in 0..(rows[id].photos - 1) :
            big[rows[id].item][k] # Missing /\ preview[rows[id].item][k] # Missing

(* Removals included: an item that is listed once, whose scripts ran one     *)
(* after the other and came to their end, shows for each of its numbers the  *)
(* same photo in both sizes, and no photo twice.                             *)
PhotosMatch ==
    \A id \in Ids(rows) :
        LET i == rows[id].item IN
        /\ \A x \in Ids(rows) \ {id} : rows[x].item # i
        /\ i \notin spoiled
        /\ \A s \in Script : i \notin Items(s)
        => \A k \in 0..(rows[id].photos - 1) :
            /\ big[i][k] = preview[i][k] /\ big[i][k] # Missing
            /\ \A j \in 0..(k - 1) : big[i][j] # big[i][k]
=============================================================================
