-------------------------------- MODULE Site --------------------------------
(***************************************************************************)
(* From the URI of a request to its response: HttpObjectList::allocate()     *)
(* finds the object (httpservice.cpp), HttpObject::handle() runs it on the   *)
(* job thread, and Request sends what it left (main.cpp).  How the           *)
(* collection and the model page read the database is the subject of Pages,  *)
(* how a template is yielded that of Templates; here a body is the template  *)
(* and the values it was given.  Texts are sequences of character codes; a   *)
(* word that is never looked into is one element.                            *)
(***************************************************************************)
EXTENDS UrlEscape, FiniteSets, SequencesExt, Functions

CONSTANTS
    UriPiece,       \* the texts of which people type URIs
    MaxPieces,      \* bound: pieces of a URI
    Color,          \* the colours of models
    Config,         \* the lines a .config file may have
    Row,            \* what the view of a model may say: its sizes, its photos
    MaxEntries      \* bound: the photos of the lookbook

Dot == 46
Dash == 45
Hash == 35
Bar == 124
Backslash == 92
Known == [phylosophy |-> 401, contacts |-> 402, howtobuy |-> 403, lookbook |-> 404,
          collection |-> 405, model |-> 406, base_uri |-> 411, title |-> 412, body |-> 413]

VARIABLES
    request,        \* the request: where the client means to go, its URI and method
    disk,           \* page.html, the .config, the templates loaded, the lookbook
    object,         \* the HttpObject, by the name of its class
    id_,            \* what handle() is called with
    response,       \* status_, content_type_ and data_
    sent,           \* what went out
    state_

vars == <<request, disk, object, id_, response, sent, state_>>

None == [class |-> "none", path |-> <<>>]
Text(what) == [template |-> "none", body |-> what]
InitialResponse == [status |-> 200, content_type |-> "text/html", data |-> Text("OK")]

-----------------------------------------------------------------------------
(* HttpObjectList *)

Object(class, accepts_id) == [class |-> class, accepts_id |-> accepts_id]

table_ ==
    (<<Slash, Known.phylosophy>> :> Object("StaticPage", FALSE)) @@ (<<Slash, Known.contacts>> :> Object("StaticPage", FALSE))
    @@ (<<Slash, Known.howtobuy>> :> Object("StaticPage", FALSE)) @@ (<<Slash, Known.lookbook>> :> Object("Lookbook", FALSE))
    @@ (<<>> :> Object("Lookbook", FALSE)) @@ (<<Slash, Known.collection>> :> Object("Collection", FALSE))
    @@ (<<Slash, Known.model>> :> Object("Model", TRUE))

\* The URI without its query and one slash at the end.
PathOf(uri) ==
    LET questions == {i \in DOMAIN uri : uri[i] = Question}
        path == IF questions = {} THEN uri
                ELSE SubSeq(uri, 1, (CHOOSE i \in questions : \A j \in questions : i <= j) - 1)
    IN  IF path # <<>> /\ Last(path) = Slash THEN Front(path) ELSE path

Sane(id) == id # <<>> /\ ToSet(id) \cap {Backslash, Slash, Bar, Dot, Amp, Hash} = {}

\* The path is a key, or it is one without its last part, the id; each is
\* decoded on its own, as an id may hold an escaped slash.
allocate(uri) ==
    LET path == PathOf(uri)
        decoded_path == percentEscapedToRealBytes(path)
        slashes == {i \in DOMAIN path : path[i] = Slash}
        pos == CHOOSE i \in slashes : \A j \in slashes : j <= i
        front == percentEscapedToRealBytes(SubSeq(path, 1, pos - 1))
        id == percentEscapedToRealBytes(SubSeq(path, pos + 1, Len(path)))
    IN  IF decoded_path \in DOMAIN table_
        THEN [class |-> table_[decoded_path].class, path |-> decoded_path, id |-> <<>>]
        ELSE IF slashes = {} THEN None @@ [id |-> <<>>]
        ELSE IF Sane(id) /\ front \in DOMAIN table_ /\ table_[front].accepts_id
        THEN [class |-> table_[front].class, path |-> front \o <<Slash>> \o id, id |-> id]
        ELSE None @@ [id |-> id]

-----------------------------------------------------------------------------
(* The objects *)

\* trim()
Trim(s) ==
    LET ink == {i \in DOMAIN s : s[i] # Space}
    IN  IF ink = {} THEN <<>>
        ELSE SubSeq(s, CHOOSE i \in ink : \A j \in ink : i <= j, CHOOSE i \in ink : \A j \in ink : j <= i)

\* A line is a comment, or has a key before its first equals sign, or says nothing.
ConfigLine(data, untrimmed) ==
    LET line == Trim(untrimmed)
        equals == {i \in DOMAIN line : line[i] = Equals}
        pos == CHOOSE i \in equals : \A j \in equals : i <= j
    IN  IF line = <<>> \/ line[1] = Hash \/ equals = {} THEN data
        ELSE (Trim(SubSeq(line, 1, pos - 1)) :> Trim(SubSeq(line, pos + 1, Len(line)))) @@ data

NoData == [x \in {} |-> <<>>]
DirConfig(lines) == FoldLeft(ConfigLine, NoData, lines)

\* enum_files(): the plain files with the extension that are not hidden, in order.
enum_files(entries) ==
    LET items == {e \in DOMAIN entries : entries[e] = "jpg"}
    IN  [i \in 1..Cardinality(items) |-> CHOOSE x \in items : Cardinality({y \in items : y < x}) = i - 1]

\* size_to_string(): bit 9, the largest size, is not looked at.
Labels == <<"38-40", "42-44", "44-46", "46-48", "48-50", "50-52", "52-54">>
Bit(sizes, n) == (sizes \div 2^(n + 2)) % 2 = 1
size_to_string(sizes) == LET set == {n \in 1..6 : Bit(sizes, n)}
                         IN  SelectSeq(Labels, LAMBDA l : \E n \in set : Labels[n] = l)

\* from_string<unsigned int>(): the digits there are, or 0.
Number(s) ==
    LET t == Trim(s)
        digit(r, c) == IF r.on /\ c \in 48..57 THEN [r EXCEPT !.n = @ * 10 + c - 48] ELSE [r EXCEPT !.on = FALSE]
    IN  FoldLeft(digit, [on |-> TRUE, n |-> 0], IF t # <<>> /\ t[1] = Plus THEN Tail(t) ELSE t).n

Letters == (48..57) \cup (65..90) \cup (97..122) \cup {Dash, 95}

\* The model and the colour, or NotFound.
parse_id(id) ==
    LET dashes == {i \in DOMAIN id : id[i] = Dash}
        pos == CHOOSE i \in dashes : \A j \in dashes : i <= j
        color == SubSeq(id, pos + 1, Len(id))
    IN  IF dashes = {} \/ color = <<>> \/ ~(ToSet(color) \subseteq Letters) THEN [ok |-> FALSE, key |-> <<0, <<>>>>]
        ELSE [ok |-> TRUE, key |-> <<Number(SubSeq(id, 1, pos - 1)), color>>]

\* The catch blocks of handle() replace all that the object has left.
Failed(status) == [status |-> status, content_type |-> "text/plain", data |-> Text("what")]

\* What is in .config comes after base_uri and before body.
set_page(path, config, template, values) ==
    IF ~({"main", template} \subseteq disk.templates) THEN Failed(500)
    ELSE [InitialResponse EXCEPT !.data =
            [base_uri |-> IF <<Known.base_uri>> \in DOMAIN config THEN config[<<Known.base_uri>>] ELSE path \o <<Slash>>,
             title |-> IF <<Known.title>> \in DOMAIN config THEN config[<<Known.title>>] ELSE <<>>,
             template |-> template, body |-> values]]

StaticPage_get ==
    IF ~disk.page THEN Failed(404)
    ELSE set_page(object.path, DirConfig(disk.config), "static_page", object.path)

Lookbook_get == set_page(object.path, DirConfig(disk.config), "lookbook", enum_files(disk.entries))

\* Their rows are those of Pages.
Collection_get ==
    IF ~disk.database THEN Failed(500) ELSE set_page(object.path, DirConfig(disk.config), "collection", DOMAIN disk.view)

\* A mutant of Model_get: a row is looked for whatever the id.
Model_getAny ==
    LET known == DOMAIN disk.view
        key == IF known = {} THEN parse_id(id_).key ELSE CHOOSE k \in known : TRUE
    IN  IF ~disk.database THEN Failed(500)
        ELSE IF key \notin known THEN Failed(404)
        ELSE set_page(object.path, NoData, "model",
                      [key |-> key, sizes |-> size_to_string(disk.view[key].sizes),
                       previews |-> [i \in 1..disk.view[key].num_images |-> [big |-> i - 1, preview |-> i - 1, index |-> i]]])

Model_get ==
    LET key == parse_id(id_).key IN
    IF ~parse_id(id_).ok THEN Failed(404)
    ELSE IF ~disk.database THEN Failed(500)
    ELSE IF key \notin DOMAIN disk.view THEN Failed(404)
    ELSE set_page(object.path, NoData, "model",
                  [key |-> key, sizes |-> size_to_string(disk.view[key].sizes),
                   previews |-> [i \in 1..disk.view[key].num_images |-> [big |-> i - 1, preview |-> i - 1, index |-> i]]])

-----------------------------------------------------------------------------
Init ==
    /\ request = [uri |-> <<>>, method |-> "GET", to |-> [class |-> "none"]]
    /\ disk = [page |-> TRUE, config |-> <<>>, templates |-> {}, entries |-> <<>>, database |-> TRUE, view |-> NoData]
    /\ object = None /\ id_ = <<>> /\ response = InitialResponse /\ sent = NoData /\ state_ = "idle"

AllTemplates == {"main", "static_page", "lookbook", "collection", "model"}
Digits(n) == IF n < 10 THEN <<48 + n>> ELSE <<48 + (n \div 10), 48 + (n % 10)>>
LinkOf(to) ==
    IF to.class = "Model" THEN <<Slash, Known.model, Slash>> \o Escaped(Digits(to.key[1]) \o <<Dash>> \o to.key[2], FALSE)
    ELSE IF to.path = <<>> THEN <<>> ELSE to.path

Targets ==
    [class : {"Model"}, key : {1, 23} \X Color]
    \cup {[class |-> table_[p].class, path |-> p] : p \in DOMAIN table_ \ {<<Slash, Known.model>>}}

\* Somebody follows a link of the site, which may end with a slash or have a
\* query.  One thing at most is wrong with the disk and the database.
Follow ==
    /\ state_ = "idle" /\ state_' = "Start"
    /\ \E to \in Targets, method \in {"HEAD", "GET", "POST", "PUT", "DELETE", "ERROR"}, tail \in {<<>>, <<Slash>>, <<Question, Slash>>} :
          request' = [to |-> to, uri |-> LinkOf(to) \o tail, method |-> method]
    /\ \E missing \in {"nothing", "page", "database"} \cup AllTemplates,
          lines \in IF request'.to.class = "StaticPage" /\ request'.method = "GET" THEN Config \X Config ELSE {<<>>},
          entries \in IF request'.to.class = "Lookbook" THEN [1..MaxEntries -> {"jpg", "text", "folder", "hidden"}] ELSE {<<>>},
          keys \in IF request'.to.class \in {"Model", "Collection"} THEN SUBSET ({1} \X Color) ELSE {{}},
          row \in IF request'.to.class = "Model" THEN Row ELSE {CHOOSE r \in Row : TRUE} :
          disk' = [page |-> missing # "page", database |-> missing # "database",
                   templates |-> AllTemplates \ {missing}, config |-> lines, entries |-> entries,
                   view |-> [k \in keys |-> row]]
    /\ UNCHANGED <<object, id_, response, sent>>

\* Somebody types one.
Type ==
    /\ state_ = "idle" /\ state_' = "Start"
    /\ \E n \in 0..MaxPieces : \E uri \in [1..n -> UriPiece] :
          request' = [to |-> [class |-> "typed"], uri |-> FlattenSeq(uri), method |-> "GET"]
    /\ disk' = [disk EXCEPT !.templates = AllTemplates]
    /\ UNCHANGED <<object, id_, response, sent>>

Reply(status, content_type, length, data) ==
    sent' = [status |-> status, content_type |-> content_type, length |-> length, data |-> data]

\* Without an object the request is over.
response_start ==
    /\ state_ = "Start"
    /\ LET found == allocate(request.uri)
       IN  /\ object' = [class |-> found.class, path |-> found.path] /\ id_' = found.id
           /\ IF found.class = "none"
              THEN state_' = "complete" /\ Reply(404, "text/plain", Text(""), Text("Invalid url"))
              ELSE state_' = "job" /\ UNCHANGED sent
    /\ UNCHANGED <<request, disk, response>>

\* head() is get(); no object has create(), update() or remove().
handle ==
    /\ state_ = "job" /\ state_' = "Finish"
    /\ response' =
          IF request.method \notin {"GET", "HEAD"} THEN Failed(405)
          ELSE CASE object.class = "StaticPage" -> StaticPage_get
                 [] object.class = "Lookbook" -> Lookbook_get
                 [] object.class = "Collection" -> Collection_get
                 [] object.class = "Model" -> Model_get
    /\ UNCHANGED <<request, disk, object, id_, sent>>

response_finish ==
    /\ state_ = "Finish" /\ state_' = "complete"
    /\ Reply(response.status, response.content_type, response.data, IF request.method = "HEAD" THEN Text("") ELSE response.data)
    /\ UNCHANGED <<request, disk, object, id_, response>>

Next == Follow \/ Type \/ response_start \/ handle \/ response_finish

Spec == Init /\ [][Next]_vars

-----------------------------------------------------------------------------
(* Properties *)

\* A link finds what it was made for, with the id it was made of, whatever
\* escapes that took; and whatever is typed, an object is told the path that
\* was typed, decoded, has an id only if it takes one, and none in which
\* something else than a name may hide.
ObjectFound ==
    /\ state_ \in {"job", "Finish"} =>
           /\ object.path = percentEscapedToRealBytes(PathOf(request.uri))
           /\ id_ # <<>> => object.class = "Model" /\ ToSet(id_) \cap {Slash, Backslash, Dot, Bar, Amp, Hash} = {}
           /\ request.to.class # "typed" =>
                  /\ object.class = request.to.class
                  /\ id_ = IF object.class = "Model" THEN Digits(request.to.key[1]) \o <<Dash>> \o request.to.key[2] ELSE <<>>
    /\ state_ = "complete" /\ object.class = "none" => request.to.class = "typed"

\* "The job may be done or not done, but not partially done": a link finds its
\* object; a page is sent with status 200 if all it is made of was there, and
\* shows what its link was for; else the status says what was wrong, and nothing
\* of a page is sent.  (The largest of the sizes is not shown.)
AnswersWhole ==
    ObjectFound /\ (state_ = "complete" /\ request.to.class # "typed" =>
        LET to == request.to
            template == [StaticPage |-> "static_page", Lookbook |-> "lookbook",
                         Collection |-> "collection", Model |-> "model"][to.class]
            there == CASE to.class = "StaticPage" -> disk.page
                       [] to.class = "Model" -> disk.database => to.key \in DOMAIN disk.view
                       [] OTHER -> TRUE
            works == (to.class \in {"Model", "Collection"} => disk.database) /\ {"main", template} \subseteq disk.templates
            values == sent.length.body
        IN  /\ sent.status = IF request.method \notin {"GET", "HEAD"} THEN 405
                             ELSE IF ~there THEN 404 ELSE IF ~works THEN 500 ELSE 200
            /\ sent.status # 200 => sent.content_type = "text/plain" /\ sent.length = Text("what")
            /\ sent.data = IF request.method = "HEAD" THEN Text("") ELSE sent.length
            /\ sent.status = 200 =>
                   /\ sent.length.template = template /\ sent.content_type = "text/html"
                   /\ (\A i \in DOMAIN disk.config : Known.base_uri \notin ToSet(disk.config[i])) =>
                          sent.length.base_uri = object.path \o <<Slash>>
                   /\ CASE to.class = "StaticPage" -> values = to.path
                        [] to.class = "Lookbook" ->
                              /\ ToSet(values) = {i \in DOMAIN disk.entries : disk.entries[i] = "jpg"}
                              /\ \A i, j \in DOMAIN values : i < j => values[i] < values[j]
                        [] to.class = "Collection" -> values = DOMAIN disk.view
                        [] to.class = "Model" ->
                              /\ values.key = to.key /\ Len(values.previews) = disk.view[to.key].num_images
                              /\ \A n \in 1..6 : Bit(disk.view[to.key].sizes, n) = (Labels[n] \in ToSet(values.sizes)))
=============================================================================
