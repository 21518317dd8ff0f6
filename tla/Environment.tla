----------------------------- MODULE Environment -----------------------------
(***************************************************************************)
(* Http::Environment (http.cpp): what a request makes of the parameters and  *)
(* the POST data the web server passes on, record by record, from PARAMS to  *)
(* OUT (request.cpp).  A client means some fields and sends them in one of   *)
(* the ways there are.  Texts are sequences of character codes; what is      *)
(* never looked into is one element of them.                                 *)
(***************************************************************************)
EXTENDS UrlEscape, FiniteSets, SequencesExt

CONSTANTS
    Texts,          \* the names and values clients use
    Contents,       \* the values of the parts of a multipart body
    MaxFields,      \* bound: fields of a request
    MaxPost         \* m_maxPostSize, 0 for no limit

\* Elements that stand for more than a character, and the marks of a multipart
\* body.  The boundary is Seven, its first seven characters, and Rest.
Multipart == 301
UrlEncoded == 302
Other == 303
BoundaryIs == 304
Seven == 305
Rest == 306
Dashes == 307
Crlf == 308
NameIs == 309
FilenameIs == 310
TypeIs == 311
Quote == 312
Disposition == 313
Photo == 314
Junk == 315
Boundary == <<Seven, Rest>>

NameSize ==
    [HTTP_HOST |-> 9, PATH_INFO |-> 9, HTTP_ACCEPT |-> 11, HTTP_COOKIE |-> 11, SERVER_PORT |-> 11,
     REMOTE_PORT |-> 11, SCRIPT_NAME |-> 11, REQUEST_URI |-> 11, HTTP_REFERER |-> 12,
     CONTENT_TYPE |-> 12, QUERY_STRING |-> 12, DOCUMENT_ROOT |-> 13, REQUEST_METHOD |-> 14,
     CONTENT_LENGTH |-> 14, HTTP_USER_AGENT |-> 15, HTTP_KEEP_ALIVE |-> 15,
     HTTP_IF_NONE_MATCH |-> 18, HTTP_ACCEPT_CHARSET |-> 19, HTTP_ACCEPT_LANGUAGE |-> 20]

TextField == {"HTTP_HOST", "HTTP_ACCEPT", "SCRIPT_NAME", "REQUEST_URI", "HTTP_REFERER",
              "DOCUMENT_ROOT", "HTTP_USER_AGENT", "HTTP_ACCEPT_CHARSET", "HTTP_ACCEPT_LANGUAGE"}
NumberField == {"SERVER_PORT", "REMOTE_PORT", "CONTENT_LENGTH", "HTTP_KEEP_ALIVE", "HTTP_IF_NONE_MATCH"}
Label == {"HEAD", "GET", "POST", "PUT", "DELETE", "TRACE", "OPTIONS", "CONNECT"}
Way == {"query", "cookie", "path", "form", "multipart"}

VARIABLES
    meant,          \* the client's fields, the way they go, and the rest of the request
    params,         \* what the server has still to send in PARAMS records
    input,          \* and in IN records
    environment,
    state           \* Request::state, "complete" once the request has ended

vars == <<meant, params, input, environment, state>>

EmptyMap == [x \in {} |-> <<>>]

InitialEnvironment ==
    [text |-> [f \in TextField |-> <<>>], number |-> [f \in NumberField |-> 0], requestMethod |-> "ERROR",
     pathInfo |-> <<>>, contentType |-> <<>>, boundary |-> <<>>,
     gets |-> EmptyMap, cookies |-> EmptyMap, posts |-> EmptyMap, postBuffer |-> <<>>]

Init ==
    /\ meant = [way |-> "none"] /\ params = <<>> /\ input = <<>>
    /\ environment = InitialEnvironment /\ state = "idle"

-----------------------------------------------------------------------------
(* The readers *)

From(s, i) == SubSeq(s, i, Len(s))
Put(map, x, y) == (x :> y) @@ map

RECURSIVE Number(_, _)
Number(s, result) ==
    IF s = <<>> \/ Head(s) \notin 48..57 THEN result ELSE Number(Tail(s), result * 10 + Head(s) - 48)

atoi(s) == IF s # <<>> /\ Head(s) = 45 THEN -Number(Tail(s), 0) ELSE Number(s, 0)

\* A mutant of UrlStep: the value is not closed.
UrlStepOpen(f, c, sep, skip) ==
    IF c = sep /\ f.inValue THEN [f EXCEPT !.out = Put(@, f.name, percentEscapedToRealBytes(f.raw)), !.raw = <<>>]
    ELSE IF c = Equals /\ ~f.inValue THEN
        [f EXCEPT !.name = percentEscapedToRealBytes(f.raw), !.raw = <<>>, !.inValue = TRUE]
    ELSE [f EXCEPT !.raw = Append(@, c)]

\* decodeUrlEncoded() and parsePostsUrlEncoded(): from one separator to the
\* next, with nothing behind the last one to tell it from them.  A field
\* without an equals sign stays in front of the name of the next.  Only the
\* first of them skips spaces, and at the wrong end of what it has of the name.
UrlStep(f, c, sep, skip) ==
    IF c = sep /\ f.inValue THEN
        [out |-> Put(f.out, f.name, percentEscapedToRealBytes(f.raw)), name |-> <<>>, raw |-> <<>>, inValue |-> FALSE]
    ELSE IF c = Equals /\ ~f.inValue THEN
        [f EXCEPT !.name = percentEscapedToRealBytes(f.raw), !.raw = <<>>, !.inValue = TRUE]
    ELSE IF c = Space /\ ~f.inValue /\ skip THEN
        [f EXCEPT !.raw = IF @ = <<>> THEN @ ELSE Append(Tail(@), c)]
    ELSE [f EXCEPT !.raw = Append(@, c)]

UrlFields(data, sep, skip, out) ==
    FoldLeft(LAMBDA f, c : UrlStep(f, c, sep, skip),
             [out |-> out, name |-> <<>>, raw |-> <<>>, inValue |-> FALSE], Append(data, sep)).out

decodeUrlEncoded(data, out, sep) == UrlFields(data, sep, TRUE, out)

\* PATH_INFO: a part is as long as it was before its escapes were taken away;
\* behind what is left of it comes what was in the buffer.
Parts(s) == SelectSeq(FoldLeft(LAMBDA ps, c : IF c = Slash THEN Append(ps, <<>>) ELSE [ps EXCEPT ![Len(ps)] = Append(@, c)],
                               <<<<>>>>, s), LAMBDA p : p # <<>>)
Part(raw) ==
    LET real == percentEscapedToRealBytes(raw) IN real \o [i \in 1..(Len(raw) - Len(real)) |-> Junk]

\* The type ends at a semicolon; the boundary is what follows the next equals
\* sign.  (The code looks for that one in as many bytes behind the value as the
\* value has; every client here that sends a semicolon sends the sign.)
CONTENT_TYPE(env, value) ==
    LET at(c) == {i \in DOMAIN value : value[i] = c}
        end == at(Semi)
        start == {i \in at(Equals) : \A j \in end : i > j}
    IN  IF end = {} THEN [env EXCEPT !.contentType = value]
        ELSE [env EXCEPT !.contentType = SubSeq(value, 1, (CHOOSE i \in end : TRUE) - 1),
                         !.boundary = IF start = {} THEN @ ELSE From(value, 1 + CHOOSE i \in start : TRUE)]

\* Both labels of seven letters are compared with OPTIONS.
Method(label) == IF label \in Label \ {"CONNECT"} THEN label ELSE "ERROR"

\* The switch of fill().  The ports have 16 bits.
Assign(env, name, value) ==
    CASE name \in TextField ->
            IF name = "HTTP_REFERER" /\ value = <<>> THEN env ELSE [env EXCEPT !.text[name] = value]
      [] name \in NumberField ->
            [env EXCEPT !.number[name] = IF name \in {"SERVER_PORT", "REMOTE_PORT"} THEN atoi(value) % 65536 ELSE atoi(value)]
      [] name = "REQUEST_METHOD" -> [env EXCEPT !.requestMethod = Method(value[1])]
      [] name = "CONTENT_TYPE" -> CONTENT_TYPE(env, value)
      [] name = "PATH_INFO" -> [env EXCEPT !.pathInfo = @ \o [i \in DOMAIN Parts(value) |-> Part(Parts(value)[i])]]
      [] name = "HTTP_COOKIE" -> [env EXCEPT !.cookies = decodeUrlEncoded(value, @, Semi)]
      [] name = "QUERY_STRING" -> IF value = <<>> THEN env ELSE [env EXCEPT !.gets = decodeUrlEncoded(value, @, Amp)]
      [] OTHER -> env

\* A size has one byte, or four with the top bit of the first one set.
Size(data) ==
    IF data[1] < 128 THEN [is |-> data[1], bytes |-> 1]
    ELSE [is |-> (data[1] % 128) * 16777216 + data[2] * 65536 + data[3] * 256 + data[4], bytes |-> 4]

processParamHeader(data) ==
    LET name == Size(data)
        value == Size(From(data, name.bytes + 1))
        start == name.bytes + value.bytes + 1
    IN  [name |-> start, value |-> start + name.is, end |-> start + name.is + value.is]

RECURSIVE fill(_, _)
fill(env, data) ==
    IF data = <<>> THEN env
    ELSE LET h == processParamHeader(data)
         IN  fill(Assign(env, data[h.name], SubSeq(data, h.value, h.end - 1)), From(data, h.end))

\* What still fits into contentLength; nothing of it is an overflow.
minPostBufferSize(env, n) ==
    LET free == env.number["CONTENT_LENGTH"] - Len(env.postBuffer) IN IF n < free THEN n ELSE free

-----------------------------------------------------------------------------
(* POST data *)

NewPost == [type |-> "none", value |-> <<>>, contentType |-> <<>>, data |-> <<>>]

parsePostsUrlEncoded(env) ==
    LET fields == UrlFields(env.postBuffer, Amp, FALSE, EmptyMap)
    IN  IF env.number["CONTENT_LENGTH"] = 0 THEN EmptyMap
        ELSE [n \in DOMAIN fields |-> [NewPost EXCEPT !.type = "form", !.value = fields[n]]]

NewPart(posts) ==
    [state |-> "HEADER", have |-> {}, name |-> <<>>, filename |-> <<>>, contentType |-> <<>>,
     raw |-> <<>>, blank |-> FALSE, posts |-> posts]

\* The header field that a mark opens, and what closes it.
Opens == (NameIs :> "name" @@ FilenameIs :> "filename" @@ TypeIs :> "contentType")
Closes == [name |-> Quote, filename |-> Quote, contentType |-> Crlf]

\* What came before the boundary, without the dashes and a line break in front of it.
Body(raw) ==
    LET body == SubSeq(raw, 1, Len(raw) - 1)
    IN  IF body # <<>> /\ Last(body) = Crlf THEN Front(body) ELSE body

\* A part without a name is passed over; one with a content type is a file.
PostPart(p) ==
    LET old == IF p.name \in DOMAIN p.posts THEN p.posts[p.name] ELSE NewPost
        body == Body(p.raw)
    IN  IF "name" \notin p.have THEN p.posts
        ELSE Put(p.posts, p.name,
                 IF "contentType" \in p.have
                 THEN [type |-> "file", value |-> IF "filename" \in p.have THEN p.filename ELSE old.value,
                       contentType |-> p.contentType, data |-> body]
                 ELSE [old EXCEPT !.type = "form", !.value = body])

PartStep(p, c) ==
    CASE p.state = "HEADER" ->
            IF c \in DOMAIN Opens /\ Opens[c] \notin p.have THEN [p EXCEPT !.state = Opens[c], !.raw = <<>>, !.blank = FALSE]
            ELSE IF c = Crlf /\ p.blank THEN [p EXCEPT !.state = "BODY", !.raw = <<>>]
            ELSE [p EXCEPT !.blank = c = Crlf]
      [] p.state \in DOMAIN Closes ->
            IF c = Closes[p.state]
            THEN [p EXCEPT ![p.state] = p.raw, !.have = @ \cup {p.state}, !.state = "HEADER", !.blank = c = Crlf]
            ELSE [p EXCEPT !.raw = Append(@, c)]
      [] p.state = "BODY" ->
            IF c = Seven THEN NewPart(PostPart(p)) ELSE [p EXCEPT !.raw = Append(@, c)]

\* From behind the first boundary.  The first seven characters of a boundary
\* are taken for all of it.
parsePostsMultipart(env) ==
    FoldLeft(PartStep, NewPart(EmptyMap), From(env.postBuffer, Len(env.boundary) + 2)).posts

-----------------------------------------------------------------------------
(* The client *)

RECURSIVE Decimal(_)
Decimal(n) == IF n < 0 THEN <<45>> \o Decimal(-n)
              ELSE IF n < 10 THEN <<48 + n>> ELSE Append(Decimal(n \div 10), 48 + (n % 10))

SizeSent(n, long) == IF long THEN <<128, 0, n \div 256, n % 256>> ELSE <<n>>

Pair(name, value, long) ==
    SizeSent(NameSize[name], long) \o SizeSent(Len(value), long) \o [i \in 1..NameSize[name] |-> name] \o value

Joined(ss, sep) == FoldLeft(LAMBDA all, s : IF all = <<>> THEN s ELSE all \o sep \o s, <<>>, ss)

FieldsSent(fields, plus, sep) ==
    Joined([i \in DOMAIN fields |-> Escaped(fields[i].name, plus) \o <<Equals>> \o Escaped(fields[i].value, plus)], sep)

PartSent(f, file) ==
    <<Dashes>> \o Boundary \o <<Crlf, Disposition, NameIs>> \o f.name \o <<Quote>>
    \o (IF file THEN <<Disposition, FilenameIs, Photo, Quote, Crlf, TypeIs, Other>> ELSE <<>>)
    \o <<Crlf, Crlf>> \o f.value \o <<Crlf>>

MultipartSent(fields, files) ==
    FlattenSeq([i \in DOMAIN fields |-> PartSent(fields[i], i \in files)]) \o <<Dashes>> \o Boundary \o <<Dashes, Crlf>>

Fields(way) ==
    LET values == CASE way = "multipart" -> Contents [] way = "path" -> {<<>>} [] OTHER -> Texts
        names == IF way = "path" THEN Texts \ {<<>>} ELSE Texts
    IN  UNION {[1..n -> [name : names, value : values]] : n \in 0..MaxFields}

\* One more parameter, of those nothing is decoded of.
Extra == {[name |-> f, value |-> v] : f \in TextField, v \in {<<>>, <<97>>}}
    \cup {[name |-> f, value |-> v] : f \in NumberField \ {"CONTENT_LENGTH"}, v \in {0, 80, 65535}}
    \cup {[name |-> "HTTP_IF_NONE_MATCH", value |-> -5]}

Parameters(m, body) ==
    LET text == Joined([i \in DOMAIN m.fields |-> Escaped(m.fields[i].name, m.plus)], <<Slash>>)
        extra == IF m.extra.name \in TextField THEN m.extra.value ELSE Decimal(m.extra.value)
        length == Pair("CONTENT_LENGTH", Decimal(Len(body) - m.cut), m.long)
    IN  <<Pair("REQUEST_METHOD", <<m.method>>, m.long), Pair(m.extra.name, extra, m.long)>>
        \o CASE m.way = "query" -> <<Pair("QUERY_STRING", FieldsSent(m.fields, m.plus, <<Amp>>), m.long)>>
             [] m.way = "cookie" -> <<Pair("HTTP_COOKIE", FieldsSent(m.fields, m.plus, <<Semi, Space>>), m.long)>>
             [] m.way = "path" -> <<Pair("PATH_INFO", <<Slash>> \o text, m.long)>>
             [] m.way = "form" -> <<Pair("CONTENT_TYPE", <<UrlEncoded>>, m.long), length>>
             [] m.way = "multipart" ->
                  <<length, Pair("CONTENT_TYPE", <<Multipart, Semi, Space, BoundaryIs, Equals>> \o Boundary, m.long)>>

Send ==
    /\ state = "idle" /\ state' = "PARAMS"
    /\ \E way \in Way : \E fields \in Fields(way), plus, long \in BOOLEAN :
       \E method \in IF way \in {"form", "multipart"} THEN {"POST"} ELSE IF fields = <<>> THEN Label ELSE {"GET"},
          extra \in IF fields = <<>> THEN Extra ELSE {[name |-> "HTTP_HOST", value |-> <<97>>]},
          files \in IF way = "multipart" THEN SUBSET DOMAIN fields ELSE {{}},
          cut \in IF way = "form" /\ fields # <<>> THEN {0, 1} ELSE {0} :
          LET m == [way |-> way, fields |-> fields, plus |-> plus, long |-> long, method |-> method,
                    extra |-> extra, files |-> files, cut |-> cut]
              body == CASE way = "form" -> FieldsSent(fields, plus, <<Amp>>)
                        [] way = "multipart" -> MultipartSent(fields, files)
                        [] OTHER -> <<>>
          IN  meant' = m /\ params' = Parameters(m, body) /\ input' = body
    /\ UNCHANGED environment

-----------------------------------------------------------------------------
(* Request::handler() *)

\* A record holds whole pairs; fill() takes one that goes on in the next record
\* for all there is.
PARAMS ==
    /\ state = "PARAMS" /\ params # <<>>
    /\ \E n \in DOMAIN params :
          /\ environment' = fill(environment, FlattenSeq(SubSeq(params, 1, n)))
          /\ params' = From(params, n + 1)
    /\ UNCHANGED <<meant, input, state>>

PARAMSEnd ==
    /\ state = "PARAMS" /\ params = <<>>
    /\ state' = IF MaxPost # 0 /\ environment.number["CONTENT_LENGTH"] > MaxPost THEN "complete" ELSE "IN"
    /\ UNCHANGED <<meant, params, input, environment>>

\* fillPostBuffer()
IN_ ==
    /\ state = "IN" /\ input # <<>>
    /\ \E n \in {1, Len(input)} :
          LET size == minPostBufferSize(environment, n)
          IN  /\ environment' = [environment EXCEPT !.postBuffer = @ \o SubSeq(input, 1, size)]
              /\ state' = IF size = 0 THEN "complete" ELSE "IN"
              /\ input' = From(input, n + 1)
    /\ UNCHANGED <<meant, params>>

\* An unknown content type is an exception, and the end of the request.
INEnd ==
    /\ state = "IN" /\ input = <<>>
    /\ LET known == environment.contentType \in {<<Multipart>>, <<UrlEncoded>>}
           posts == IF environment.contentType = <<Multipart>> THEN parsePostsMultipart(environment)
                    ELSE parsePostsUrlEncoded(environment)
       IN  IF environment.requestMethod # "POST"
           THEN state' = "OUT" /\ environment' = [environment EXCEPT !.postBuffer = <<>>]
           ELSE IF known THEN state' = "OUT" /\ environment' = [environment EXCEPT !.posts = posts, !.postBuffer = <<>>]
           ELSE state' = "complete" /\ UNCHANGED environment
    /\ UNCHANGED <<meant, params, input>>

Next == Send \/ PARAMS \/ PARAMSEnd \/ IN_ \/ INEnd

Spec == Init /\ [][Next]_vars

-----------------------------------------------------------------------------
(* Properties *)

\* The last one of a name is the one that counts.
Map(fields) == FoldLeft(LAMBDA m, f : Put(m, f.name, f.value), EmptyMap, fields)

PartMap(fields, files) ==
    LET last(n) == CHOOSE i \in DOMAIN fields : fields[i].name = n /\ \A j \in DOMAIN fields : fields[j].name = n => j <= i
    IN  [n \in {fields[i].name : i \in DOMAIN fields} |->
            [file |-> last(n) \in files, content |-> fields[last(n)].value]]

\* response() sees the fields the client meant, whichever way and in whatever
\* pieces they came, whatever they are made of and however they were escaped,
\* and no others.  (A part of the path is only as long as it was if it had no
\* escapes, and CONNECT is no method.)
FieldsComeBack ==
    state = "OUT" /\ meant.cut = 0 =>
        LET map == Map(meant.fields)
            in(way, is) == is = IF meant.way = way THEN map ELSE EmptyMap
            e == environment
        IN  /\ in("query", e.gets) /\ in("cookie", e.cookies)
            /\ in("form", IF meant.way = "multipart" THEN EmptyMap ELSE [n \in DOMAIN e.posts |-> e.posts[n].value])
            /\ meant.way = "multipart" =>
                   PartMap(meant.fields, meant.files) =
                       [n \in DOMAIN e.posts |->
                           [file |-> e.posts[n].type = "file",
                            content |-> IF e.posts[n].type = "file" THEN e.posts[n].data ELSE e.posts[n].value]]
            /\ meant.way = "path" =>
                   /\ Len(e.pathInfo) = Len(meant.fields)
                   /\ \A i \in DOMAIN meant.fields :
                          /\ IsPrefix(meant.fields[i].name, e.pathInfo[i])
                          /\ ToSet(meant.fields[i].name) \cap Reserved = {} => e.pathInfo[i] = meant.fields[i].name
            /\ e.requestMethod = (IF meant.method = "CONNECT" THEN "ERROR" ELSE meant.method)
            /\ meant.extra.value = IF meant.extra.name \in TextField THEN e.text[meant.extra.name] ELSE e.number[meant.extra.name]
=============================================================================
