-------------------------------- MODULE Parts --------------------------------
(***************************************************************************)
(* The parts of the server and its library that only one thread touches at a *)
(* time, side by side: the shared data of a query, a prepared statement, the *)
(* environment, the addresses and the sessions of HTTP, templates, and the   *)
(* way from a URI to its page.  They keep no state in common, so that a      *)
(* behaviour exercises one of them, the part, and the others stay as they    *)
(* were made.  The data of a query and the sessions come with the modules     *)
(* that are extended.                                                       *)
(***************************************************************************)
EXTENDS QueryData, Sessions

CONSTANTS
    QueryText, Columns, MaxTable,                   \* Statement
    Texts, Contents, MaxFields, MaxPost,            \* Environment
    Word, LowWord,                                  \* Address
    Piece, MaxLength, ArgumentList,                 \* Templates
    UriPiece, MaxPieces, Color, Config, Row, MaxEntries     \* Site

ASSUME BoundsAssumption ==
    {MaxTable, MaxFields, MaxTime, MaxLength, MaxPieces, MaxEntries} \subseteq Nat
ASSUME EnvironmentAssumption == Texts \cup Contents \subseteq Seq(Nat) /\ MaxPost \in Nat
ASSUME AddressAssumption == Word \cup LowWord \subseteq 0..65535

VARIABLES
    part,
    types, source, query, paramOrder, bindings, held, table, pending, parameters, pulled, stored,
    given, cursor, before, results, stop, at, outcome,
    meant, params, input, environment, state,
    address, text, assigned, extracted, step,
    template, body_, arguments, result, phase,
    request, disk, object, id_, response, sent, state_

dataVars == vars
statementVars ==
    <<types, source, query, paramOrder, bindings, held, table, pending, parameters, pulled, stored,
      given, cursor, before, results, stop, at, outcome>>
environmentVars == <<meant, params, input, environment, state>>
addressVars == <<address, text, assigned, extracted, step>>
templateVars == <<template, body_, arguments, result, phase>>
siteVars == <<request, disk, object, id_, response, sent, state_>>

Statement == INSTANCE Statement
Environment == INSTANCE Environment
Address == INSTANCE Address
Template == INSTANCE Templates
Site == INSTANCE Site

PartsInit ==
    /\ part \in {"data", "statement", "environment", "address", "sessions", "template", "site"}
    /\ Init /\ SessionsInit /\ Statement!Init /\ Environment!Init /\ Address!Init
    /\ Template!Init /\ Site!Init

-----------------------------------------------------------------------------
(* A step of one part leaves the others alone. *)

OnlyData ==
    /\ part = "data"
    /\ UNCHANGED <<part, statementVars, environmentVars, addressVars, sessionsVars, templateVars, siteVars>>

OnlyStatement ==
    /\ part = "statement"
    /\ UNCHANGED <<part, dataVars, environmentVars, addressVars, sessionsVars, templateVars, siteVars>>

OnlyEnvironment ==
    /\ part = "environment"
    /\ UNCHANGED <<part, dataVars, statementVars, addressVars, sessionsVars, templateVars, siteVars>>

OnlyAddress ==
    /\ part = "address"
    /\ UNCHANGED <<part, dataVars, statementVars, environmentVars, sessionsVars, templateVars, siteVars>>

OnlySessions ==
    /\ part = "sessions"
    /\ UNCHANGED <<part, dataVars, statementVars, environmentVars, addressVars, templateVars, siteVars>>

OnlyTemplate ==
    /\ part = "template"
    /\ UNCHANGED <<part, dataVars, statementVars, environmentVars, addressVars, sessionsVars, siteVars>>

OnlySite ==
    /\ part = "site"
    /\ UNCHANGED <<part, dataVars, statementVars, environmentVars, addressVars, sessionsVars, templateVars>>

DataStep == OnlyData /\ Next
StatementStep == OnlyStatement /\ Statement!Next
EnvironmentStep == OnlyEnvironment /\ Environment!Next
AddressStep == OnlyAddress /\ Address!Next
SessionsStep == OnlySessions /\ SessionsNext
TemplateStep == OnlyTemplate /\ Template!Next
SiteStep == OnlySite /\ Site!Next

PartsNext ==
    \/ DataStep \/ StatementStep \/ EnvironmentStep \/ AddressStep \/ SessionsStep
    \/ TemplateStep \/ SiteStep

partsVars == <<part, dataVars, statementVars, environmentVars, addressVars, sessionsVars, templateVars, siteVars>>
PartsSpec == PartsInit /\ [][PartsNext]_partsVars

-----------------------------------------------------------------------------
(* Properties: those of the parts, which say what they mean, and those of    *)
(* QueryData and Sessions.                                                  *)

\* Rows and parameters come back as they were stored (Statement).
RowsComeBack == Statement!RowsComeBack

\* The fields a client sent are those a page sees (Environment).
FieldsComeBack == Environment!FieldsComeBack

\* An address is read as the one that was printed (Address).
AddressesComeBack == Address!AddressesComeBack

\* A template yields what was written, in its order (Templates).
YieldsAsWritten == Template!YieldsAsWritten

\* A link is answered by the page it is for (Site).
AnswersWhole == Site!AnswersWhole
=============================================================================
