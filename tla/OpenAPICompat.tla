--------------------------- MODULE OpenAPICompat ----------------------------
(***************************************************************************)
(* The gate that compares an edited OpenAPI document with its baseline,    *)
(* and what it is for: whoever was written against an earlier document is  *)
(* still served.  A document is edited, and becomes the next baseline when *)
(* the comparison finds no breaking change.                                *)
(*                                                                         *)
(* A document is one operation: its parameter, its request body, its       *)
(* response and who may call it.  Schemas are two levels deep, an object   *)
(* or a list of scalars.  What a schema means is not in the code: a value  *)
(* is checked against each keyword separately, and a keyword that does not *)
(* concern the type of a value lets it pass.                               *)
(***************************************************************************)
EXTENDS Naturals, FiniteSets, SequencesExt

CONSTANTS MaxContractEdits,   \* bound: edits of the document
          MaxReleases         \* bound: baselines

ASSUME ContractBounds == {MaxContractEdits, MaxReleases} \subseteq Nat

VARIABLES
  contract,    \* the document in the working tree, and how often it was edited
  baselines    \* the documents that were released, oldest first

contractVars == <<contract, baselines>>

Absent == [absent |-> TRUE]

(***************************************************************************)
(* Schemas                                                                 *)
(***************************************************************************)
Scalars == {"null", "number", "s0", "s1", "s2"}
TypeOf(v) == CASE v = "null" -> "null" [] v = "number" -> "number" [] OTHER -> "string"
LengthOf == [s0 |-> 0, s1 |-> 1, s2 |-> 2]
Unbounded == 9

TypeSets == {{}, {"string"}, {"number", "string"}}
Enums == {Scalars, {"s1"}, {"s1", "s2"}}      \* Scalars: the keyword is missing
Formats == {"none", "uuid"}
Scalar == [types : TypeSets, nullable : BOOLEAN, enum : Enums, minLength : {0, 1}, maxLength : {1, Unbounded}, format : Formats]
AnyString == [types |-> {"string"}, nullable |-> FALSE, enum |-> Scalars, minLength |-> 0, maxLength |-> Unbounded, format |-> "none"]

\* What a scalar schema accepts.
Valid(s, v) ==
    /\ s.types = {} \/ TypeOf(v) \in s.types \/ (s.nullable /\ v = "null")
    /\ v \in s.enum
    /\ v \in DOMAIN LengthOf => LengthOf[v] \in s.minLength..s.maxLength
    /\ s.format = "uuid" => v \in {"null", "number", "s2"}

Names == {"a", "b"}
Objects == UNION {[d -> {"null", "number", "s0", "s1", "s2"}] : d \in SUBSET Names}
ValidObject(s, o) ==
    /\ s.required \subseteq DOMAIN o
    /\ \A n \in DOMAIN o : IF n \in DOMAIN s.properties THEN Valid(s.properties[n], o[n]) ELSE s.additional

\* Lists of at most one element stand for lists.
Lists == {<<>>} \cup {<<v>> : v \in Scalars}
ValidList(s, l) == s.items = Absent \/ \A i \in DOMAIN l : Valid(s.items, l[i])

(***************************************************************************)
(* The comparison                                                          *)
(***************************************************************************)
TypesCompatible(base, cur, direction) ==
    IF direction = "request"
    THEN IF base = {} THEN cur = {} ELSE cur = {} \/ base \subseteq cur
    ELSE base = {} \/ (cur # {} /\ cur \subseteq base)

NullableCompatible(base, cur, direction) ==
    IF direction = "request" THEN base => cur ELSE cur => base

\* Fault: the values of the two lists are compared the same way in both directions.
EnumSubset(base, cur, direction) == base \subseteq cur

EnumCompatible(base, cur, direction) ==
    IF direction = "request" THEN cur = Scalars \/ (base # Scalars /\ base \subseteq cur)
                             ELSE base = Scalars \/ (cur # Scalars /\ cur \subseteq base)

NumericCompatible(base, cur, direction) ==
    IF direction = "request" THEN cur.minLength <= base.minLength /\ cur.maxLength >= base.maxLength
                             ELSE cur.minLength >= base.minLength /\ cur.maxLength <= base.maxLength

ScalarCompatible(base, cur, direction) ==
    /\ TypesCompatible(base.types, cur.types, direction)
    /\ NullableCompatible(base.nullable, cur.nullable, direction)
    /\ EnumCompatible(base.enum, cur.enum, direction)
    /\ base.format = cur.format
    /\ NumericCompatible(base, cur, direction)

RequiredCompatible(base, cur, direction) ==
    IF direction = "request" THEN cur \subseteq base ELSE base \subseteq cur

PropertiesCompatible(base, cur, direction) ==
    \A n \in DOMAIN base : n \in DOMAIN cur /\ ScalarCompatible(base[n], cur[n], direction)

AdditionalCompatible(base, cur, direction) ==
    IF direction = "request" THEN base => cur ELSE cur => base

ItemsCompatible(base, cur, direction) ==
    /\ base = Absent /\ direction = "request" => cur = Absent
    /\ cur = Absent /\ direction = "response" => base = Absent
    /\ base # Absent /\ cur # Absent => ScalarCompatible(base, cur, direction)

SchemaCompatible(base, cur, direction) ==
    /\ RequiredCompatible(base.required, cur.required, direction)
    /\ PropertiesCompatible(base.properties, cur.properties, direction)
    /\ AdditionalCompatible(base.additional, cur.additional, direction)
    /\ ItemsCompatible(base.items, cur.items, direction)

\* A content is a function from media types to schemas.
ContentCompatible(base, cur, direction) ==
    /\ \A t \in DOMAIN base : t \in DOMAIN cur /\ SchemaCompatible(base[t], cur[t], direction)
    /\ direction = "response" => DOMAIN cur \subseteq DOMAIN base

\* A parameter that is missing from the document is Absent.
ParameterCompatible(base, cur) ==
    IF base = Absent THEN cur = Absent \/ ~cur.required
    ELSE /\ cur # Absent
         /\ cur.required => base.required
         /\ base.style = cur.style
         /\ ScalarCompatible(base.schema, cur.schema, "request")

RequestBodyCompatible(base, cur) ==
    IF base = Absent THEN cur = Absent \/ ~cur.required
    ELSE /\ cur # Absent
         /\ cur.required => base.required
         /\ ContentCompatible(base.content, cur.content, "request")

\* Responses: a function from the status to a content.
ResponsesCompatible(base, cur) ==
    \A status \in DOMAIN base : status \in DOMAIN cur /\ ContentCompatible(base[status], cur[status], "response")

\* Alternatives, each a set of scopes that it requires; none: anyone may call.
SecurityAlternativeAllows(base, cur) == cur \subseteq base
SecurityWasTightened(base, cur) ==
    cur # {} /\ (base = {} \/ \E b \in base : ~\E c \in cur : SecurityAlternativeAllows(b, c))

FindOpenAPIBreakingChanges(base, cur) ==
    {part \in {"security", "parameter", "body", "responses"} :
        CASE part = "security" -> SecurityWasTightened(base.security, cur.security)
          [] part = "parameter" -> ~ParameterCompatible(base.parameter, cur.parameter)
          [] part = "body" -> ~RequestBodyCompatible(base.body, cur.body)
          [] part = "responses" -> ~ResponsesCompatible(base.responses, cur.responses)}

(***************************************************************************)
(* A document's life                                                       *)
(***************************************************************************)
Document == [
    security |-> {{"read"}},
    parameter |-> [required |-> FALSE, style |-> "form", schema |-> AnyString],
    body |-> [required |-> FALSE,
              content |-> [json |-> [required |-> {}, properties |-> [a |-> AnyString], additional |-> FALSE, items |-> Absent]]],
    responses |-> [ok |-> [json |-> [required |-> {"a"}, properties |-> [a |-> AnyString], additional |-> FALSE, items |-> AnyString]]]]

\* One keyword of a scalar schema is written anew.
ScalarEdits(s) == {t \in Scalar : Cardinality({k \in DOMAIN s : s[k] # t[k]}) = 1}

\* One keyword of an object or list schema; a property is added, edited or
\* removed.  A schema requires only properties that it declares.
SchemaEdits(s) ==
    {[s EXCEPT !.required = r] : r \in SUBSET DOMAIN s.properties}
    \cup {[s EXCEPT !.properties = p, !.required = @ \cap DOMAIN p] :
            p \in {[n \in DOMAIN s.properties \cup {"b"} |-> IF n = "b" THEN AnyString ELSE s.properties[n]],
                   [n \in DOMAIN s.properties \ {"b"} |-> s.properties[n]]}}
    \cup (UNION {{[s EXCEPT !.properties[n] = t] : t \in ScalarEdits(s.properties[n])} : n \in DOMAIN s.properties})
    \cup {[s EXCEPT !.additional = ~s.additional]}
    \cup {[s EXCEPT !.items = t] : t \in {Absent, AnyString} \cup (IF s.items = Absent THEN {} ELSE ScalarEdits(s.items))}

\* One schema, or the set of media types.
ContentEdits(c) ==
    (UNION {{[c EXCEPT ![t] = s] : s \in SchemaEdits(c[t])} : t \in DOMAIN c})
    \cup {[t \in DOMAIN c \cup {"text"} |-> IF t = "text" THEN Document.body.content.json ELSE c[t]],
          [t \in DOMAIN c \ {"text"} |-> c[t]]}

ParameterEdits(p) ==
    IF p = Absent THEN {Document.parameter}
    ELSE {Absent} \cup {[p EXCEPT !.required = ~p.required]} \cup {[p EXCEPT !.style = x] : x \in {"form", "simple"}}
         \cup {[p EXCEPT !.schema = s] : s \in ScalarEdits(p.schema)}

BodyEdits(b) ==
    IF b = Absent THEN {Document.body}
    ELSE {Absent} \cup {[b EXCEPT !.required = ~b.required]} \cup {[b EXCEPT !.content = c] : c \in ContentEdits(b.content)}

ResponseEdits(r) ==
    (UNION {{[r EXCEPT ![status] = c] : c \in ContentEdits(r[status])} : status \in DOMAIN r})
    \cup {[status \in DOMAIN r \cup {"error"} |-> IF status = "error" THEN Document.responses.ok ELSE r[status]],
          [status \in DOMAIN r \ {"error"} |-> r[status]]}

DocumentEdits(d) ==
    {[d EXCEPT !.security = x] : x \in {{}, {{"read"}}, {{"read", "write"}}, {{"read"}, {"write"}}}}
    \cup {[d EXCEPT !.parameter = x] : x \in ParameterEdits(d.parameter)}
    \cup {[d EXCEPT !.body = x] : x \in BodyEdits(d.body)}
    \cup {[d EXCEPT !.responses = x] : x \in ResponseEdits(d.responses)}

ContractInit ==
    /\ contract = [document |-> Document, edits |-> 0]
    /\ baselines = <<Document>>

EditDocument ==
    /\ contract.edits < MaxContractEdits
    /\ \E d \in DocumentEdits(contract.document) \ {contract.document} :
          contract' = [document |-> d, edits |-> contract.edits + 1]
    /\ UNCHANGED baselines

\* The commit is accepted when the gate is quiet; its document is the next baseline.
ReleaseDocument ==
    /\ Len(baselines) < MaxReleases
    /\ contract.document # Last(baselines)
    /\ FindOpenAPIBreakingChanges(Last(baselines), contract.document) = {}
    /\ baselines' = Append(baselines, contract.document)
    /\ UNCHANGED contract

ContractNext == EditDocument \/ ReleaseDocument

ContractSpec == ContractInit /\ [][ContractNext]_contractVars

(***************************************************************************)
(* What a client of the document relies on                                 *)
(***************************************************************************)
\* The properties of an object that a schema declares: a client sends and reads no others.
Declared(s, o) == [n \in DOMAIN o \cap DOMAIN s.properties |-> o[n]]
DeclaredObjects(s) == {o \in Objects : DOMAIN o \subseteq DOMAIN s.properties /\ ValidObject(s, o)}

AcceptsSchema(old, new) ==
    /\ DeclaredObjects(old) \subseteq DeclaredObjects(new)
    /\ \A l \in Lists : ValidList(old, l) => ValidList(new, l)

AcceptsParameter(old, new) ==
    /\ old = Absent \/ ~old.required => new = Absent \/ ~new.required
    /\ old # Absent => /\ new # Absent /\ new.style = old.style
                       /\ \A v \in Scalars : Valid(old.schema, v) => Valid(new.schema, v)

AcceptsBody(old, new) ==
    /\ old = Absent \/ ~old.required => new = Absent \/ ~new.required
    /\ old # Absent => /\ new # Absent
                       /\ \A t \in DOMAIN old.content :
                             t \in DOMAIN new.content /\ AcceptsSchema(old.content[t], new.content[t])

AcceptsCredentials(old, new) == new = {} \/ (old # {} /\ \A c \in old : \E n \in new : n \subseteq c)

\* A response of the new document, for a status the old one knows, read by an old client.
ReadsResponse(old, new) ==
    \A status \in DOMAIN old :
       /\ status \in DOMAIN new /\ DOMAIN new[status] = DOMAIN old[status]
       /\ \A t \in DOMAIN old[status] : LET was == old[status][t]  is == new[status][t] IN
             /\ \A o \in DeclaredObjects(is) : ValidObject(was, Declared(was, o))
             /\ \A l \in Lists : ValidList(is, l) => ValidList(was, l)

(***************************************************************************)
(* A client written against any released document is served by every later *)
(* one, however many releases lie between: its parameter, its body and its *)
(* credentials are accepted, and what it reads of a response is as its     *)
(* document says.  The gate only ever compares neighbours.                 *)
(***************************************************************************)
ReleasedContractsServeOldClients ==
    \A i \in DOMAIN baselines : LET old == baselines[i]  new == Last(baselines) IN
       /\ AcceptsCredentials(old.security, new.security)
       /\ AcceptsParameter(old.parameter, new.parameter)
       /\ AcceptsBody(old.body, new.body)
       /\ ReadsResponse(old.responses, new.responses)
=============================================================================
