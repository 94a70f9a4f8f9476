-------------------------------- MODULE JoinKeys --------------------------------
(***************************************************************************)
(* How the join key of an event is computed (Handler.extractKey and the    *)
(* package keys).  A payload is the decoded JSON object: a function from   *)
(* its field names to values, each with its JSON type.  A raw key is the   *)
(* text of a single field, or the object of the composite fields, whose    *)
(* serialization sorts the names: it is the function itself.               *)
(***************************************************************************)
EXTENDS Functions, Sequences

CONSTANT Sha256   \* per raw key: its hash

\* Two raw keys have the same SHA-256 hash only if they are equal.
ASSUME HashInjective == \A a, b \in DOMAIN Sha256 : Sha256[a] = Sha256[b] => a = b

NoFields == [f \in {} |-> ""]

Raw(text, fields) == [text |-> text, fields |-> fields]

\* The text of a string field; a missing field or another JSON type is "".
StringField(payload, f) ==
    IF f \in DOMAIN payload /\ payload[f].type = "string" THEN payload[f].text ELSE ""

\* Bug form: the values count, their names do not.
KeyFromValues(fields, payload) ==
    Raw("", [f \in {"values"} |-> {payload[g] : g \in Range(fields) \cap DOMAIN payload}])

\* KeyFromFields: a field that the payload does not have is left out.
KeyFromFields(fields, payload) ==
    Raw("", Restrict(payload, Range(fields) \cap DOMAIN payload))

\* extractKey: key.field wins over key.fields.
ExtractRaw(key, payload) ==
    IF key.field # "" THEN Raw(StringField(payload, key.field), NoFields)
                      ELSE KeyFromFields(key.fields, payload)

HashRaw(raw) == Sha256[raw]

ExtractKey(key, payload) == HashRaw(ExtractRaw(key, payload))
=============================================================================
