----------------------------- MODULE Sanitizing -----------------------------
(***************************************************************************)
(* SensitiveDataUtil: what LogsService and TelemetryService make of the    *)
(* message and metadata of a log before they store it.  Pure functions.    *)
(*                                                                         *)
(* A text is clean, carries something shaped like a credential, or is the  *)
(* mark that replaces one.  A key is its words and what separates them.    *)
(* Numbers, booleans and null are all plain.                               *)
(*                                                                         *)
(* A definition headed "Faulty" is a plausible bug in the definition below *)
(* it: nothing uses it, and a property is checked to fail with it.         *)
(***************************************************************************)
EXTENDS Integers, Sequences, SequencesExt

CONSTANT MaxDepth  \* MAX_DEPTH

Plain == [kind |-> "plain"]
Text(text) == [kind |-> "text", text |-> text]
Array(items) == [kind |-> "array", items |-> items]
Object(fields) == [kind |-> "object", fields |-> fields]
Undefined == [kind |-> "undefined"]

Key(words, separator) == [words |-> words, separator |-> separator]

Redacted == Text("redacted")

\* The pattern has most keys with any separator or none, and some with a
\* hyphen only.
Listed(key) ==
  \/ key.words = "access token"
  \/ key.words = "set cookie" /\ key.separator = "-"

\* Hyphens and spaces become underscores first, so a key the pattern has with
\* a hyphen only is not recognised, however it is written.
IsSensitiveKey(key) == Listed(Key(key.words, "_"))

SanitizeString(value) == IF value.text = "credential" THEN Redacted ELSE value

RECURSIVE SanitizeValue(_, _)

SanitizeObject(input, depth) ==
  CASE input = Undefined -> Undefined
    [] depth > MaxDepth  -> Object([key \in {Key("redacted", "_")} |-> Redacted])
    [] OTHER -> Object([key \in DOMAIN input.fields |->
                  IF IsSensitiveKey(key) THEN Redacted
                  ELSE SanitizeValue(input.fields[key], depth)])


SanitizeValue(value, depth) ==
  CASE depth > MaxDepth      -> Redacted
    [] value.kind = "text"   -> SanitizeString(value)
    [] value.kind = "array"  ->
         Array([i \in DOMAIN value.items |-> SanitizeValue(value.items[i], depth + 1)])
    [] value.kind = "object" -> SanitizeObject(value, depth + 1)
    [] OTHER                 -> value

SanitizeLogPayload(payload) ==
  [message  |-> SanitizeString(payload.message),
   metadata |-> SanitizeObject(payload.metadata, 0)]

-----------------------------------------------------------------------------
\* Properties

Inside(value) ==
  CASE value.kind = "array"  -> Range(value.items)
    [] value.kind = "object" -> {value.fields[key] : key \in DOMAIN value.fields}
    [] OTHER                 -> {}

\* Everything a value consists of, itself included.
RECURSIVE Parts(_)
Parts(value) == {value} \cup UNION {Parts(part) : part \in Inside(value)}

\* How deep the containers in a value nest; an empty array is none.
RECURSIVE Nesting(_)
Nesting(value) ==
  CASE value.kind = "object" -> 1 + Max({Nesting(part) : part \in Inside(value)} \cup {0})
    [] value.kind = "array" /\ value.items # <<>> ->
         1 + Max({Nesting(part) : part \in Inside(value)})
    [] OTHER -> 0

Credential(value) ==
  \/ value = Text("credential")
  \/ /\ value.kind = "object"
     /\ \E key \in DOMAIN value.fields :
          IsSensitiveKey(key) /\ value.fields[key] # Redacted

\* Whatever a log carries, and however deep: what is stored of it holds no
\* text like a credential and no value under a key that is recognised; it
\* nests no deeper than one level below the limit; sanitising it again, as a
\* resent log is, changes nothing; and a log within the limit that had
\* nothing to hide is stored as it was sent.
SanitizedSound(payload) ==
  LET result == SanitizeLogPayload(payload)
      clean(p) == \A part \in Parts(p.message) \cup Parts(p.metadata) :
                    ~Credential(part)
      levels(p) == Nesting(p.metadata) - 1
  IN  /\ clean(result)
      /\ levels(result) <= MaxDepth + 1
      /\ SanitizeLogPayload(result) = result
      /\ clean(payload) /\ levels(payload) <= MaxDepth => result = payload
=============================================================================
