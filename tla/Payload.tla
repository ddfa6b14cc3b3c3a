------------------------------- MODULE Payload -------------------------------
(***************************************************************************)
(* From an OTLP record to the row that is stored: the limits on attribute  *)
(* values, redaction, the canonical JSON whose hash is the fingerprint,    *)
(* and the tagged log body.  Values are trees of maps (lists of entries),  *)
(* slices and leaves; an attribute key is a sequence of words and          *)
(* separators, so that its spellings can be told apart.                    *)
(***************************************************************************)
EXTENDS Integers, Sequences, FiniteSets, SequencesExt, TLC

CONSTANTS
  Sessions,   \* sequences of records [signal, place, content] that are exported
  KeyOrder,   \* the attribute keys in string order
  MaxDepth    \* 16 in the code

\* A value is a leaf, a slice of values or a map, a list of entries; the leaf
\* "huge" exceeds 1 MiB.
Leaf(x) == [leaf |-> x]
Slice(s) == [slice |-> s]
Map(s) == [map |-> s]
IsLeaf(v) == DOMAIN v = {"leaf"}
IsSlice(v) == DOMAIN v = {"slice"}
IsMap(v) == DOMAIN v = {"map"}
Entry(k, v) == [key |-> k, value |-> v]

VARIABLES
  waiting,   \* the records that are still to be exported
  submitted, \* the exported records, in order
  accepted,  \* accepted[i]: submitted[i] was not InvalidArgument
  table      \* payload and body of the stored rows; fingerprint = payload

vars == <<waiting, submitted, accepted, table>>

-----------------------------------------------------------------------------
(* Limits.                                                                 *)

RECURSIVE ValidateValue(_, _)

\* Mutant of ValidateMapAtDepth: a map is not a level of its own.
ValidateFlat(m, depth) ==
  \A i \in DOMAIN m : m[i].key # <<"huge">> /\ ValidateValue(m[i].value, depth - 1)

ValidateMapAtDepth(m, depth) ==
  /\ depth <= MaxDepth
  /\ \A i \in DOMAIN m : m[i].key # <<"huge">> /\ ValidateValue(m[i].value, depth)

ValidateValue(v, depth) ==
  /\ depth <= MaxDepth
  /\ CASE IsLeaf(v) -> v.leaf # "huge"
       [] IsSlice(v) -> \A i \in DOMAIN v.slice : ValidateValue(v.slice[i], depth + 1)
       [] IsMap(v) -> ValidateMapAtDepth(v.map, depth + 1)

\* validateMap of each attribute list, validateValue of a log body.
Validate(r) ==
  IF r.place = "body" THEN ValidateValue(r.content, 0)
  ELSE ValidateMapAtDepth(r.content.map, 0)

-----------------------------------------------------------------------------
(* Redaction.                                                              *)

Namespace == {".", "/", ":"}
Joiner == {"-", "_"}

\* Whole names, written together, with "-" or with "_".
Terminals == {<<"authorization">>, <<"proxy", "authorization">>, <<"cookie">>,
  <<"set", "cookie">>, <<"password">>, <<"passwd">>, <<"secret">>, <<"api", "key">>,
  <<"client", "secret">>, <<"token">>, <<"access", "token">>, <<"refresh", "token">>,
  <<"id", "token">>, <<"session", "token">>, <<"csrf", "token">>}

\* Names that also count after a prefix and any separator.
Credentials == {<<"password">>, <<"passwd">>, <<"secret">>, <<"api", "_", "key">>,
  <<"access", "_", "token">>, <<"refresh", "_", "token">>, <<"id", "_", "token">>,
  <<"session", "_", "token">>, <<"csrf", "_", "token">>}

\* The last segment that is not empty, without its joiners.
Terminal(key) ==
  LET words == {i \in DOMAIN key : key[i] \notin Namespace}
      last == CHOOSE i \in words : \A j \in words : j <= i
      first == CHOOSE i \in 1 .. last :
                 /\ \A j \in i .. last : key[j] \notin Namespace
                 /\ i = 1 \/ key[i - 1] \in Namespace
  IN  IF words = {} THEN <<>>
      ELSE SelectSeq(SubSeq(key, first, last), LAMBDA w : w \notin Joiner)

IsSensitiveKey(key) ==
  LET normalized == [i \in DOMAIN key |->
                       IF key[i] \in Namespace \cup Joiner THEN "_" ELSE key[i]]
  IN  \/ Terminal(key) \in Terminals
      \/ \E s \in Credentials : IsSuffix(<<"_">> \o s, normalized)

Redacted == Leaf("[REDACTED]")

RECURSIVE RedactValue(_)

RedactMap(m) ==
  [i \in DOMAIN m |->
     Entry(m[i].key, IF IsSensitiveKey(m[i].key) THEN Redacted
                     ELSE RedactValue(m[i].value))]

\* Mutant of RedactValue: only maps directly inside maps are searched.
RedactDirect(v) == IF IsMap(v) THEN Map(RedactMap(v.map)) ELSE v

RedactValue(v) ==
  CASE IsLeaf(v) -> v
    [] IsSlice(v) -> Slice([i \in DOMAIN v.slice |-> RedactValue(v.slice[i])])
    [] IsMap(v) -> Map(RedactMap(v.map))

\* Mutant of RedactedPlaces: exemplars are forgotten.
NoExemplars == {"resource", "scope", "record", "events", "links", "metric", "body"}

\* What marshalSingleLog, marshalSingleSpan, marshalSingleMetricPoint and
\* redactMetricPoint redact in their copy of the record.
RedactedPlaces ==
  {"resource", "scope", "record", "events", "links", "metric", "exemplars", "body"}

Redact(r) ==
  IF r.place \in RedactedPlaces THEN [r EXCEPT !.content = RedactValue(@)] ELSE r

-----------------------------------------------------------------------------
(* The canonical payload.  JSON is [obj |-> function], [arr |-> sequence]   *)
(* or [str |-> scalar]; the order of an object's fields does not exist, as  *)
(* json.Marshal sorts them.                                                 *)

Obj(f) == [obj |-> f]
Arr(s) == [arr |-> s]
Str(x) == [str |-> x]

\* OTLP JSON, as the pdata marshalers write it.
RECURSIVE MarshalValue(_)

MarshalList(m) ==
  Arr([i \in DOMAIN m |-> Obj("key" :> Str(m[i].key) @@ "value" :> MarshalValue(m[i].value))])

MarshalValue(v) ==
  CASE IsLeaf(v) -> Obj("stringValue" :> Str(v.leaf))
    [] IsSlice(v) ->
         Obj("arrayValue" :> Obj("values" :> Arr([i \in DOMAIN v.slice |-> MarshalValue(v.slice[i])])))
    [] IsMap(v) -> Obj("kvlistValue" :> Obj("values" :> MarshalList(v.map)))

\* The field of the envelope that holds the list.
JsonKey(place) ==
  CASE place = "metric" -> "metadata"
    [] place = "exemplars" -> "filteredAttributes"
    [] OTHER -> "attributes"

Marshal(r) ==
  Obj("signal" :> Str(r.signal) @@
      r.place :> IF r.place = "body" THEN MarshalValue(r.content)
                 ELSE Arr(<<Obj(JsonKey(r.place) :> MarshalList(r.content.map))>>))

\* sort.SliceStable by key: entries with one key keep their order.
SortEntries(s) ==
  FlattenSeq([n \in DOMAIN KeyOrder |->
                SelectSeq(s, LAMBDA e : e.obj["key"].str = KeyOrder[n])])

\* Mutant of IsEntryList: the entries of nested maps keep their order.
IsAttributeList(key, parent) == key \in {"attributes", "filteredAttributes", "metadata"}

\* The lists that are sorted: attribute lists and maps, never arrays.
IsEntryList(key, parent) ==
  \/ key \in {"attributes", "filteredAttributes", "metadata"}
  \/ parent = "kvlistValue" /\ key = "values"

RECURSIVE Canonicalize(_, _)
Canonicalize(j, parent) ==
  CASE DOMAIN j = {"str"} -> j
    [] DOMAIN j = {"arr"} ->
         Arr([i \in DOMAIN j.arr |-> Canonicalize(j.arr[i], parent)])
    [] DOMAIN j = {"obj"} ->
         Obj([k \in DOMAIN j.obj |->
                Canonicalize(IF IsEntryList(k, parent) THEN Arr(SortEntries(j.obj[k].arr))
                             ELSE j.obj[k], k)])

\* marshalSingle*: copy, redact, marshal, canonicalize.
CanonicalPayload(r) == Canonicalize(Marshal(Redact(r)), "")

\* The tagged body of a log.
RECURSIVE TaggedValue(_)
TaggedValue(v) ==
  CASE IsLeaf(v) -> Obj("string" :> Str(v.leaf))
    [] IsSlice(v) -> Obj("array" :> Arr([i \in DOMAIN v.slice |-> TaggedValue(v.slice[i])]))
    [] IsMap(v) ->
         Obj("map" :> Arr([i \in DOMAIN v.map |->
               Obj("key" :> Str(v.map[i].key) @@ "value" :> TaggedValue(v.map[i].value))]))

-----------------------------------------------------------------------------
Init == waiting \in Sessions /\ submitted = <<>> /\ accepted = <<>> /\ table = {}

\* A record reaches Consume*: refused, or stored unless its fingerprint is.
Submit(r) ==
  /\ waiting' = Tail(waiting)
  /\ submitted' = Append(submitted, r)
  /\ accepted' = Append(accepted, Validate(r))
  /\ LET row == [payload |-> CanonicalPayload(r),
                 body |-> IF r.place = "body" THEN TaggedValue(RedactValue(r.content))
                          ELSE Str("")]
     IN  table' = IF Validate(r) /\ \A q \in table : q.payload # row.payload
                  THEN table \cup {row} ELSE table

Next == waiting # <<>> /\ Submit(Head(waiting))

Spec == Init /\ [][Next]_vars

-----------------------------------------------------------------------------
(* References: a value as the set of its leaves, each at the end of a path  *)
(* of indices and keys; an empty map or slice counts as a leaf.             *)

RECURSIVE Leaves(_)
Leaves(v) ==
  LET Below(i, key, w) == {<< <<<<i, key>>>> \o l[1], l[2] >> : l \in Leaves(w)}
  IN  CASE IsLeaf(v) -> {<<<<>>, v.leaf>>}
        [] IsSlice(v) -> IF v.slice = <<>> THEN {<<<<>>, "slice">>}
                         ELSE UNION {Below(i, <<>>, v.slice[i]) : i \in DOMAIN v.slice}
        [] IsMap(v) -> IF v.map = <<>> THEN {<<<<>>, "map">>}
                       ELSE UNION {Below(i, v.map[i].key, v.map[i].value) : i \in DOMAIN v.map}

\* A tagged body read back.
RECURSIVE Untagged(_)
Untagged(j) ==
  CASE DOMAIN j.obj = {"string"} -> Leaf(j.obj["string"].str)
    [] DOMAIN j.obj = {"array"} ->
         Slice([i \in DOMAIN j.obj["array"].arr |-> Untagged(j.obj["array"].arr[i])])
    [] DOMAIN j.obj = {"map"} ->
         Map([i \in DOMAIN j.obj["map"].arr |->
                Entry(j.obj["map"].arr[i].obj["key"].str,
                      Untagged(j.obj["map"].arr[i].obj["value"]))])

\* README: a credential name, alone or after a namespace, or one of the prefixed
\* names after any separator.
IsSecret(key) ==
  \E i \in DOMAIN key :
    LET name == SubSeq(key, i, Len(key))
    IN  \/ /\ i = 1 \/ key[i - 1] \in Namespace
           /\ SelectSeq(name, LAMBDA w : w \notin Joiner) \in Terminals
        \/ /\ i > 1 /\ key[i - 1] \in Namespace \cup Joiner
           /\ [j \in DOMAIN name |-> IF name[j] \in Namespace \cup Joiner THEN "_" ELSE name[j]]
                \in Credentials

\* A leaf after redaction: cut at the first sensitive key above it.
Cut(l) ==
  LET secret == {n \in DOMAIN l[1] : IsSecret(l[1][n][2])}
      n == CHOOSE n \in secret : \A m \in secret : n <= m
  IN  IF secret = {} THEN l ELSE <<SubSeq(l[1], 1, n), "[REDACTED]">>

\* Two values are the same up to the order of different keys of a map.
RECURSIVE Same(_, _)
Same(v, w) ==
  /\ DOMAIN v = DOMAIN w
  /\ CASE IsLeaf(v) -> v = w
       [] IsSlice(v) -> /\ Len(v.slice) = Len(w.slice)
                        /\ \A i \in DOMAIN v.slice : Same(v.slice[i], w.slice[i])
       [] IsMap(v) ->
            \A k \in ToSet(KeyOrder) :
              LET a == SelectSeq(v.map, LAMBDA e : e.key = k)
                  b == SelectSeq(w.map, LAMBDA e : e.key = k)
              IN  Len(a) = Len(b) /\ \A i \in DOMAIN a : Same(a[i].value, b[i].value)

-----------------------------------------------------------------------------
(* Properties.                                                             *)

Stored == {submitted[i] : i \in {n \in DOMAIN submitted : accepted[n]}}

\* validateValue, validateMapAtDepth: accepted are exactly the records whose
\* leaves lie at most MaxDepth levels deep, an empty map counting as a level.
LimitsExact ==
  \A i \in DOMAIN submitted :
    LET r == submitted[i]
        Level(l) == Len(l[1]) + (IF l[2] = "map" THEN 1 ELSE 0)
                      - (IF r.place = "body" THEN 0 ELSE 1)
    IN  accepted[i] <=> \A l \in Leaves(r.content) :
          /\ l[2] # "huge" /\ \A n \in DOMAIN l[1] : l[1][n][2] # <<"huge">>
          /\ Level(l) <= MaxDepth

\* redactMap, redactValue, taggedValue: in whatever map, slice, place or body a
\* sensitive key occurs, nothing below it is stored; everything else is.
SecretsCut ==
  /\ \A r \in Stored : Leaves(Redact(r).content) = {Cut(l) : l \in Leaves(r.content)}
  /\ \A row \in table : row.body # Str("") =>
       \E r \in Stored : /\ r.place = "body" /\ row.payload = CanonicalPayload(r)
                         /\ Leaves(Untagged(row.body)) = {Cut(l) : l \in Leaves(r.content)}

\* canonicalPayload: two records share a row exactly if, redacted, they are the
\* same up to the order of attributes; array order and repeated keys count.
OneRowPerRecord ==
  \A r, q \in Stored :
    CanonicalPayload(r) = CanonicalPayload(q) <=>
      /\ r.signal = q.signal /\ r.place = q.place
      /\ Same(Redact(r).content, Redact(q).content)
=============================================================================
