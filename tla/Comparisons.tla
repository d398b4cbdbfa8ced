------------------------------ MODULE Comparisons ------------------------------
(***************************************************************************)
(* What evidence.compare and evidence.assert say of the contents of        *)
(* artifacts.  A content is a text, a JSON object, a JSON list or nothing. *)
(* A text has a body, a part that changes with every collection (counters, *)
(* uptimes; "" when there is none), and may have blanks around it; "long"  *)
(* is over the limit for masking.  JSON scalars are strings here.          *)
(***************************************************************************)
EXTENDS Naturals, Sequences, FiniteSets

Null == "null"
Nested == "nested"  \* an element of a list that is itself a list or an object

Nothing == [kind |-> "nothing"]
Text(body, volatile, blanks, long) ==
  [kind |-> "text", body |-> body, volatile |-> volatile, blanks |-> blanks, long |-> long]
Object(map) == [kind |-> "object", map |-> map]
List(items) == [kind |-> "list", items |-> items]

IsText(a) == a = Text(a.body, a.volatile, a.blanks, a.long)
IsContent(a) ==
  \/ a = Nothing
  \/ a.kind = "text" /\ IsText(a)
  \/ a.kind = "object" /\ a = Object(a.map)
  \/ a.kind = "list" /\ a = List(a.items)

Both(a, b, kind) == a.kind = kind /\ b.kind = kind
Elements(a) == {a.items[i] : i \in DOMAIN a.items}

-----------------------------------------------------------------------------
(* evidence.compare *)

Modes == {"exact", "changed", "subset", "superset", "json_diff"}

\* Of an object, dict.get of Python: a key that is missing has the value null.
Get(a, key) == IF key \in DOMAIN a.map THEN a.map[key] ELSE Null

RemoveFields(a, ignored) == Object([key \in DOMAIN a.map \ ignored |-> a.map[key]])
MaskIgnored(a) == IF a.long THEN a ELSE Text(a.body, "", a.blanks, a.long)

\* The patterns that are used of a list: the first ones, those that compile.
Compiled(patterns, most) ==
  {patterns[i] : i \in {j \in DOMAIN patterns : j <= most /\ patterns[j] # "invalid"}}

\* What is left of one side before it is compared with the other.
Prepared(a, b, ignored, compiled) ==
  IF Both(a, b, "object") THEN RemoveFields(a, ignored)
  ELSE IF Both(a, b, "text") /\ "volatile" \in compiled THEN MaskIgnored(a)
  ELSE a

\* The differences of json_diff: blanks around a text are none.
NoDifferences(a, b) ==
  IF Both(a, b, "text") THEN [a EXCEPT !.blanks = b.blanks] = b ELSE a = b

HasAll(post, pre) == \A key \in DOMAIN pre.map : Get(post, key) = pre.map[key]

Subset(pre, post) ==
  IF Both(pre, post, "object") THEN HasAll(post, pre)
  ELSE IF Both(pre, post, "list") THEN Elements(pre) \subseteq Elements(post)
  ELSE pre = post

Superset(pre, post) ==
  \/ /\ Both(pre, post, "object")
     /\ HasAll(post, pre) /\ Cardinality(DOMAIN post.map) > Cardinality(DOMAIN pre.map)
  \/ /\ Both(pre, post, "list")
     /\ Elements(pre) \subseteq Elements(post) /\ Cardinality(Elements(post)) > Cardinality(Elements(pre))

\* set() of a list with a nested element raises.
Raises(mode, pre, post) ==
  mode \in {"subset", "superset"} /\ Both(pre, post, "list") /\ Nested \in Elements(pre) \cup Elements(post)

Passes(mode, pre, post) ==
  \/ mode = "exact" /\ pre = post
  \/ mode = "changed" /\ pre # post
  \/ mode = "subset" /\ Subset(pre, post)
  \/ mode = "superset" /\ Superset(pre, post)
  \/ mode = "json_diff" /\ NoDifferences(pre, post)

-----------------------------------------------------------------------------
(* evidence.assert *)

Operators == {"contains", "matches", "eq", "ne"}

\* A word occurs in a text, or in an object or a list written out as JSON.
Mentions(a, word) ==
  \/ a.kind = "text" /\ word = a.body
  \/ a.kind = "object" /\ \E key \in DOMAIN a.map : word \in {key, a.map[key]}
  \/ a.kind = "list" /\ word \in Elements(a)

\* Only a bare text can equal what is expected.
Equals(a, word) == a = Text(word, "", FALSE, FALSE)

Holds(operator, a, word) ==
  \/ operator \in {"contains", "matches"} /\ Mentions(a, word)
  \/ operator = "eq" /\ Equals(a, word)
  \/ operator = "ne" /\ ~Equals(a, word)

=============================================================================
