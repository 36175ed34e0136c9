------------------------------ MODULE PyTypes ------------------------------
(***************************************************************************)
(* pytypes.cpp: the text that stands for a local variable in the report.   *)
(* A target t has a heap, a sequence of objects; an object's address is    *)
(* its index.  A text is a tree of what it says with the number of its     *)
(* characters, since what is left of MAX_LOCAL_STR_SIZE decides what is    *)
(* abbreviated.                                                            *)
(***************************************************************************)
EXTENDS Integers, FiniteSets, SequencesExt

CONSTANTS
  Shift,     \* the bits of a digit of an int, 30 in the code
  LongBits   \* the bits of a long long, 64 in the code

ASSUME PyTypesAssumption ==
  /\ Shift \in Nat \ {0}
  /\ LongBits \in 2 * Shift + 1 .. 3 * Shift

MAX_LOCAL_STR_SIZE == 80
Null == 0
MaxLong == 2 ^ (LongBits - 1) - 1

\* An object of the target.  type: the flag of its base type, and its name, which
\* can be read or only be guessed; readable: what follows the header can be read;
\* size: the characters of a string, or of the name of another class; narrow: they
\* take one byte each and are ASCII; items: the elements of a container, the keys
\* with their values for a dict; split: the values of a split table, or <<>>;
\* entries_at: where the entries of a dict start, in bytes behind dk_indices.
Object ==
  [type |-> [base |-> "none", name |-> "object", named |-> TRUE], header |-> TRUE,
   readable |-> TRUE, size |-> 0, narrow |-> TRUE, negative |-> FALSE, digits |-> <<>>,
   items |-> <<>>, split |-> <<>>, dk_size |-> 8, entries_at |-> 8]

-----------------------------------------------------------------------------
(* Texts.                                                                  *)

Text(form, of, size) == [form |-> form, of |-> of, parts |-> <<>>, size |-> size]

Ellipsis == Text("ellipsis", Null, 3)

SumOfSizes(texts) == FoldLeft(LAMBDA n, x : n + x.size, 0, texts)

\* Texts in brackets, with ", " between them.
Enclose(form, a, texts) ==
  [form |-> form, of |-> a, parts |-> texts,
   size |-> 2 + SumOfSizes(texts) + (IF texts = <<>> THEN 0 ELSE 2 * (Len(texts) - 1))]

Pair(key, value) ==
  [form |-> "pair", of |-> Null, parts |-> <<key, value>>, size |-> key.size + 2 + value.size]

\* Unsigned arithmetic: the difference is positive unless it is zero.
LimitOutput(x, max_size) == IF max_size = x.size THEN Ellipsis ELSE x

\* A string is cut to its room, the dots included.
Truncate(x, max_size) ==
  IF max_size < x.size THEN [x EXCEPT !.form = "cut", !.size = max_size] ELSE x

\* "<int object at 0x...>" and "<int at 0x...>".
AddressSize == 14
Failed(name_size, a) == Text("failed", a, name_size + 13 + AddressSize)
Generic(name_size, a, max_size) ==
  LimitOutput(Text("generic", a, name_size + 6 + AddressSize), max_size)

-----------------------------------------------------------------------------
(* LongObject.                                                             *)

\* How CPython stores the size and the sign of an int.
ObSize(t, o) ==
  LET n == Len(o.digits)
  IN IF t.minor >= 12 THEN 8 * n + (IF n = 0 THEN 1 ELSE IF o.negative THEN 2 ELSE 0)
     ELSE IF o.negative THEN -n ELSE n

IsNegative(t, ob_size) == IF t.minor >= 12 THEN ob_size % 4 = 2 ELSE ob_size < 0
AbsSize(t, ob_size) ==
  IF t.minor >= 12 THEN ob_size \div 8 ELSE IF ob_size < 0 THEN -ob_size ELSE ob_size

\* Shifting by the width of the word or more is undefined; the processors take the
\* count modulo the width.
OneShifted(n) == 2 ^ (n % LongBits)

\* d_value and d_overflowed.
LongObject(t, o) ==
  LET ob_size == ObSize(t, o)
      Add(r, i) ==
        LET factor == o.digits[i] * OneShifted(Shift * (i - 1))
        IN IF r.overflowed \/ factor > MaxLong \/ r.value + factor > MaxLong
             THEN [r EXCEPT !.overflowed = TRUE]
             ELSE [r EXCEPT !.value = @ + factor]
      sum == FoldLeft(Add, [value |-> 0, overflowed |-> FALSE],
                      [i \in 1 .. AbsSize(t, ob_size) |-> i])
  IN IF IsNegative(t, ob_size) THEN [sum EXCEPT !.value = -1 * @] ELSE sum

\* The characters of a number.
DecimalSize(n) ==
  IF n < 0 THEN 1 + Cardinality({k \in 0 .. 9 : k = 0 \/ 10 ^ k <= -n})
  ELSE Cardinality({k \in 0 .. 9 : k = 0 \/ 10 ^ k <= n})

LongText(t, o, is_bool, max_size) ==
  LET long == LongObject(t, o)
  IN IF is_bool
       THEN IF long.value > 0 THEN Text("bool", 1, 4) ELSE Text("bool", 0, 5)
     ELSE IF long.overflowed THEN Text("big_int", Null, 20)
     ELSE LimitOutput(Text("int", long.value, DecimalSize(long.value)), max_size)

-----------------------------------------------------------------------------
(* DictObject.                                                             *)

\* Mutant of EntriesOffset: a table of 256 slots is taken for one of one-byte indices.
EntriesOffsetTooNear(dk_size) ==
  dk_size * (IF dk_size <= 256 THEN 1 ELSE IF dk_size <= 65535 THEN 2 ELSE 4)

\* The width of the indices depends on their number.
EntriesOffset(dk_size) ==
  dk_size * (IF dk_size <= 255 THEN 1 ELSE IF dk_size <= 65535 THEN 2 ELSE 4)

\* The keys that are there, with the values of the entries or of the split table.
DictItems(o) ==
  LET valid == SelectSeq(o.items, LAMBDA e : e[1] # Null)
  IN IF o.split = <<>> THEN valid
     ELSE [i \in DOMAIN valid |-> <<valid[i][1], o.split[i]>>]

-----------------------------------------------------------------------------
(* Object.                                                                 *)

\* guessClassName: with its symbols the interpreter tells some types by tp_repr.
GuessClassName(t, type) ==
  IF t.symbols /\ type.name \in {"float", "NoneType", "bool"} THEN type.name ELSE "???"

\* The constructor: the base type and the class name, as far as they can be read.
Classify(t, a) ==
  IF a \notin DOMAIN t.heap \/ ~t.heap[a].header
    THEN [base |-> "none", name |-> "invalid object"]
    ELSE LET type == t.heap[a].type
         IN [base |-> type.base,
             name |-> IF type.named THEN type.name ELSE GuessClassName(t, type)]

NameSize(t, a) ==
  LET name == Classify(t, a).name
  IN CASE name = "invalid object" -> 14
       [] name = "object" -> t.heap[a].size
       [] OTHER -> Len(name)

ObjectType(class) ==
  CASE class.base = "long" /\ class.name = "bool" -> "LONG_BOOL"
    [] class.base = "none" /\ class.name \in {"float", "NoneType"} -> class.name
    [] class.base = "none" -> "OTHER"
    [] OTHER -> class.base

\* getStringFromAddress: wide strings are not resolved.
StringText(t, a, max_size) ==
  LET o == t.heap[a]
  IN IF o.narrow THEN Truncate(Text("str", a, o.size + 2), max_size)
     ELSE Generic(NameSize(t, a), a, max_size)

\* normalizeBytesObjectRepresentation
BytesText(o, a, max_size) ==
  Truncate(IF o.narrow THEN Text("bytes", a, o.size + 3) ELSE Text("binary", a, 8), max_size)

\* text[b, room]: the text of the object at b in that room.

\* An element of a list or a tuple, or of a dict with its key.
FormatItem(text, item, max_size) ==
  IF Len(item) = 1 THEN text[item[1], max_size]
  ELSE Pair(text[item[1], max_size], text[item[2], max_size])

\* An element is left out when less than an ellipsis fits behind it.
FormatSequence(text, items, max_size) ==
  LET Add(s, item) ==
        LET x == FormatItem(text, item, s.room)
            remaining_size == s.room - (x.size + 2)
        IN IF s.full THEN s
           ELSE IF remaining_size < Ellipsis.size + 2
             THEN [s EXCEPT !.texts = Append(@, Ellipsis), !.full = TRUE]
           ELSE [s EXCEPT !.texts = Append(@, x), !.room = remaining_size]
  IN FoldLeft(Add, [texts |-> <<>>, room |-> max_size, full |-> FALSE], items).texts

\* TupleObject and ListObject.
SequenceText(text, t, form, a, max_size) ==
  Enclose(form, a, FormatSequence(text, t.heap[a].items, max_size - 2))

\* The entries are where they are looked for, or are something else.
DictText(text, t, a, max_size) ==
  LET o == t.heap[a]
  IN IF t.minor < 6 THEN Text("no_dict", a, 24)
     ELSE IF EntriesOffset(o.dk_size) # o.entries_at THEN Failed(NameSize(t, a), a)
     ELSE Enclose("dict", a, FormatSequence(text, DictItems(o), max_size - 2))

\* toConcreteObject and the visitor.
ConcreteText(text, t, type, a, max_size) ==
  CASE type = "OTHER" -> Generic(NameSize(t, a), a, max_size)
    [] type = "NoneType" -> Text("none", Null, 4)
    [] type = "float" -> Text("float", a, t.heap[a].size)
    [] type \in {"long", "LONG_BOOL"} ->
         LongText(t, t.heap[a], type = "LONG_BOOL", max_size)
    [] type = "unicode" -> StringText(t, a, max_size)
    [] type = "bytes" -> BytesText(t.heap[a], a, max_size)
    [] type \in {"tuple", "list"} -> SequenceText(text, t, type, a, max_size)
    [] type = "dict" -> DictText(text, t, a, max_size)

\* An object that cannot be copied is named instead.
ObjectText(t, a, max_size) ==
  LET text[b \in Int, room \in Int] ==
        LET type == ObjectType(Classify(t, b))
        IN IF room <= 5 THEN Ellipsis
           ELSE IF type \notin {"OTHER", "NoneType"} /\ ~t.heap[b].readable
             THEN Failed(NameSize(t, b), b)
           ELSE ConcreteText(text, t, type, b, room)
  IN text[a, max_size]
=============================================================================
