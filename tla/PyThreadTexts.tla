---------------------------- MODULE PyThreadTexts ----------------------------
(***************************************************************************)
(* What the texts of the variables have to say of the objects that they    *)
(* stand for (pytypes.cpp), for the reports of PyThread.                   *)
(***************************************************************************)
EXTENDS PyThread

\* The elements of a container, as the program that is looked at sees them.
TrueItems(o) ==
  LET there == {i \in DOMAIN o.items : Len(o.items[i]) = 1 \/ o.items[i][1] # Null}
      Value(i) == IF o.split = <<>> THEN o.items[i] ELSE <<o.items[i][1], o.split[i]>>
  IN [k \in 1 .. Cardinality(there) |->
        Value(CHOOSE i \in there : Cardinality({j \in there : j < i}) = k - 1)]

TrueInt(o) ==
  LET magnitude == FoldRight(LAMBDA d, n : d + 2 ^ Shift * n, o.digits, 0)
  IN IF o.negative THEN -magnitude ELSE magnitude

\* An int of four digits and more is hidden or wrong (see the README).
IntIsTrue(o, x) ==
  \/ Len(o.digits) > 3
  \/ x.form = "big_int" /\ TrueInt(o) \notin -MaxLong .. MaxLong
  \/ x.form \in {"int", "bool"} /\ x.of = TrueInt(o)

\* That x tells about the object at a what is true of it.  A container shows its
\* first elements in their order; the dots at the end stand for all that is left.
RECURSIVE Shows(_, _, _)
Shows(t, a, x) ==
  LET o == t.heap[a]
      ItemIsTrue(item, part) ==
        \/ part = Ellipsis
        \/ Len(item) = 1 /\ Shows(t, item[1], part)
        \/ /\ Len(item) = 2 /\ part.form = "pair"
           /\ \A i \in 1 .. 2 : part.parts[i] = Ellipsis \/ Shows(t, item[i], part.parts[i])
      items == TrueItems(o)
      told == o.type.named \/ t.symbols
  IN IF a \notin DOMAIN t.heap \/ ~t.heap[a].header
       THEN x.form = "generic" /\ x.of = a
     ELSE IF ~o.readable
       THEN x.form \in {"generic", "failed", "none"}
     ELSE CASE o.type.base = "long" -> IntIsTrue(o, x)
            [] o.type.base \in {"unicode", "bytes"} /\ o.narrow ->
                 x.form \in {"str", "bytes", "cut"} /\ x.of = a
            [] o.type.base \in {"tuple", "list"} \cup (IF t.minor >= 6 THEN {"dict"} ELSE {}) ->
                 /\ x.form = o.type.base
                 /\ Len(x.parts) <= Len(items)
                 /\ \A i \in DOMAIN x.parts : ItemIsTrue(items[i], x.parts[i])
                 /\ Len(x.parts) < Len(items) => x.parts # <<>> /\ Last(x.parts) = Ellipsis
            [] o.type.base = "none" /\ o.type.name = "NoneType" /\ told -> x.form = "none"
            [] o.type.base = "none" /\ o.type.name = "float" /\ told ->
                 x.form = "float" /\ x.of = a
            [] OTHER -> x.form \in {"generic", "binary", "no_dict", "ellipsis"}

RECURSIVE Abbreviated(_)
Abbreviated(x) ==
  x.form \in {"ellipsis", "cut"} \/ \E i \in DOMAIN x.parts : Abbreviated(x.parts[i])

\* Strings and containers keep to the room there is, the others are not cut.
Fits(x) == x.form \in {"str", "bytes", "cut", "tuple", "list", "dict"} => x.size <= MAX_LOCAL_STR_SIZE

\* Nothing is left out of a container that leaves room for one more ellipsis.
IsWhole(t, a, x) ==
  LET room == ObjectText(t, a, MAX_LOCAL_STR_SIZE + 16)
  IN x.form \in {"tuple", "list", "dict"} /\ Abbreviated(x)
       => Abbreviated(room) \/ room.size > MAX_LOCAL_STR_SIZE - (Ellipsis.size + 4)

\* The texts of the variables are true: they show the object that the variable has
\* in the target, a container with its elements in their order, fit the line they
\* have and are abbreviated only for want of room.
TextsAreTrue ==
  \A k \in DOMAIN frames :
    LET addresses == StackOf(target)[frames[k].at].locals
        texts == frames[k].variables.locals @@ frames[k].variables.arguments
    IN /\ DOMAIN texts = {i \in DOMAIN addresses : addresses[i] # Null}
       /\ \A i \in DOMAIN texts :
            /\ Shows(target, addresses[i], texts[i])
            /\ Fits(texts[i])
            /\ IsWhole(target, addresses[i], texts[i])
=============================================================================
