----------------------------- MODULE MCPyThread -----------------------------
(***************************************************************************)
(* Threads for PyThread: one family each for the values of variables, the  *)
(* positions, the stacks and the status.                                   *)
(***************************************************************************)
EXTENDS PyThreadTexts

Instr(units, line, end_line, column, end_column) ==
  [units |-> units, line |-> line, end_line |-> end_line, column |-> column,
   end_column |-> end_column]

Code(instrs) ==
  [understood |-> TRUE, filename |-> "file", name |-> "function", firstlineno |-> 3,
   instrs |-> instrs, argcount |-> 0]

Frame(code, at, locals) ==
  [code |-> [code EXCEPT !.argcount = IF locals = <<>> THEN 0 ELSE 1],
   at |-> at, locals |-> locals, locals_readable |-> TRUE]

OneLine == Code(<<Instr(1, 3, 3, NoColumn, NoColumn)>>)

Thread ==
  [minor |-> 12, heap |-> <<>>, symbols |-> TRUE, evals |-> <<>>, unreadable_from |-> 99,
   gil |-> "this", former |-> "other", collecting |-> FALSE, native |-> {},
   pthreads |-> <<<<"pid">>>>, tid_at |-> 1]

-----------------------------------------------------------------------------
(* Values.                                                                 *)

Typed(base, name) == [base |-> base, name |-> name, named |-> TRUE]
Unnamed(type) == [type EXCEPT !.named = FALSE]

Long(digits) == [Object EXCEPT !.type = Typed("long", "int"), !.digits = digits]
Str(n) == [Object EXCEPT !.type = Typed("unicode", "str"), !.size = n]
Bytes(n) == [Object EXCEPT !.type = Typed("bytes", "bytes"), !.size = n]
Other(n) == [Object EXCEPT !.size = n]
None == [Object EXCEPT !.type = Typed("none", "NoneType")]
Float == [Object EXCEPT !.type = Typed("none", "float"), !.size = 8]
Bool(digits) == [Long(digits) EXCEPT !.type = Typed("long", "bool")]
Container(base, addresses) ==
  [Object EXCEPT !.type = Typed(base, base), !.items = [i \in DOMAIN addresses |-> <<addresses[i]>>]]
Dict(pairs) == [Object EXCEPT !.type = Typed("dict", "dict"), !.items = pairs]
\* A table of 2^k slots, with indices as CPython lays them out.
DictOf(pairs, k) ==
  [Dict(pairs) EXCEPT !.dk_size = 2 ^ k,
                      !.entries_at = 2 ^ k * (IF k < 8 THEN 1 ELSE IF k < 16 THEN 2 ELSE 4)]

\* Ints of up to three digits at the limits of a digit and of a long long.
Ints ==
  LET Digits == {0, 1, 2, 2 ^ Shift - 1}
      Top == Digits \ {0}
      numbers == {<<>>} \cup {<<d>> : d \in Top} \cup {<<d, e>> : d \in Digits, e \in Top}
                   \cup {<<d, e, f>> : d \in Digits, e \in Digits, f \in Top}
  IN {[Long(n) EXCEPT !.negative = b] : n \in numbers \ {<<>>}, b \in BOOLEAN} \cup {Long(<<>>)}

Plain ==
  {Str(n) : n \in {0, 75, 78, 79}} \cup {Bytes(n) : n \in {0, 77, 78}} \cup
  {Other(n) : n \in {6, 60, 90}} \cup
  {None, Float, Bool(<<1>>), Bool(<<>>), [Str(3) EXCEPT !.narrow = FALSE],
   [Bytes(3) EXCEPT !.narrow = FALSE]}

Broken ==
  {[o EXCEPT !.header = FALSE] : o \in {Str(3), Float}} \cup
  {[o EXCEPT !.readable = FALSE] :
     o \in {Str(3), Float, None, Long(<<1>>), Container("list", <<2>>), Dict(<<>>)}}

Nameless == {[o EXCEPT !.type = Unnamed(@)] : o \in {Float, None, Bool(<<1>>), Str(3), Other(3)}}

\* An object of any of these kinds in the variable, with others behind it.
Singles == {<<o>> : o \in Ints \cup Plain \cup Broken \cup Nameless}

\* Containers of one to three elements whose sizes come near the room there is.
Elements ==
  {Str(n) : n \in {0, 30} \cup 64 .. 78} \cup {Other(n) : n \in 40 .. 58} \cup
  {[Long(<<1>>) EXCEPT !.negative = TRUE], None, Container("tuple", <<>>)}

Second == {Long(<<1>>), Str(2), Str(30), Container("list", <<2, 2>>)}

Containers ==
  {<<Container(base, addresses), x, y>> :
     base \in {"tuple", "list"}, x \in Elements, y \in Second,
     addresses \in {<<2>>, <<2, 3>>, <<3, 2>>, <<3, 3, 2>>, <<2, 99>>}}

\* Long, nested and cyclic ones.
Nested ==
  {<<Container("list", [i \in 1 .. n |-> 2]), x>> :
     n \in {11, 14, 15, 24, 25, 26}, x \in {Long(<<1>>), None, Float}} \cup
  {<<Container("list", a), Container("tuple", b), Long(<<7>>)>> :
     a \in {<<3, 1>>, <<3, 2>>, <<2, 3, 3>>, <<3, 3, 2>>},
     b \in {<<>>, <<3, 1>>, <<3, 3, 1>>, <<3, 2>>}}

Dicts ==
  {<<DictOf(pairs, k), x, Long(<<1>>)>> :
     pairs \in {<<>>, <<<<2, 3>>>>, <<<<3, 2>>, <<2, 3>>>>, <<<<Null, 3>>, <<2, 2>>>>},
     k \in {3, 7, 8, 15, 16}, x \in {Str(2), Str(33), Str(34), Str(76), Other(2), Other(52)}} \cup
  {<<[Dict(<<<<2, Null>>, <<3, Null>>>>) EXCEPT !.split = split], Str(1), Str(2)>> :
     split \in {<<2, 3>>, <<3, Null>>}}

Valued(heaps, minors, symbols) ==
  {[Thread EXCEPT !.minor = m, !.heap = h, !.symbols = s,
                  !.evals = <<<<Frame(OneLine, 1, <<1, Null, Len(h)>>)>>>>] :
     m \in minors, h \in heaps, s \in symbols}

ValueTargets ==
  Valued(Singles, {6, 12}, BOOLEAN) \cup Valued(Containers \cup Nested, {12}, {TRUE})
    \cup Valued(Dicts, {4, 10, 12}, {TRUE})

-----------------------------------------------------------------------------
(* Positions.                                                              *)

Instrs(minor) ==
  IF minor >= 11
    THEN {Instr(1, NoLine, NoLine, NoColumn, NoColumn), Instr(1, 4, 4, NoColumn, NoColumn),
          Instr(2, 3, 3, 4, 9), Instr(1, 4, 4, 0, 2), Instr(1, 2, 2, 1, 3), Instr(2, 4, 6, 4, 1)}
  ELSE {Instr(u, n, n, NoColumn, NoColumn) :
          u \in {1, 3}, n \in {2, 3, 5} \cup (IF minor = 10 THEN {NoLine} ELSE {})}

Positioned(minor, codes) ==
  UNION {{[Thread EXCEPT !.minor = minor, !.evals = <<<<Frame(Code(c), i, <<>>)>>>>] :
            i \in DOMAIN c} : c \in codes}

PositionTargets ==
  UNION {Positioned(minor, UNION {[1 .. n -> Instrs(minor)] : n \in 1 .. 3}) :
           minor \in {9, 10, 11, 13}}

\* Lines of 63 and of 64 instructions, which take 126 and 128 bytes.
LongLines ==
  Positioned(9, {<<Instr(u, 3, 3, NoColumn, NoColumn), Instr(1, 4, 4, NoColumn, NoColumn),
                   Instr(1, 5, 5, NoColumn, NoColumn)>> : u \in {63, 64}} \cup
                {[i \in 1 .. n |-> Instr(1, 2 + i, 2 + i, NoColumn, NoColumn)] : n \in 1 .. 40})

-----------------------------------------------------------------------------
(* Stacks.                                                                 *)

StackFrames ==
  {Frame(OneLine, 1, <<>>), [Frame(OneLine, 1, <<>>) EXCEPT !.code.understood = FALSE],
   [Frame(OneLine, 1, <<>>) EXCEPT !.locals_readable = FALSE]}

Evals(minor) ==
  LET Full(n) == [1 .. n -> StackFrames]
      full == IF minor >= 11 THEN Full(1) \cup Full(2) ELSE Full(1)
      innermost == IF minor >= 12 THEN full \cup {<<>>} ELSE full
  IN {<<>>} \cup {<<e>> : e \in innermost} \cup {<<e, f>> : e \in innermost, f \in full}
       \cup {<<e, f, <<g>>>> : e \in innermost, f \in full, g \in StackFrames}

StackTargets ==
  UNION {{[Thread EXCEPT !.minor = m, !.evals = e, !.unreadable_from = u] :
            e \in Evals(m), u \in {1, 2, 3, 4, 99}} : m \in {8, 11, 12}}

-----------------------------------------------------------------------------
(* Status.                                                                 *)

StatusTargets ==
  {[Thread EXCEPT !.minor = m, !.gil = g, !.former = f, !.collecting = c, !.symbols = s,
                  !.native = n] :
     m \in 6 .. 13, g \in {"free", "this", "other", "taking"}, f \in {"this", "other"},
     c \in BOOLEAN, s \in BOOLEAN,
     n \in {{}, {"take_gil"}, {"take_gil", "drop_gil"}, {"collect"}}}

\* The structs of one to three threads, which may be cut off or hold the pid by chance.
Structs ==
  {<<w, x, y, z>> : w \in {"else", "pid"}, x \in {"pid", "tid"}, y \in {"else", "tid"}, z \in {"else", "pid"}}
    \cup {<<"else", "tid">>, <<"else">>, <<"tid", "else">>, <<"pid">>, <<"else", "zero">>,
          <<"else", "else", "pid">>, <<"else", "else", "tid", "else">>, <<"else", "else", "pid", "else">>}

ThreadIdTargets ==
  {[Thread EXCEPT !.minor = 10, !.pthreads = p, !.tid_at = at] :
     p \in [1 .. 1 -> Structs] \cup [1 .. 2 -> Structs], at \in 1 .. 3}

-----------------------------------------------------------------------------

AllTargets ==
  ValueTargets \cup PositionTargets \cup StackTargets \cup StatusTargets \cup ThreadIdTargets
=============================================================================
