------------------------------- MODULE PyCode -------------------------------
(***************************************************************************)
(* pycode.cpp: where in its file a frame is.  CPython keeps the positions  *)
(* of the instructions of a code object in a table whose format changed    *)
(* three times; the tables are as CPython writes them (external), from the *)
(* instructions [units, line, end_line, column, end_column] of the code,   *)
(* which may stand for several that share their position.  A code unit is  *)
(* two bytes long.                                                         *)
(***************************************************************************)
EXTENDS SequencesExt, Lists

CONSTANT SignedChar  \* char is signed, as on x86 and not on ARM

ASSUME PyCodeAssumption == SignedChar \in BOOLEAN

NoLine == -128    \* NO_LINE_NUMBER; also the line of an instruction without one
NoColumn == -1

LocationInfo(lineno, end_lineno, column, end_column) ==
  [lineno |-> lineno, end_lineno |-> end_lineno, column |-> column,
   end_column |-> end_column]

-----------------------------------------------------------------------------
(* The tables of CPython.                                                  *)

\* The line in force before instruction i: the last one that is stated.
LineBefore(code, i) ==
  LET stated == {j \in 1 .. i - 1 : code.instrs[j].line # NoLine}
  IN IF stated = {} THEN code.firstlineno ELSE code.instrs[Max(stated)].line

\* The unit at which instruction i starts.
StartOf(code, i) == SumOfFirst([j \in DOMAIN code.instrs |-> code.instrs[j].units], i - 1)

\* From 3.11 on: the shortest form that holds the position.
LocationEntry(instr, before) ==
  LET delta == instr.line - before
      form == CASE instr.line = NoLine -> "none"
                [] instr.line # NoLine /\ instr.column = NoColumn -> "no_columns"
                [] OTHER ->
                     IF instr.end_line # instr.line THEN "long"
                     ELSE IF delta = 0 THEN "short"
                     ELSE IF delta \in 1 .. 2 THEN "one_line" ELSE "long"
  IN [form |-> form, length |-> instr.units, delta |-> delta,
      lines |-> instr.end_line - instr.line, column |-> instr.column,
      end_column |-> instr.end_column]

LocationTable(code) ==
  [i \in DOMAIN code.instrs |-> LocationEntry(code.instrs[i], LineBefore(code, i))]

\* In 3.10: how far a range reaches, and its line.
LineTable(code) ==
  [i \in DOMAIN code.instrs |->
     LET instr == code.instrs[i]
     IN <<2 * instr.units,
          IF instr.line = NoLine THEN NoLine ELSE instr.line - LineBefore(code, i)>>]

\* Up to 3.9: how far on the next change of the line is.
Lnotab(code) ==
  LET Changes(i) == code.instrs[i].line # LineBefore(code, i)
      changes == Filtered([i \in DOMAIN code.instrs |-> i], Changes)
  IN [k \in DOMAIN changes |->
        LET since == IF k = 1 THEN 0 ELSE StartOf(code, changes[k - 1])
        IN <<2 * (StartOf(code, changes[k]) - since),
             code.instrs[changes[k]].line - LineBefore(code, changes[k])>>]

\* Before 3.10 every instruction has a line, and the tables of 3.10 have no other use
\* for -128.
CodeIsTyped(minor, code) ==
  /\ code.firstlineno \in Int
  /\ code.instrs \in Seq([units : Nat \ {0}, line : Int, end_line : Int, column : Int,
                         end_column : Int])
  /\ \A i \in DOMAIN code.instrs :
       /\ minor < 10 => code.instrs[i].line # NoLine
       /\ minor = 10 /\ LineTable(code)[i][2] = NoLine => code.instrs[i].line = NoLine

-----------------------------------------------------------------------------
(* parse_linetable and getLocationInfo.                                    *)

\* Mutant of ReadEntry: the line of an entry without columns is not counted.
ReadEntryLosesLine(info, e) ==
  CASE e.form \in {"none", "no_columns"} -> info
    [] e.form = "long" ->
         LocationInfo(info.lineno + e.delta, info.lineno + e.delta + e.lines, e.column,
                      e.end_column)
    [] e.form = "one_line" ->
         LocationInfo(info.lineno + e.delta, info.lineno + e.delta, e.column, e.end_column)
    [] e.form = "short" ->
         [info EXCEPT !.column = e.column, !.end_column = e.end_column]

\* What an entry says is added to what was said before: a short entry leaves the
\* end line as it was, and so does one without columns.
ReadEntry(info, e) ==
  CASE e.form = "none" -> info
    [] e.form = "long" ->
         LocationInfo(info.lineno + e.delta, info.lineno + e.delta + e.lines, e.column,
                      e.end_column)
    [] e.form = "no_columns" ->
         [info EXCEPT !.lineno = @ + e.delta, !.column = -1, !.end_column = -1]
    [] e.form = "one_line" ->
         LocationInfo(info.lineno + e.delta, info.lineno + e.delta, e.column, e.end_column)
    [] e.form = "short" ->
         [info EXCEPT !.column = e.column, !.end_column = e.end_column]

\* The entries are read up to the one that spans addrq.  posinfo: the variable of
\* the caller, which nothing has initialized.
ParseLinetable(addrq, table, firstlineno, posinfo) ==
  LET EndOf(n) == SumOfFirst([k \in DOMAIN table |-> table[k].length], n)
      spanning == {n \in DOMAIN table : EndOf(n - 1) <= addrq /\ EndOf(n) > addrq}
      info[n \in 0 .. Len(table)] ==
        IF n = 0 THEN [posinfo EXCEPT !.lineno = firstlineno]
                 ELSE ReadEntry(info[n - 1], table[n])
  IN [found |-> spanning # {},
      info |-> info[IF spanning = {} THEN Len(table) ELSE Min(spanning)]]

\* 3.10: start_delta is an unsigned char.  The index counts units.
LineOf310(code, lasti) ==
  LET table == LineTable(code)
      deltas == [k \in DOMAIN table |-> IF table[k][2] = NoLine THEN 0 ELSE table[k][2]]
      Current(n) == SumOfFirst([k \in DOMAIN table |-> table[k][1]], n)
      over == {n \in DOMAIN table : Current(n) > 2 * lasti}
  IN code.firstlineno + SumOfFirst(deltas, IF over = {} THEN Len(table) ELSE Min(over))

\* A byte of a std::string, as a number.
Char(byte) == IF SignedChar /\ byte > 127 THEN byte - 256 ELSE byte

\* Up to 3.9: bc is unsigned, so that one below zero is beyond every index.
LineOfLnotab(code, lasti) ==
  LET table == Lnotab(code)
      Bc(n) == SumOfFirst([k \in DOMAIN table |-> Char(table[k][1])], n)
      over == {n \in DOMAIN table : Bc(n) < 0 \/ Bc(n) > lasti}
  IN code.firstlineno
       + SumOfFirst([k \in DOMAIN table |-> table[k][2]],
                    IF over = {} THEN Len(table) ELSE Min(over) - 1)

\* The position of a frame that executes instruction i, which CPython keeps as an
\* address from 3.11 on, in units in 3.10 and in bytes before.
GetLocationInfo(t, code, i, posinfo) ==
  IF t.minor >= 11
    THEN LET parsed == ParseLinetable(StartOf(code, i), LocationTable(code),
                                      code.firstlineno, posinfo)
         IN IF parsed.found THEN parsed.info ELSE LocationInfo(0, 0, 0, 0)
    ELSE LET line == IF t.minor = 10 THEN LineOf310(code, StartOf(code, i))
                     ELSE LineOfLnotab(code, 2 * StartOf(code, i))
         IN LocationInfo(line, line, 0, 0)
=============================================================================
