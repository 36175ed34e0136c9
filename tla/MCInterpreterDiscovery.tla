----------------------- MODULE MCInterpreterDiscovery -----------------------
(* One or two interpreters; maps and tables that differ in what is checked.  *)
EXTENDS InterpreterDiscovery

CONSTANTS sub, main

OneOrTwo == {<<main>>, <<sub, main>>}
TwoMaps == <<"stack", "arena">>

EightBytes == [f \in Field |-> 8]

\* Fields of eight bytes, all at one place but for those that are looked at.
Names == {"fits", "too large", "too far"}
FewTables ==
  LET sane == [size |-> [s \in Struct |-> 64], offset |-> [f \in Field |-> 8]]
  IN [n \in Names |->
        CASE n = "fits" -> [sane EXCEPT !.offset[<<"py_is", "o_next">>] = 56]
          [] n = "too large" -> [sane EXCEPT !.size["py_gc"] = MaxSize + 1]
          [] n = "too far" -> [sane EXCEPT !.offset[<<"py_list", "o_ob_item">>] = 57]]
SaneTable == FewTables["fits"]

\* The table of something else, and a good copy.
FewCopies ==
  {[cookie |-> TRUE, version |-> 313, table |-> "too large", free_threaded |-> FALSE],
   [cookie |-> TRUE, version |-> 314, table |-> "fits", free_threaded |-> TRUE]}

\* At most one place cannot be read.
AtMostOne == {{}} \cup {{p} : p \in Readable \ {"arena", "heap"}}

Words(bss, stack, arena, heap) ==
  [bss |-> bss, stack |-> stack, arena |-> arena, heap |-> heap]

\* A pointer to the main interpreter in the bss, in the heap, in the second map.
FewContents ==
  {Words(<<"mapped", "interp", "dictionaries", main>>, <<>>, <<>>, <<>>),
   Words(<<>>, <<"mapped">>, <<>>, <<"readable", main>>),
   Words(<<"tstate_head">>, <<>>, <<"interp", main>>, <<>>)}

Automatic == {"debug_offsets", "elf_data", "symbols", "bss"}
FewRequests ==
  {[methods |-> Method, native_all |-> FALSE],
   [methods |-> Automatic, native_all |-> TRUE]}
Exhaustive == {[methods |-> Method, native_all |-> FALSE]}
=============================================================================
