----------------------- MODULE MCProcessMemoryManager -----------------------
(* Small address spaces: Seven has maps that do not all fit into a cache of *)
(* two pages and one that never does; in Three a page is in no map at all.   *)
EXTENDS ProcessMemoryManager

CONSTANTS x, y

Seven == 0 .. 6
SevenMaps == {[addr |-> 0, len |-> 1], [addr |-> 1, len |-> 1],
              [addr |-> 2, len |-> 2], [addr |-> 4, len |-> 3]}

Three == 0 .. 2
ThreeMaps == {[addr |-> 0, len |-> 2]}

\* A usual Linux, one that refuses, and two without process_vm_readv.
Works == [vm_readv |-> "works", opens |-> TRUE, no_readv |-> FALSE]
Linux == {Works}
AnyLinux ==
  {Works,
   [Works EXCEPT !.vm_readv = "EPERM"],
   [Works EXCEPT !.vm_readv = "ENOSYS"],
   [Works EXCEPT !.no_readv = TRUE, !.opens = FALSE]}
=============================================================================
