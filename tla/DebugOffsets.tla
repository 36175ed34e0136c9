---------------------------- MODULE DebugOffsets ----------------------------
(***************************************************************************)
(* The table of sizes and offsets that Python 3.13 and later keep in their *)
(* own memory, _Py_DebugOffsets, and what process.cpp does with one before *)
(* it trusts it: copy, validate, clamp.  A table gives each structure a    *)
(* size and each of its fields an offset.                                  *)
(***************************************************************************)
EXTENDS Integers, FiniteSetsExt

CONSTANT Width  \* the size of a field's type in bytes

\* The fields that validateDebugOffsets and clampSizes name, by structure.
Fields ==
  [py_runtime    |-> {"o_finalizing", "o_interp_head"},
   py_is         |-> {"o_next", "o_tstate_head", "o_gc", "o_modules",
                      "o_sysdict", "o_builtins", "o_gil_runtime_state"},
   py_thread     |-> {"o_prev", "o_next", "o_interp", "o_frame",
                      "o_thread_id", "o_native_thread_id"},
   py_frame      |-> {"o_back", "o_code", "o_prev_instr", "o_localsplus", "o_owner"},
   py_code       |-> {"o_filename", "o_name", "o_lnotab", "o_firstlineno",
                      "o_argcount", "o_varnames", "o_code_adaptive"},
   py_object     |-> {"o_ob_type"},
   py_type       |-> {"o_tp_name", "o_tp_repr", "o_tp_flags"},
   py_tuple      |-> {"o_ob_size", "o_ob_item"},
   py_unicode    |-> {"o_state", "o_length", "o_ascii"},
   py_gc         |-> {"o_collecting"},
   py_list       |-> {"o_ob_size", "o_ob_item"},
   py_dictkeys   |-> {"o_dk_size", "o_dk_kind", "o_dk_nentries", "o_dk_indices"},
   py_dictvalues |-> {"o_values"},
   py_dict       |-> {"o_ma_keys", "o_ma_values"},
   py_float      |-> {"o_ob_fval"},
   py_long       |-> {"o_ob_size", "o_ob_digit"},
   py_bytes      |-> {"o_ob_size", "o_ob_sval"},
   py_cframe     |-> {"current_frame"}]

Struct == DOMAIN Fields
Field == UNION {{s} \X Fields[s] : s \in Struct}

ASSUME WidthAssumption == Width \in [Field -> Nat \ {0}]

Table == [size : [Struct -> Int], offset : [Field -> Nat]]

\* What _Py_DebugOffsets has no entry for comes from the tables of version.cpp.
Static == {"py_dictkeys", "py_dictvalues", "py_cframe"}

CopyDebugOffsets(reported, static) ==
  [size   |-> [s \in Struct |-> IF s \in Static THEN static.size[s] ELSE reported.size[s]],
   offset |-> [f \in Field |->
                 IF f[1] \in Static THEN static.offset[f] ELSE reported.offset[f]]]

\* The structures whose size is compared with the limit.
SizeChecked ==
  {"py_runtime", "py_is", "py_thread", "py_frame", "py_code", "py_object",
   "py_type", "py_tuple", "py_unicode", "py_gc"}

MaxSize == 1024 * 1024

\* Mutant of InBounds: a field that starts in its structure is in bounds.
InBoundsAtStart(t, f) ==
  LET size == t.size[f[1]]
  IN size >= 0 /\ size >= t.offset[f]

InBounds(t, f) ==
  LET size == t.size[f[1]]
  IN /\ size >= 0
     /\ size >= t.offset[f]
     /\ size - t.offset[f] >= Width[f]

ValidateDebugOffsets(t) ==
  /\ \A s \in SizeChecked : t.size[s] <= MaxSize
  /\ \A f \in Field : InBounds(t, f)

FieldEnd(t, f) == t.offset[f] + Width[f]

\* Of each structure, what reaches to the end of its last field is copied.
ClampSizes(t) ==
  [t EXCEPT !.size =
     [s \in Struct |-> Max({FieldEnd(t, f) : f \in {s} \X Fields[s]})]]

\* Structure<T>::getField ends pystack when the field is not in what is copied.
GetFieldAborts(t, f) ==
  LET size == t.size[f[1]]
  IN size < Width[f] \/ size - Width[f] < t.offset[f]
=============================================================================
