----------------------------- MODULE RecordBuild -----------------------------
(***************************************************************************)
(* The constructors that turn one DIA element into one row                 *)
(* (DIA2Input.cpp:11-1219).                                                *)
(*                                                                         *)
(* A constructor asks the element for one property after the other.  Every *)
(* answer goes through a local variable, one for all DWORDs and one for    *)
(* all BOOLs, and the result code is mostly not looked at: where the       *)
(* variable is not reset in between, a getter without an answer leaves its *)
(* field the answer of an earlier one.                                     *)
(*                                                                         *)
(* A constructor is a sequence of steps here, and a value is where it came *)
(* from: the name of the field whose getter delivered it, Zero, Given (a   *)
(* parameter) or Junk (never initialised).                                 *)
(***************************************************************************)
EXTENDS Integers, Sequences, FiniteSets

CONSTANTS
  Makes,        \* the constructors to be looked at
  MaxFailures   \* bound: getters of an element that do not answer

ASSUME FailuresAssumption == MaxFailures \in Nat

Zero  == "0"
Given == "given"
Junk  == "junk"

Locals == {"D", "B", "own"}

-----------------------------------------------------------------------------
(* The steps. *)

Step(op, v, as, fields) ==
  [i \in 1..Len(fields) |-> [op |-> op, v |-> v, as |-> as, f |-> fields[i]]]

\* A DWORD is stored as it is, a BOOL as !!B.
Stored(v) == IF v = "B" THEN "flag" ELSE "value"

Key(f)       == Step("given", "D", "value", <<f>>)
Default(f)   == Step("zero", "D", "value", <<f>>)
Clear(v)     == Step("clear", v, "value", <<"none">>)
Take(v, fs)  == Step("take", v, Stored(v), fs)       \* get(&D); f = D
Fresh(v, fs) == Step("fresh", v, Stored(v), fs)      \* D = 0; get(&D); f = D
IfOk(f)      == Step("ifok", "D", "value", <<f>>)    \* if (S_OK == get(&D)) f = D
Text(f)      == Step("text", "D", "value", <<f>>)    \* the same for a string of its own
TakeNot(fs)  == Step("take", "B", "not", fs)         \* get(&B); f = !B
TakeFlag(f)  == Step("take", "D", "flag", <<f>>)     \* get(&D); f = !!D
Maybe(f)     == Step("maybe", "own", "value", <<f>>) \* f is assigned for some answers
\* address_info::init; with -noaddress its getter is not called, which counts
\* as having no answer.
Address      == Fresh("own", <<"address">>)
Lookup(f)    == Step("lookup", "D", "value", <<f>>)

\* An enumerator chosen by asking getter after getter while the answer is goOn.
Cascade(f, getters, goOn) ==
  [i \in 1..Len(getters) |->
     [op |-> "test", v |-> "B", as |-> "value", f |-> f, g |-> getters[i],
      goOn |-> goOn, rest |-> Len(getters) - i]]

-----------------------------------------------------------------------------
(* The constructors. *)

symbol == Key("symbol")

BaseClass ==
  Default("access") \o IfOk("access")
  \o Take("own", <<"offset">>)
  \o Take("D", <<"child_symbol">>) \o Take("B", <<"virtual_">>)
  \o Take("D", <<"parent_symbol", "vdisp_index", "vbase_offset">>)
  \o Fresh("B", <<"indirect_virtual">>)
  \o Clear("D") \o Default("vbase_type_symbol") \o IfOk("vbase_type_symbol")

Array == symbol \o Take("D", <<"index_type_symbol", "count", "rank", "type_symbol">>)

SectionContrib ==
  Clear("B") \o Clear("D") \o Address
  \o Take("B", <<"code", "code_16bit", "comdat">>)
  \o Take("D", <<"compiland_symbol", "data_crc">>)
  \o Take("B", <<"discardable", "executable", "initialized_data">>)
  \o TakeFlag("length") \o TakeNot(<<"cached", "paged">>)
  \o Take("B", <<"readable">>) \o Take("D", <<"relocations_crc">>)
  \o Take("B", <<"remove", "share", "uninitialized_data", "writeable">>)

Block == symbol \o Address
Label == symbol \o Address

HeapAllocation == symbol \o Address \o Fresh("D", <<"type_symbol">>)

Segment ==
  Clear("B") \o Clear("D")
  \o Take("D", <<"address_section", "address_rv", "frame", "length", "offset">>)
  \o Take("B", <<"readable", "writable", "executable">>)

Inlined == symbol \o Address \o Fresh("D", <<"pgo_edges", "type_symbol">>)

Export ==
  symbol \o Clear("D") \o Take("D", <<"address_offset", "rank", "ordinal">>)
  \o Clear("B")
  \o Take("B", <<"const_export", "data_export", "private_export", "noname",
                 "explicit_ordinal", "forwarder", "function_", "const_">>)

Typedef == symbol \o Take("D", <<"type_symbol", "unmodified_type_symbol">>)

PublicSymbol ==
  symbol \o Address \o Clear("B")
  \o Cascade("type", <<"function", "dataExport">>, FALSE)
  \o Take("B", <<"managed", "cil">>)

FunctionArg == symbol \o Fresh("D", <<"type_symbol">>)
Friend      == symbol \o Fresh("D", <<"type_symbol">>)

Exe ==
  Default("ctypes") \o Default("architecture")
  \o Take("own", <<"guid">>) \o Take("D", <<"symbol", "signature", "age">>)
  \o Text("symbols_path")
  \o Fresh("B", <<"ctypes">>) \o Take("B", <<"stripped">>)
  \o Fresh("D", <<"architecture">>)

Function ==
  symbol \o Fresh("B", <<"alloca_", "safebuffers", "pgo", "compiler_generated">>)
  \o Take("B", <<"has_pgo_counts", "optimized_for_speed">>)
  \o Take("D", <<"pgo_entry_count">>) \o Take("own", <<"pgo_dyn_instr_count">>)
  \o Take("D", <<"static_size", "final_live_static_size">>)
  \o Take("B", <<"control_flow_check">>)
  \o Take("D", <<"frame_size", "eh_address">>)
  \o Take("B", <<"asm_", "eh", "eha", "seh">>) \o Take("D", <<"type_symbol">>)
  \o Take("B", <<"longjmp", "setjmp_", "security_checks", "inlined", "noinline",
                 "noreturn", "static_", "sealed", "const_export",
                 "strict_gs_check", "pure_virtual">>)
  \o Default("virtuality") \o Cascade("virtuality", <<"virtual", "intro">>, TRUE)
  \o Take("B", <<"unreachable">>) \o Take("D", <<"pbp_regid">>)
  \o Default("access") \o IfOk("access")
  \o Take("B", <<"custom_call">>) \o Take("D", <<"virtual_base_offset">>)
  \o TakeNot(<<"stack_ordering">>)
  \o Take("B", <<"naked", "far_return", "optimized_debug_info",
                 "interrupt_return", "inline_", "unreachable", "frame_pointer">>)
  \o Address \o Take("D", <<"lbp_regid">>)

InputAssembly ==
  Text("filename") \o Fresh("D", <<"index_">>)
  \o Fresh("B", <<"pdb_available_at_il_merge">>)
  \o Fresh("D", <<"timestamp", "uid">>)

Enum == Take("own", <<"type">>) \o symbol \o Take("B", <<"packed", "scoped">>)

SourceFile == Fresh("D", <<"source_id">>) \o Text("path")

Compiland ==
  symbol \o Fresh("B", <<"edit_and_continue">>)
  \o Text("library") \o Text("compiler") \o Fresh("B", <<"ltcg">>)

AppendDetails ==
  Default("platform")
  \o Fresh("D", <<"backend_build", "backend_major", "backend_minor",
                  "frontend_build", "frontend_major", "frontend_minor">>)
  \o Fresh("B", <<"debug_info", "data_aligned", "ltcg", "hotpatchable",
                  "cvtcil", "cil_netmodule">>)
  \o Fresh("D", <<"language", "platform">>)
  \o Fresh("B", <<"security_check", "managed">>)
  \o Fresh("D", <<"backend_qfe", "frontend_qfe">>) \o Fresh("B", <<"sdl", "pgo">>)

Symbol ==
  symbol \o Key("tag")
  \o Fresh("D", <<"parent_symbol", "lexical_parent_symbol">>) \o Text("name")
  \o Fresh("own", <<"size">>) \o Fresh("D", <<"location_type">>)

FunctionType ==
  symbol
  \o Fresh("B", <<"constant_export", "const_", "volatile_", "unaligned",
                  "is_constructor">>)
  \o Fresh("D", <<"param_count">>)
  \o Fresh("B", <<"cxx_return_udt", "constructor_virtual_base", "constant_export">>)
  \o Fresh("D", <<"return_type_symbol">>) \o Fresh("own", <<"this_adjust">>)
  \o Fresh("own", <<"this_type_symbol">>) \o Fresh("D", <<"call_convention">>)

SrcRange ==
  Key("id")
  \o Fresh("D", <<"compiland_symbol", "src_file", "line_begin", "line_end",
                  "column_begin", "column_end", "length">>)
  \o Fresh("B", <<"statement">>)
  \o Fresh("D", <<"address_offset", "address_rv", "address_section">>)

BuiltinType ==
  symbol \o Take("D", <<"kind">>)
  \o Take("B", <<"const_", "volatile_", "unaligned", "const_export">>)
  \o Fresh("D", <<"count", "array_index_type_symbol", "type_symbol">>)

UserType ==
  Default("src_line") \o symbol \o Maybe("kind")
  \o Fresh("B", <<"constructor">>)
  \o Cascade("aggregate_type", <<"hfaDouble", "hfaFloat">>, FALSE)
  \o Cascade("semantics", <<"isRefUdt", "isValueUdt", "isInterfaceUdt">>, FALSE)
  \o Take("B", <<"const_", "volatile_", "packed", "intrinsic",
                 "overloaded_operators", "nested", "has_nested_types",
                 "assignment_operator", "cast_operator", "scoped", "unaligned">>)
  \o Fresh("D", <<"vtable_shape", "vtable_count">>)

Data ==
  Maybe("value") \o symbol \o Fresh("D", <<"kind">>)
  \o Take("D", <<"type_symbol">>) \o Address \o Take("D", <<"register_id">>)
  \o Take("B", <<"const_export">>) \o Take("D", <<"bit_position">>)
  \o Fresh("own", <<"offset">>)

Callsite == symbol \o Address \o Fresh("own", <<"target_symbol">>)

Pointer ==
  symbol \o Take("D", <<"type_symbol">>) \o Clear("B")
  \o Cascade("kind", <<"isWinRTPointer", "RValueReference", "reference">>, FALSE)
  \o Fresh("B", <<"unaligned", "volatile_", "const_", "restrict_",
                  "constant_export">>)
  \o Clear("B")
  \o Cascade("member_type",
             <<"isPointerToDataMember", "isPointerToMemberFunction">>, FALSE)
  \o Clear("B")
  \o Cascade("inheritance",
             <<"isMultipleInheritance", "isSingleInheritance">>, FALSE)
  \o Fresh("B", <<"virtual_inheritance">>)
  \o Fresh("D", <<"unmodified_type_symbol">>)

CompilandEnv ==
  Fresh("own", <<"compiland_symbol">>) \o Text("option_name") \o Text("value")

InjectedSource == Fresh("own", <<"length">>) \o Fresh("own", <<"text">>)

Thunk ==
  Default("ordinal") \o symbol \o Address
  \o Take("D", <<"ordinal", "target">>)
  \o Default("target_symbol") \o Lookup("target_symbol")

FrameHead ==
  Text("program") \o Address
  \o Fresh("D", <<"length_block", "length_locals", "length_params", "max_stack",
                  "length_prolog", "length_saved_registers", "type_symbol">>)
FrameFlags ==
  Take("B", <<"exceptions_system", "exceptions_cxx", "function_start",
              "allocate_base_pointer">>)

Frame == FrameHead \o Clear("B") \o FrameFlags

VTablePtr == Clear("D") \o Clear("B") \o Take("D", <<"type_symbol">>) \o symbol

Constructor ==
  [BaseClass |-> BaseClass, Array |-> Array, SectionContrib |-> SectionContrib,
   Block |-> Block, HeapAllocation |-> HeapAllocation, Segment |-> Segment,
   Inlined |-> Inlined, Export |-> Export, Typedef |-> Typedef,
   PublicSymbol |-> PublicSymbol, FunctionArg |-> FunctionArg, Exe |-> Exe,
   Function |-> Function, InputAssembly |-> InputAssembly, Enum |-> Enum,
   SourceFile |-> SourceFile, Compiland |-> Compiland,
   AppendDetails |-> AppendDetails, Symbol |-> Symbol,
   FunctionType |-> FunctionType, SrcRange |-> SrcRange,
   BuiltinType |-> BuiltinType, UserType |-> UserType, Data |-> Data,
   Label |-> Label, Callsite |-> Callsite, Pointer |-> Pointer,
   CompilandEnv |-> CompilandEnv, InjectedSource |-> InjectedSource,
   Thunk |-> Thunk, Frame |-> Frame, VTablePtr |-> VTablePtr, Friend |-> Friend]

ASSUME MakesAssumption == Makes \subseteq DOMAIN Constructor

-----------------------------------------------------------------------------
(* The columns: the members PDBReflection.inl lists, which all writers go   *)
(* through.  AppendDetails finishes a row of Compiland.                     *)

CompilandColumns ==
  {"symbol", "library", "compiler", "backend_build", "backend_major",
   "backend_minor", "frontend_build", "frontend_major", "frontend_minor",
   "frontend_qfe", "backend_qfe", "language", "platform", "security_check",
   "managed", "debug_info", "edit_and_continue", "ltcg", "sdl", "pgo",
   "data_aligned", "hotpatchable", "cvtcil", "cil_netmodule"}

FunctionColumns ==
  {"symbol", "virtual_base_offset", "type_symbol", "access", "virtuality",
   "pgo_dyn_instr_count", "static_size", "pbp_regid", "lbp_regid",
   "final_live_static_size", "frame_size", "address", "eh_address",
   "pgo_entry_count", "control_flow_check", "exceptions", "sealed",
   "security_checks", "static_", "pure_virtual", "inline_", "inlined",
   "noinline", "noreturn", "unreachable", "setjmp_", "asm_", "alloca_",
   "const_export", "strict_gs_check", "longjmp", "eh", "eha", "seh",
   "optimized_debug_info", "frame_pointer", "interrupt_return", "far_return",
   "naked", "custom_call", "stack_ordering", "safebuffers", "pgo",
   "has_pgo_counts", "optimized_for_speed", "compiler_generated"}

CodeColumns ==
  [Frame |-> {"program", "address", "length_block", "length_locals",
              "length_params", "max_stack", "length_prolog",
              "length_saved_registers", "type_symbol", "exceptions_system",
              "exceptions_cxx", "function_start", "allocate_base_pointer"},
   Label |-> {"symbol", "address"},
   FunctionType |-> {"symbol", "volatile_", "const_", "unaligned",
              "this_adjust", "param_count", "is_constructor",
              "return_type_symbol", "this_type_symbol", "cxx_return_udt",
              "constructor_virtual_base", "constant_export", "call_convention"},
   Function |-> FunctionColumns,
   Thunk |-> {"symbol", "ordinal", "address", "target", "target_symbol"},
   FunctionArg |-> {"symbol", "type_symbol"},
   Block |-> {"symbol", "address"},
   HeapAllocation |-> {"symbol", "address", "type_symbol"},
   Callsite |-> {"symbol", "target_symbol", "address"},
   Inlined |-> {"symbol", "type_symbol", "pgo_edges", "address"}]

TypeColumns ==
  [BuiltinType |-> {"symbol", "kind", "unaligned", "const_", "volatile_",
              "const_export"},
   UserType |-> {"symbol", "src_line", "vtable_shape", "vtable_count", "kind",
              "semantics", "aggregate_type", "packed", "unaligned", "const_",
              "volatile_", "overloaded_operators", "nested",
              "has_nested_types", "assignment_operator", "cast_operator",
              "scoped", "constructor"},
   Enum |-> {"symbol", "unmodified_type_symbol", "type_symbol", "type",
              "packed", "scoped"},
   Pointer |-> {"symbol", "type_symbol", "unmodified_type_symbol", "unaligned",
              "kind", "inheritance", "member_type", "const_", "volatile_",
              "restrict_", "constant_export", "virtual_inheritance"},
   BaseClass |-> {"child_symbol", "parent_symbol", "offset", "vdisp_index",
              "vbase_type_symbol", "vbase_offset", "virtual_",
              "indirect_virtual", "access"},
   Typedef |-> {"symbol", "type_symbol", "unmodified_type_symbol"},
   Array |-> {"symbol", "index_type_symbol", "count", "rank", "type_symbol"},
   VTablePtr |-> {"symbol", "offset", "type_symbol"},
   Friend |-> {"symbol", "type_symbol"},
   Data |-> {"symbol", "value", "type_symbol", "offset", "address",
              "register_id", "bit_position", "kind", "const_export"}]

FileColumns ==
  [Symbol |-> {"name", "symbol", "lexical_parent_symbol", "parent_symbol",
              "size", "tag", "location_type"},
   PublicSymbol |-> {"symbol", "type", "address", "managed", "cil"},
   Compiland |-> CompilandColumns, AppendDetails |-> CompilandColumns,
   InjectedSource |-> {"length", "text"},
   SourceFile |-> {"source_id", "path"},
   SrcRange |-> {"id", "compiland_symbol", "src_file", "line_begin",
              "line_end", "column_begin", "column_end", "address_rv",
              "address_offset", "address_section", "length", "statement"},
   InputAssembly |-> {"filename", "index_", "timestamp", "uid",
              "pdb_available_at_il_merge"},
   CompilandEnv |-> {"compiland_symbol", "option_name", "value"},
   Export |-> {"symbol", "address_offset", "rank", "ordinal", "const_export",
              "data_export", "private_export", "noname", "explicit_ordinal",
              "forwarder", "function_", "const_"},
   Exe |-> {"guid", "symbols_path", "symbol", "age", "ctypes", "stripped",
              "architecture", "signature"},
   SectionContrib |-> {"compiland_symbol", "data_crc", "length", "address",
              "relocations_crc", "code", "code_16bit", "comdat", "executable",
              "discardable", "initialized_data", "uninitialized_data",
              "cached", "paged", "readable", "writeable", "remove", "share"},
   Segment |-> {"address_rv", "address_section", "frame", "length", "offset",
              "executable", "readable", "writable"}]

Columns(m) ==
  CASE m \in DOMAIN CodeColumns -> CodeColumns[m]
    [] m \in DOMAIN TypeColumns -> TypeColumns[m]
    [] m \in DOMAIN FileColumns -> FileColumns[m]

\* The columns that drpdb.h declares as numbers, in every row that has them.
Numbers ==
  {"symbol", "offset", "length", "count", "rank", "type_symbol", "frame",
   "data_crc", "relocations_crc", "compiland_symbol", "size", "value",
   "parent_symbol", "lexical_parent_symbol", "unmodified_type_symbol",
   "index_type_symbol", "child_symbol", "vdisp_index", "vbase_offset",
   "vbase_type_symbol", "address_section", "address_rv", "address_offset",
   "pgo_edges", "pgo_entry_count", "pgo_dyn_instr_count", "ordinal", "age",
   "signature", "architecture", "static_size", "final_live_static_size",
   "frame_size", "pbp_regid", "lbp_regid", "virtual_base_offset", "index_",
   "timestamp", "uid", "source_id", "id", "src_file", "line_begin",
   "line_end", "column_begin", "column_end", "param_count", "this_adjust",
   "return_type_symbol", "this_type_symbol", "src_line", "vtable_shape",
   "vtable_count", "register_id", "bit_position", "target_symbol"}

-----------------------------------------------------------------------------
(* A constructor at work. *)

VARIABLES
  make,     \* the constructor
  clears,   \* a getter without an answer clears its argument
  pc,       \* the step it is at
  local,    \* the variables that pass an answer on
  row,      \* the fields assigned so far
  failed    \* history: the fields whose getter did not answer

vars == <<make, clears, pc, local, row, failed>>

From(v, b) == [from |-> v, on |-> b]
Bits(v)    == IF v = "B" THEN BOOLEAN ELSE {FALSE}

\* Mutated Blank: no constructor of Compiland clears the row.
BlankWithoutMemset(m) == <<>>

\* memset in the constructor of Compiland; the other rows begin unassigned,
\* but for their strings.
Blank(m) ==
  IF m \in {"Compiland", "AppendDetails"}
  THEN [f \in Columns(m) |-> [from |-> Zero, as |-> "value"]]
  ELSE <<>>

Init ==
  /\ make \in Makes
  /\ clears \in BOOLEAN
  /\ pc = 1
  /\ \E b \in BOOLEAN : local = [v \in Locals |-> From(Junk, v = "B" /\ b)]
  /\ row = Blank(make)
  /\ failed = {}

Running  == pc <= Len(Constructor[make])
step     == Constructor[make][pc]
At(ops)  == Running /\ step.op \in ops
done     == ~Running

Assign(f, from, as) ==
  row' = [g \in (DOMAIN row) \cup {f} |->
            IF g = f THEN [from |-> from, as |-> as] ELSE row[g]]

\* Mutated NextStep: the step after this one is passed over.
StepOver == pc' = pc + 2 /\ UNCHANGED <<make, clears>>

NextStep == pc' = pc + 1 /\ UNCHANGED <<make, clears>>

\* f = symIndexId_, f = 0, or D = 0 and nothing else.
Plain ==
  /\ At({"given", "zero", "clear"})
  /\ NextStep
  /\ \/ step.op = "given" /\ Assign(step.f, Given, "value") /\ UNCHANGED local
     \/ step.op = "zero" /\ Assign(step.f, Zero, "value") /\ UNCHANGED local
     \/ /\ step.op = "clear"
        /\ local' = [local EXCEPT ![step.v] = From(Zero, FALSE)]
        /\ UNCHANGED row
  /\ UNCHANGED failed

\* Mutated Ready: one declaration resets a variable for all getters.
ReadyAsLeft == IF step.v = "own" THEN From(Junk, FALSE) ELSE local[step.v]

\* What the variable holds before the getter of the step is called; "own" is
\* another variable each time.
Ready ==
  IF step.op = "fresh" THEN From(Zero, FALSE)
  ELSE IF step.v = "own" THEN From(Junk, FALSE)
  ELSE local[step.v]

Answers == {From(step.f, b) : b \in Bits(step.v)}

MayFail == Cardinality(failed \cup {step.f}) <= MaxFailures

\* What the variable holds after a getter that has no answer.
Unanswered == IF clears THEN From(Zero, FALSE) ELSE Ready

Hold(v) == local' = [local EXCEPT ![step.v] = v]

\* The getter of the step is called: it leaves its answer v in the variable, or
\* it has none.
Answered(v)   == v \in Answers /\ Hold(v) /\ UNCHANGED failed
NotAnswered   == MayFail /\ failed' = failed \cup {step.f}
Ask(v)        == Answered(v) \/ (v = Unanswered /\ Hold(v) /\ NotAnswered)

\* Mutated GetAndStore: the field is assigned before the getter is called.
StoreBeforeGet ==
  /\ At({"take", "fresh"})
  /\ \E v \in Answers \cup {Unanswered} : Ask(v)
  /\ Assign(step.f, Ready.from, step.as)
  /\ NextStep

\* get(&D); f = D, or !!B, or !B.  The result code is not looked at.
GetAndStore ==
  /\ At({"take", "fresh"})
  /\ \E v \in Answers \cup {Unanswered} :
       Ask(v) /\ Assign(step.f, v.from, step.as)
  /\ NextStep

\* if (S_OK == get(&D)) f = D
GetIfOk ==
  /\ At({"ifok"})
  /\ \/ \E v \in Answers : Answered(v) /\ Assign(step.f, v.from, step.as)
     \/ NotAnswered /\ Hold(Unanswered) /\ UNCHANGED row
  /\ NextStep

\* A string: it is assigned the answer, or stays the empty string it was made.
GetText ==
  /\ At({"text"})
  /\ \/ Assign(step.f, step.f, "value") /\ UNCHANGED failed
     \/ NotAnswered /\ Assign(step.f, Zero, "value")
  /\ NextStep
  /\ UNCHANGED local

\* An answer that the code has no case for is not stored: one of Data::value
\* that is no number, one of UserType::kind that is none of four kinds.  Without
\* an answer the variable is as it was declared, 0 or what converts to it.
GetCase ==
  /\ At({"maybe"})
  /\ \/ Assign(step.f, step.f, "value") /\ UNCHANGED failed
     \/ UNCHANGED <<row, failed>>
     \/ NotAnswered /\ Assign(step.f, Zero, "value")
  /\ NextStep
  /\ UNCHANGED local

Stale(f) == f \in DOMAIN row /\ row[f].from \notin {f, Zero, Given}

\* One getter of a cascade.  A variable that is off when the getter has no
\* answer decides as the getter's "no" would; one that is on does not.
Test ==
  /\ At({"test"})
  /\ \E v \in {From(step.g, b) : b \in BOOLEAN} \cup {Unanswered} :
       /\ local' = [local EXCEPT !["B"] = v]
       /\ \/ v.from = step.g /\ UNCHANGED failed
          \/ v = Unanswered /\ NotAnswered
       /\ IF Stale(step.f) THEN UNCHANGED row
          ELSE Assign(step.f, IF v.on /\ v.from # step.g THEN v.from ELSE step.f,
                      "value")
       /\ pc' = IF v.on = step.goOn THEN pc + 1 ELSE pc + 1 + step.rest
  /\ UNCHANGED <<make, clears>>

\* The symbol at the address that D holds, be it the target's or not; a symbol
\* without an id leaves the address in D.
LookupTarget ==
  /\ At({"lookup"})
  /\ \/ /\ Assign(step.f, IF local["D"].from = "target" THEN step.f
                          ELSE local["D"].from, "value")
        /\ UNCHANGED failed
     \/ /\ NotAnswered
        /\ \/ UNCHANGED row
           \/ Assign(step.f, Unanswered.from, "value")
  /\ NextStep
  /\ UNCHANGED local

Next == \/ Plain \/ GetAndStore \/ GetIfOk \/ GetText \/ GetCase
        \/ Test \/ LookupTarget

Spec == Init /\ [][Next]_vars

-----------------------------------------------------------------------------
(* Properties. *)

\* The constructors that reset a variable before every getter, and those that
\* at least give each variable a value at its declaration.
FreshMakes ==
  {"Block", "Label", "HeapAllocation", "Inlined", "FunctionArg", "Friend",
   "InputAssembly", "SourceFile", "Compiland", "AppendDetails", "Symbol",
   "FunctionType", "SrcRange", "Callsite", "CompilandEnv", "InjectedSource",
   "VTablePtr"}
InitialisingMakes ==
  FreshMakes \cup {"SectionContrib", "Segment", "Export", "PublicSymbol",
                   "UserType", "Frame"}

GetterOps == {"take", "fresh", "ifok", "text", "maybe", "test", "lookup"}

Asked == {Constructor[make][i].f : i \in
            {j \in 1..(pc - 1) : Constructor[make][j].op \in GetterOps}}

AllFields == UNION {{Constructor[m][i].f : i \in 1..Len(Constructor[m])} : m \in Makes}
AllGetters == UNION {{Constructor[m][i].g : i \in
                {j \in 1..Len(Constructor[m]) : Constructor[m][j].op = "test"}} :
                  m \in Makes}
Sources == AllFields \cup AllGetters \cup {Zero, Given, Junk}

\* Type correctness of a row, of the local variables and of the position.
TypeOK ==
  /\ make \in Makes
  /\ clears \in BOOLEAN
  /\ pc \in 1..(Len(Constructor[make]) + 1)
  /\ local \in [Locals -> [from : Sources, on : BOOLEAN]]
  /\ \A f \in DOMAIN row :
       row[f].from \in Sources /\ row[f].as \in {"value", "flag", "not"}
  /\ failed \subseteq AllFields

\* A field whose getter answered holds this answer, whatever getters before and
\* after it did not: a failure damages its own field only.  A thunk's target
\* symbol is found by the target's address and needs that answer as well.
AnswersReachTheirField ==
  \A f \in (Asked \ failed) \cap DOMAIN row :
    row[f].from # f => f = "target_symbol" /\ "target" \in failed

\* The rows of these tables never hold the answer to another question nor a
\* value that was never initialised, even if a getter leaves its argument alone.
FreshRows ==
  make \in FreshMakes => \A f \in DOMAIN row : row[f].from \in {f, Zero, Given}

\* The rows of these may hold the answer to another question, but no value that
\* was never initialised.
NoJunk ==
  make \in InitialisingMakes => \A f \in DOMAIN row : row[f].from # Junk

\* If a getter clears its argument when it has no answer, reusing a variable is
\* harmless: every field is its own answer or zero.
OwnOrZero == clears => \A f \in DOMAIN row : row[f].from \in {f, Zero, Given}

\* Where the values of a row may come from, by the care its constructor takes.
ValuesOfKnownOrigin == FreshRows /\ NoJunk /\ OwnOrZero

KnownGaps(m) ==
  CASE m = "Enum"      -> {"type_symbol", "unmodified_type_symbol"}
    [] m = "Function"  -> {"exceptions"}
    [] m = "VTablePtr" -> {"offset"}
    [] m = "Data"      -> {"value"}
    [] m = "UserType"  -> {"kind"}
    [] OTHER           -> {}

\* Every column that the writers print was assigned by the constructor, but for
\* the gaps above: no writer reads a field that was never written.
NoOtherGaps == done => (Columns(make) \ DOMAIN row) \subseteq KnownGaps(make)

\* "*symbols* table entry for the underlying type" (PDBReflection.inl, of an
\* enum) and the like: every described column is assigned.
EveryColumnAssigned == done => Columns(make) \subseteq DOMAIN row

\* "Length of the section contribution", "Stack ordering could not be done for
\* /GS" (PDBReflection.inl): a column declared as a number is given the number
\* and not its truth value, and one described like DIA's flag has its sense.
StoredAsDescribed ==
  /\ \A f \in DOMAIN row \cap Numbers : row[f].as = "value"
  /\ "stack_ordering" \in DOMAIN row => row["stack_ordering"].as = "flag"

-----------------------------------------------------------------------------
(* What the constructors have in common: the order of their steps, on which *)
(* the properties rest.                                                      *)

Positions(m) == 1..Len(Constructor[m])
Op(m, i)     == Constructor[m][i].op
Var(m, i)    == Constructor[m][i].v
Col(m, i)    == Constructor[m][i].f

Ops     == GetterOps \cup {"given", "zero", "clear"}
SureOps == {"given", "zero", "take", "fresh", "text", "test"}

\* Each step is of a known kind and asks for a variable of its kind.
StepsKnown(m) ==
  /\ Len(Constructor[m]) \in Nat
  /\ \A i \in Positions(m) :
       /\ Op(m, i) \in Ops /\ Var(m, i) \in Locals /\ Col(m, i) # Junk
       /\ Constructor[m][i].as \in {"value", "flag", "not"}
       /\ Op(m, i) = "clear" => Var(m, i) # "own"
       /\ Op(m, i) \in {"ifok", "lookup"} => Var(m, i) = "D"

\* A cascade is a run of tests for one and the same field.
CascadesWhole(m) ==
  \A i \in Positions(m) : Op(m, i) = "test" =>
    LET s == Constructor[m][i]
    IN /\ s.v = "B" /\ s.goOn \in BOOLEAN /\ s.g # Junk /\ s.f # "target_symbol"
       /\ s.rest \in Nat /\ i + s.rest <= Len(Constructor[m])
       /\ \A j \in (i + 1)..(i + s.rest) : Op(m, j) = "test" /\ Col(m, j) = s.f

\* A default is assigned before the field's getter is called, and a field that
\* may be left alone has none.
DefaultsFirst(m) ==
  \A i, j \in Positions(m) : i < j /\ Col(m, i) = Col(m, j) =>
    /\ Op(m, i) \in GetterOps => Op(m, j) \notin {"given", "zero"}
    /\ Op(m, j) # "maybe"
NoMemset(m) ==
  m \in {"Compiland", "AppendDetails"} =>
    \A i \in Positions(m) : Op(m, i) # "maybe"

\* D still holds the target's address when the symbol there is looked up.
LookupsFollow(m) ==
  \A i \in Positions(m) : Op(m, i) = "lookup" =>
    /\ Col(m, i) = "target_symbol" /\ i > 2
    /\ Op(m, i - 1) = "zero"
    /\ Op(m, i - 2) = "take" /\ Var(m, i - 2) = "D" /\ Col(m, i - 2) = "target"

\* A variable was cleared and not been used since; it was ever reset.
Cleared(m, v, i) ==
  \E j \in 1..(i - 1) :
    /\ Op(m, j) = "clear" /\ Var(m, j) = v
    /\ \A k \in (j + 1)..(i - 1) : Op(m, k) \notin GetterOps \/ Var(m, k) # v
Reset(m, v, i) ==
  \E j \in 1..(i - 1) : Op(m, j) \in {"clear", "fresh"} /\ Var(m, j) = v

EveryGetterFresh(m) ==
  \A i \in Positions(m) : Op(m, i) \in GetterOps \ {"text", "fresh"} =>
    Op(m, i) = "take" /\ Var(m, i) # "own" /\ Cleared(m, Var(m, i), i)
EveryVariableReset(m) ==
  \A i \in Positions(m) : Op(m, i) \in GetterOps \ {"text", "fresh", "maybe"} =>
    Var(m, i) # "own" /\ Reset(m, Var(m, i), i)

Disciplined(m) ==
  /\ StepsKnown(m) /\ CascadesWhole(m) /\ DefaultsFirst(m) /\ NoMemset(m)
  /\ LookupsFollow(m)
  /\ m \in FreshMakes => EveryGetterFresh(m)
  /\ m \in InitialisingMakes => EveryVariableReset(m)

ASSUME ConstructorsAssumption == \A m \in Makes : Disciplined(m)
=============================================================================
