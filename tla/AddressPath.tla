----------------------------- MODULE AddressPath -----------------------------
(***************************************************************************)
(* The NMOS core with its addresses: what each handler puts on the address *)
(* bus, and what it makes of the byte that comes back, in PC, S and the    *)
(* two latches.  A branch taken across a page and an index that carries,   *)
(* free choices in Microcode, are decided here by the bytes.               *)
(*                                                                         *)
(* Operand values, A and the flags stay abstract.  X and Y are what other  *)
(* instructions have left in them.  The interrupt lines are at rest.       *)
(***************************************************************************)
EXTENDS BusTrace

CONSTANTS
  Bytes,     \* what memory answers
  Indexes,   \* what X and Y may hold
  Contexts   \* what a host may load: [PC, S, P, latch_addr, latch_data]

VARIABLES
  PC, S, latch_addr,
  data,      \* qe6502_t.latch_data
  index,     \* X or Y, whichever the opcode reads
  address,   \* the address of the request returned last
  memory,    \* history: the bytes the core has made use of, by address
  written,   \* history: what the instruction has written, by address
  origin     \* history: PC and S when the opcode was fetched

path == <<PC, S, latch_addr, data, index, address, memory, written, origin>>

pathVars == <<tracedVars, path>>

Byte == 0 .. 255
Address == 0 .. 65535

ASSUME BytesAssumption == Bytes \subseteq Byte /\ Indexes \subseteq Byte

ASSUME ContextsAssumption ==
  Contexts \subseteq [ PC : Address, S : Byte, P : SUBSET Flags, latch_addr : Address,
                       latch_data : Byte ]

-----------------------------------------------------------------------------
(* Words of sixteen bits and their bytes.                                  *)
Word(high, low) == 256 * high + low
Low(word) == word % 256
High(word) == word \div 256
WithLow(word, byte) == Word(High(word), byte)
WithHigh(word, byte) == Word(byte, Low(word))
Plus(word, n) == (word + n) % 65536
Signed(byte) == IF byte < 128 THEN byte ELSE byte - 256

(* The next byte with no carry into the page: pointers in the zero page,   *)
(* and the pointer of JMP (), stay in theirs.                              *)
NextInPage(word) == WithLow(word, (Low(word) + 1) % 256)

Stack(s) == Word(1, s)

(* Mutants: a stack pointer wider than a byte.                             *)
DownWithoutWrap(s) == s - 1
UpWithoutWrap(s) == s + 1

Down(s) == (s + 255) % 256
Up(s) == (s + 1) % 256

-----------------------------------------------------------------------------
(* The handlers of each class of opcodes, by their names in qe6502.c less  *)
(* mc_, _prefetch and the register; op_* handlers by what they do here.    *)
ReadPath(cycles) == cycles \o <<"fetch">>

(* Mutant: the high byte of the latch is not cleared.                      *)
ZeroPageIndexedUncleared == <<"read_pc_inc", "zpx_idx">>

ZeroPageIndexed == <<"clear_latch_addr_read_pc_inc", "zpx_idx">>
AbsoluteIndexed == <<"read_pc_inc", "latch_abx_base_read_pc_inc">>
Modify == <<"latch_data_write_latch_addr", "write_latch_addr">>

Path ==
  [ acc     |-> ReadPath(<<"read_pc">>),
    txs     |-> ReadPath(<<"txs">>),
    branch  |-> ReadPath(<<"branch_offset", "branch_apply", "branch_pgfix">>),
    pull    |-> ReadPath(<<"read_pc", "read_stack_current_s", "stack_pull_read">>),
    push    |-> ReadPath(<<"read_pc", "stack_push">>),
    r_imm   |-> ReadPath(<<"read_pc_inc">>),
    r_zp    |-> ReadPath(<<"read_pc_inc", "zp_data">>),
    r_zpx   |-> ReadPath(ZeroPageIndexed \o <<"read_latch_addr">>),
    r_abs   |-> ReadPath(<<"read_pc_inc", "latch_addr0_read_pc_inc",
                           "read_addr_with_bus_hi">>),
    r_abx   |-> ReadPath(AbsoluteIndexed \o <<"r_indexed_probe", "read_latch_addr">>),
    r_izx   |-> ReadPath(<<"clear_latch_addr_read_pc_inc", "izx_idx", "read_ptrlo_inc_ptr",
                           "latch_data_read_latch_addr", "izx_data">>),
    r_izy   |-> ReadPath(<<"clear_latch_addr_read_pc_inc", "latch_addr0_read_latch_addr",
                           "r_izy_ptrhi", "r_indexed_probe", "read_latch_addr">>),
    w_zp    |-> ReadPath(<<"read_pc_inc", "write_zp">>),
    w_zpx   |-> ReadPath(<<"read_pc_inc", "read_zp_latch_x", "write_latch_addr">>),
    w_abs   |-> ReadPath(<<"read_pc_inc", "latch_addr0_read_pc_inc",
                           "write_addr_with_bus_hi">>),
    w_abx   |-> ReadPath(AbsoluteIndexed \o <<"w_indexed_probe", "write_latch_addr">>),
    w_izx   |-> ReadPath(<<"read_pc_inc", "read_zp_latch_x", "read_ptrlo_inc_ptr",
                           "w_izx_ptrhi", "write_addr_with_bus_hi">>),
    w_izy   |-> ReadPath(<<"read_pc_inc", "latch_zp_addr_read_latch_addr",
                           "w_izy_ptrhi", "w_indexed_probe", "write_latch_addr">>),
    rw_zp   |-> ReadPath(<<"clear_latch_addr_read_pc_inc",
                           "latch_addr0_read_latch_addr">> \o Modify),
    rw_zpx  |-> ReadPath(ZeroPageIndexed \o <<"read_latch_addr">> \o Modify),
    rw_abs  |-> ReadPath(<<"read_pc_inc", "latch_addr0_read_pc_inc",
                           "latch_addr1_read_latch_addr">> \o Modify),
    rw_abx  |-> ReadPath(AbsoluteIndexed \o <<"w_indexed_probe", "read_latch_addr">>
                           \o Modify),
    jmp     |-> <<"read_pc_inc", "latch_addr0_read_pc_inc", "latch_addr1_set_pc_fetch">>,
    jmp_ind |-> <<"read_pc_inc", "latch_addr0_read_pc_inc", "jmp_ind_target_lo",
                  "latch_data_read_latch_addr", "jmp_ind_fetch">>,
    jsr     |-> <<"read_pc_inc", "jsr_dummy", "push_pc_high", "push_pc_low", "read_pc",
                  "latch_addr1_set_pc_fetch">>,
    rts     |-> ReadPath(<<"read_pc", "read_stack_current_s", "stack_pull_read",
                           "latch_pcl_stack_read", "rts_inc_pc">>),
    rti     |-> <<"read_pc", "read_stack_current_s", "stack_pull_read", "stack_pull_read",
                  "latch_pcl_stack_read", "latch_pch_fetch">>,
    brk     |-> <<"read_pc_inc", "push_pc_high", "push_pc_low", "stack_push", "read_fffe",
                  "brk_vec_hi", "latch_pch_fetch">> ]

ServicePath(slot) ==
  CASE slot = SlotGoto -> <<"fetch">>
    [] slot = SlotInternalReset -> <<"internal_reset">>
    [] slot = SlotReset0 -> <<"reset_pc", "reset_pc", "read_pc", "reset_stack_read",
                              "reset_stack_read", "reset_stack_read", "reset_vec_lo",
                              "reset_vec_hi">>
    [] slot = SlotReset1 -> <<"latch_pch_fetch">>

(* Classes that are apart here and one in the control store.               *)
PathClass(opcode) ==
  LET class == NmosMatrix[(opcode \div 16) + 1][(opcode % 16) + 1]
  IN  CASE opcode = 154 -> "txs"
        [] opcode = 145 -> "w_izy"
        [] class \in {"cli", "sei", "cld", "sed"} -> "acc"
        [] class = "plp" -> "pull"
        [] OTHER -> class

HandlerAt(at) ==
  (IF SlotOf(at) \in OpcodeSlots THEN Path[PathClass(SlotOf(at))]
                                 ELSE ServicePath(SlotOf(at)))[(at % MicrocodePerSlot) + 1]

(* The opcodes with a path: those the NMOS data book documents.            *)
ASSUME PathsAssumption ==
  /\ Model \in {"nmos", "nes"}
  /\ \A opcode \in Opcodes : PathClass(opcode) \in DOMAIN Path

Indexed(opcode) ==
  PathClass(opcode) \in { "r_zpx", "r_abx", "r_izx", "r_izy", "w_zpx", "w_abx", "w_izx",
                          "w_izy", "rw_zpx", "rw_abx", "txs" }

-----------------------------------------------------------------------------
(* Handlers that do not look at the byte on the bus.                       *)
IgnoresBus ==
  { "read_pc", "read_pc_inc", "clear_latch_addr_read_pc_inc", "fetch", "txs",
    "read_latch_addr", "write_latch_addr", "read_ptrlo_inc_ptr", "branch_offset",
    "branch_pgfix", "stack_push", "push_pc_high", "push_pc_low", "stack_pull_read",
    "read_stack_current_s", "reset_stack_read", "read_fffe", "reset_vec_lo" }

(* Handlers that answer with a stack write.                                *)
PushHandlers == {"stack_push", "push_pc_high", "push_pc_low"}

(* stack_read(): the pointer is moved before the access.                   *)
PullHandlers == {"stack_pull_read", "latch_pcl_stack_read"}

WriteHandlers ==
  PushHandlers \cup { "write_zp", "write_latch_addr", "write_addr_with_bus_hi",
                      "latch_data_write_latch_addr" }

(* What memory may answer to the request before handler h: what it has     *)
(* answered before.  The reset reads wherever PC happens to point.         *)
Answers(h) ==
  IF h \in IgnoresBus THEN {0}
  ELSE IF address \in DOMAIN memory /\ h \notin {"internal_reset", "reset_pc"}
       THEN {memory[address]}
       ELSE Bytes

(* Mutant: a branch leaves the page when the unsigned sum carries.         *)
CrossesUnsigned(h, b, pc) ==
  IF h = "branch_apply" THEN Low(pc) + b > 255 ELSE data # 0

(* Does the branch or the index leave the page?                            *)
Crosses(h, b, pc) ==
  IF h = "branch_apply" THEN High(Plus(pc, Signed(b))) # High(pc) ELSE data # 0

(* PC after handler h found it at pc and the byte b on the bus.            *)
PCAfter(h, b, pc) ==
  CASE h \in { "read_pc_inc", "clear_latch_addr_read_pc_inc", "latch_addr0_read_pc_inc",
               "latch_abx_base_read_pc_inc", "branch_offset" } -> Plus(pc, 1)
    [] h = "branch_apply" -> WithLow(pc, Low(Plus(pc, Signed(b))))
    [] h = "branch_pgfix" -> latch_addr
    [] h \in {"latch_pcl_stack_read", "brk_vec_hi", "reset_vec_hi"} -> WithLow(pc, b)
    [] h = "latch_pch_fetch" -> WithHigh(pc, b)
    [] h = "rts_inc_pc" -> Plus(WithHigh(pc, b), 1)
    [] h = "latch_addr1_set_pc_fetch" -> WithHigh(latch_addr, b)
    [] h = "jmp_ind_fetch" -> Word(b, data)
    [] h \in {"internal_reset", "reset_pc"} -> Word(b, Down(High(pc)))
    [] OTHER -> pc

SAfter(h) ==
  CASE h \in PushHandlers \cup {"reset_stack_read"} -> Down(S)
    [] h \in PullHandlers -> Up(S)
    [] h = "txs" -> index'
    [] OTHER -> S

LatchAddrAfter(h, b, pc) ==
  CASE h = "clear_latch_addr_read_pc_inc" -> 0
    [] h = "latch_zp_addr_read_latch_addr" -> b
    [] h \in { "latch_abx_base_read_pc_inc", "r_izy_ptrhi", "w_izy_ptrhi",
               "read_zp_latch_x" } -> Low(b + index)
    [] h \in {"zpx_idx", "izx_idx"} -> WithLow(latch_addr, Low(b + index))
    [] h \in { "latch_addr0_read_pc_inc", "latch_addr0_read_latch_addr", "jsr_dummy",
               "w_izx_ptrhi" } -> WithLow(latch_addr, b)
    [] h \in {"latch_addr1_read_latch_addr", "latch_addr1_set_pc_fetch"} ->
         WithHigh(latch_addr, b)
    [] h = "read_ptrlo_inc_ptr" -> NextInPage(latch_addr)
    [] h = "jmp_ind_target_lo" -> NextInPage(WithHigh(latch_addr, b))
    [] h = "w_indexed_probe" \/ (h = "r_indexed_probe" /\ data # 0) ->
         WithHigh(latch_addr, Low(b + data))
    [] h = "branch_apply" /\ Crosses(h, b, pc) -> Plus(pc, Signed(b))
    [] OTHER -> latch_addr

DataAfter(h, b) ==
  CASE h \in {"latch_abx_base_read_pc_inc", "r_izy_ptrhi", "w_izy_ptrhi"} ->
         High(b + index)
    [] h \in {"latch_data_write_latch_addr", "latch_data_read_latch_addr"} -> b
    [] h = "internal_reset" -> (data + 1) % 256
    [] OTHER -> data

(* The address of the request; a request at PC is made after PC has been   *)
(* set, and before it is counted on.                                       *)
AddressAfter(h, b, pc) ==
  CASE h \in { "fetch", "latch_pch_fetch", "latch_addr1_set_pc_fetch", "jmp_ind_fetch",
               "internal_reset", "reset_pc" } -> PC'
    [] h \in { "read_pc", "txs", "read_pc_inc", "clear_latch_addr_read_pc_inc",
               "latch_addr0_read_pc_inc", "latch_abx_base_read_pc_inc", "branch_offset",
               "branch_apply", "branch_pgfix" } -> pc
    [] h = "rts_inc_pc" -> WithHigh(pc, b)
    [] h \in {"zp_data", "write_zp", "read_zp_latch_x"} -> b
    [] h \in {"zpx_idx", "izx_idx"} -> WithLow(latch_addr, b)
    [] h \in { "read_addr_with_bus_hi", "write_addr_with_bus_hi", "r_indexed_probe",
               "w_indexed_probe", "jmp_ind_target_lo" } -> WithHigh(latch_addr, b)
    [] h = "izx_data" -> Word(b, data)
    [] h = "r_izy_ptrhi" -> NextInPage(latch_addr)
    [] h = "w_izy_ptrhi" -> NextInPage(Low(latch_addr))
    [] h \in {"w_izx_ptrhi", "read_ptrlo_inc_ptr"} -> latch_addr
    [] h \in PushHandlers \cup {"read_stack_current_s", "reset_stack_read", "jsr_dummy"} ->
         Stack(S)
    [] h \in PullHandlers -> Stack(S')
    [] h = "reset_vec_lo" -> 65532
    [] h = "reset_vec_hi" -> 65533
    [] h = "read_fffe" -> 65534
    [] h = "brk_vec_hi" -> 65535
    [] OTHER -> LatchAddrAfter(h, b, pc)

(* What is written, where it matters what: PC's bytes.                     *)
Written(h, pc) ==
  CASE h = "push_pc_high" -> High(pc)
    [] h = "push_pc_low" -> Low(pc)
    [] OTHER -> "data"

-----------------------------------------------------------------------------
(* The handler at `at' runs with PC at pc; the cursor skips the fix-up     *)
(* cycle if no page is crossed.                                            *)
Move(at, pc) ==
  LET h == HandlerAt(at)
  IN  \E b \in Answers(h) :
        /\ PC' = PCAfter(h, b, pc)
        /\ S' = SAfter(h)
        /\ latch_addr' = LatchAddrAfter(h, b, pc)
        /\ data' = DataAfter(h, b)
        /\ address' = AddressAfter(h, b, pc)
        /\ memory' = IF h \in IgnoresBus \cup {"internal_reset", "reset_pc"} THEN memory
                     ELSE (address :> b) @@ memory
        /\ written' = IF h \in WriteHandlers
                      THEN (address' :> Written(h, pc)) @@ written
                      ELSE written
        /\ OpAt(at) \in ProbeOps \cup {"branch_apply"} =>
             microcode' = at + 1 + Ahead(OpAt(at), P, IF Crosses(h, b, pc) THEN {"crossed"}
                                                                          ELSE {})

(* A tick within an instruction or the reset.                              *)
PathTick ==
  /\ OpAt(microcode) # "dispatch"
  /\ Tick
  /\ Record
  /\ UNCHANGED <<index, origin>>
  /\ Move(microcode, PC)

(* A tick that dispatches the first opcode after qe6502_goto(); programs   *)
(* of several instructions are as many starts.                             *)
PathDispatch ==
  /\ OpAt(microcode) = "dispatch"
  /\ SlotOf(microcode) = SlotGoto
  /\ Tick
  /\ Record
  /\ UNCHANGED origin
  /\ index' \in IF Indexed(SlotOf(microcode')) THEN Indexes ELSE {0}
  /\ Move(Index(SlotOf(microcode'), 0), Plus(PC, 1))

(* Between two instructions the host loads a context, in which other       *)
(* instructions have left their traces, and goes to an address.            *)
PathGoto ==
  /\ OpAt(microcode) \in {"dispatch", "internal_reset"}
  /\ Goto
  /\ Record
  /\ \E context \in Contexts :
       /\ P = context.P
       /\ PC' = context.PC
       /\ S' = context.S
       /\ latch_addr' = context.latch_addr
       /\ data' = context.latch_data
       /\ address' = context.PC
       /\ origin' = [PC |-> context.PC, S |-> context.S]
  /\ index' = 0
  /\ memory' = <<>>
  /\ written' = <<>>

(* qe6502_restart(): all registers get fixed values.                       *)
RestartedPath ==
  [ PC |-> 511, S |-> 192, latch_addr |-> 0, data |-> 0, index |-> 192, address |-> 255,
    memory |-> <<>>, written |-> <<>>, origin |-> [PC |-> 511, S |-> 192] ]

PathRestart ==
  /\ Restart
  /\ Record
  /\ PC' = RestartedPath.PC
  /\ S' = RestartedPath.S
  /\ latch_addr' = RestartedPath.latch_addr
  /\ data' = RestartedPath.data
  /\ index' = RestartedPath.index
  /\ address' = RestartedPath.address
  /\ memory' = RestartedPath.memory
  /\ written' = RestartedPath.written
  /\ origin' = RestartedPath.origin

PathInit ==
  /\ TracedInit
  /\ PC = RestartedPath.PC
  /\ S = RestartedPath.S
  /\ latch_addr = RestartedPath.latch_addr
  /\ data = RestartedPath.data
  /\ index = RestartedPath.index
  /\ address = RestartedPath.address
  /\ memory = RestartedPath.memory
  /\ written = RestartedPath.written
  /\ origin = RestartedPath.origin

PathNext == PathTick \/ PathDispatch \/ PathGoto \/ PathRestart

PathSpec == PathInit /\ [][PathNext]_pathVars
=============================================================================
