---------------------------- MODULE ControlStore ----------------------------
(***************************************************************************)
(* The control store of the qe6502 core: which handlers the microcode runs *)
(* for each opcode and each service, per CPU model                         *)
(* (cpu/src/control_store/*_block.inc).  A handler appears by the name of  *)
(* its micro-operation, see Microcode: handlers that differ only in data   *)
(* share one.  An instruction is a class, as in the comments of the .inc   *)
(* files; a class is a sequence of at most eight micro-operations.         *)
(*                                                                         *)
(* NES is NMOS without the decimal mode, and RW is WDC without WAI and STP *)
(* (which qe6502 runs as NOPs): the sequences are the same.                *)
(***************************************************************************)
EXTENDS Integers, Sequences, TLC

OpcodeSlots == 0..255

SlotIllegalExt    == 257
SlotInternalReset == 258
SlotReset0        == 259
SlotReset1        == 260
SlotGoto          == 261
SlotNmi           == 262
SlotIrq           == 263

ServiceSlots == 257..263

(* Most sequences end by asking for the next opcode and dispatching it.    *)
Opcode(cycles) == cycles \o <<"fetch", "dispatch">>

(* The slots no interrupt sequence uses are alike in all models.           *)
CommonServices(slot) ==
  CASE slot = SlotIllegalExt -> <<"dispatch">>
    [] slot = SlotInternalReset -> <<"internal_reset">>
    [] slot = SlotReset0 -> <<"read", "fake_fetch", "read", "read", "read", "read",
                              "reset_vec_lo", "reset_vec_hi">>
    [] slot = SlotReset1 -> <<"vector_fetch", "dispatch">>
    [] slot = SlotGoto -> Opcode(<<>>)

(* An interrupt sequence, by its status push and its two vector reads.     *)
InterruptSequence(push_p, vec_lo, vec_hi) ==
  << "read", "push_pc_high", "push_pc_low", push_p, vec_lo, vec_hi,
     "vector_fetch", "dispatch" >>

-----------------------------------------------------------------------------
(* NMOS (and NES): the instruction classes, the opcode matrix, a row for   *)
(* each high digit, and the interrupt sequences.                           *)
NmosClass ==
  [ acc      |-> Opcode(<<"read_pf">>),
    branch   |-> Opcode(<<"branch_offset", "branch_apply", "branch_pgfix">>),
    cld      |-> Opcode(<<"cld">>),
    cli      |-> Opcode(<<"cli">>),
    pull     |-> Opcode(<<"read", "read", "pull_pf">>),
    push     |-> Opcode(<<"read", "push_pf">>),
    r_abs    |-> Opcode(<<"read_inc", "read_inc", "read_pf">>),
    r_abx    |-> Opcode(<<"read_inc", "read_inc", "probe", "read_pf">>),
    r_imm    |-> Opcode(<<"read_inc_pf">>),
    r_izx    |-> Opcode(<<"read_inc", "read", "read", "read", "read_pf">>),
    r_izy    |-> Opcode(<<"read_inc", "read", "read", "probe", "read_pf">>),
    r_zp     |-> Opcode(<<"read_inc", "read_pf">>),
    r_zpx    |-> Opcode(<<"read_inc", "read", "read_pf">>),
    rts      |-> Opcode(<<"read", "read", "pull", "pull", "jump_pf">>),
    rw_abs   |-> Opcode(<<"read_inc", "read_inc", "read", "write",
                          "write_pf">>),
    rw_abx   |-> Opcode(<<"read_inc", "read_inc", "read", "read", "write",
                          "write_pf">>),
    rw_zp    |-> Opcode(<<"read_inc", "read", "write", "write_pf">>),
    rw_zpx   |-> Opcode(<<"read_inc", "read", "read", "write", "write_pf">>),
    sed      |-> Opcode(<<"sed">>),
    sei      |-> Opcode(<<"sei">>),
    w_abs    |-> Opcode(<<"read_inc", "read_inc", "write_pf">>),
    w_abx    |-> Opcode(<<"read_inc", "read_inc", "read", "write_pf">>),
    w_izx    |-> Opcode(<<"read_inc", "read", "read", "read", "write_pf">>),
    w_zp     |-> Opcode(<<"read_inc", "write_pf">>),
    w_zpx    |-> Opcode(<<"read_inc", "read", "write_pf">>),
    brk      |-> <<"read_inc", "push_pc_high", "push_pc_low", "push_status_b",
                   "read_fffe", "brk_vec_hi", "vector_fetch", "dispatch">>,
    jmp      |-> <<"read_inc", "read_inc_pf", "jump_fetch", "dispatch">>,
    jmp_ind  |-> <<"read_inc", "read_inc", "read", "read_pf", "jump_fetch",
                   "dispatch">>,
    jsr      |-> <<"read_inc", "read", "push_pc_high", "push_pc_low",
                   "read_pf", "jump_fetch", "dispatch">>,
    kil_jam  |-> <<"read", "read_ffff", "read_fffe", "read_fffe", "kil_jam">>,
    plp      |-> <<"read", "read", "pull_pf", "plp_fetch", "dispatch">>,
    rti      |-> <<"read", "read", "pull", "pull_status", "pull_pf",
                   "jump_fetch", "dispatch">>,
    rw_izx   |-> <<"read_inc", "read", "read", "read", "read", "write",
                   "write_pf", "fetch_ext">> ]

NmosServices(slot) ==
  CASE slot = SlotNmi -> InterruptSequence("nmi_push_p", "nmi_vec_lo", "nmi_vec_hi")
    [] slot = SlotIrq -> InterruptSequence("irq_push_p", "irq_vec_lo", "irq_vec_hi")
    [] OTHER -> CommonServices(slot)

Nmos0 ==
  << "brk", "r_izx", "kil_jam", "rw_izx", "r_zp", "r_zp", "rw_zp", "rw_zp",
     "push", "r_imm", "acc", "r_imm", "r_abs", "r_abs", "rw_abs", "rw_abs" >>
Nmos1 ==
  << "branch", "r_izy", "kil_jam", "rw_izx", "r_zpx", "r_zpx", "rw_zpx", "rw_zpx",
     "acc", "r_abx", "acc", "rw_abx", "r_abx", "r_abx", "rw_abx", "rw_abx" >>
Nmos2 ==
  << "jsr", "r_izx", "kil_jam", "rw_izx", "r_zp", "r_zp", "rw_zp", "rw_zp",
     "plp", "r_imm", "acc", "r_imm", "r_abs", "r_abs", "rw_abs", "rw_abs" >>
Nmos3 ==
  << "branch", "r_izy", "kil_jam", "rw_izx", "r_zpx", "r_zpx", "rw_zpx", "rw_zpx",
     "acc", "r_abx", "acc", "rw_abx", "r_abx", "r_abx", "rw_abx", "rw_abx" >>
Nmos4 ==
  << "rti", "r_izx", "kil_jam", "rw_izx", "r_zp", "r_zp", "rw_zp", "rw_zp",
     "push", "r_imm", "acc", "r_imm", "jmp", "r_abs", "rw_abs", "rw_abs" >>
Nmos5 ==
  << "branch", "r_izy", "kil_jam", "rw_izx", "r_zpx", "r_zpx", "rw_zpx", "rw_zpx",
     "cli", "r_abx", "acc", "rw_abx", "r_abx", "r_abx", "rw_abx", "rw_abx" >>
Nmos6 ==
  << "rts", "r_izx", "kil_jam", "rw_izx", "r_zp", "r_zp", "rw_zp", "rw_zp",
     "pull", "r_imm", "acc", "r_imm", "jmp_ind", "r_abs", "rw_abs", "rw_abs" >>
Nmos7 ==
  << "branch", "r_izy", "kil_jam", "rw_izx", "r_zpx", "r_zpx", "rw_zpx", "rw_zpx",
     "sei", "r_abx", "acc", "rw_abx", "r_abx", "r_abx", "rw_abx", "rw_abx" >>
Nmos8 ==
  << "r_imm", "w_izx", "r_imm", "w_izx", "w_zp", "w_zp", "w_zp", "w_zp",
     "acc", "r_imm", "acc", "r_imm", "w_abs", "w_abs", "w_abs", "w_abs" >>
Nmos9 ==
  << "branch", "w_izx", "kil_jam", "w_izx", "w_zpx", "w_zpx", "w_zpx", "w_zpx",
     "acc", "w_abx", "acc", "w_abx", "w_abx", "w_abx", "w_abx", "w_abx" >>
NmosA ==
  << "r_imm", "r_izx", "r_imm", "r_izx", "r_zp", "r_zp", "r_zp", "r_zp",
     "acc", "r_imm", "acc", "r_imm", "r_abs", "r_abs", "r_abs", "r_abs" >>
NmosB ==
  << "branch", "r_izy", "kil_jam", "r_izy", "r_zpx", "r_zpx", "r_zpx", "r_zpx",
     "acc", "r_abx", "acc", "r_abx", "r_abx", "r_abx", "r_abx", "r_abx" >>
NmosC ==
  << "r_imm", "r_izx", "r_imm", "rw_izx", "r_zp", "r_zp", "rw_zp", "rw_zp",
     "acc", "r_imm", "acc", "r_imm", "r_abs", "r_abs", "rw_abs", "rw_abs" >>
NmosD ==
  << "branch", "r_izy", "kil_jam", "rw_izx", "r_zpx", "r_zpx", "rw_zpx", "rw_zpx",
     "cld", "r_abx", "acc", "rw_abx", "r_abx", "r_abx", "rw_abx", "rw_abx" >>
NmosE ==
  << "r_imm", "r_izx", "r_imm", "rw_izx", "r_zp", "r_zp", "rw_zp", "rw_zp",
     "acc", "r_imm", "acc", "r_imm", "r_abs", "r_abs", "rw_abs", "rw_abs" >>
NmosF ==
  << "branch", "r_izy", "kil_jam", "rw_izx", "r_zpx", "r_zpx", "rw_zpx", "rw_zpx",
     "sed", "r_abx", "acc", "rw_abx", "r_abx", "r_abx", "rw_abx", "rw_abx" >>

NmosMatrix ==
  << Nmos0, Nmos1, Nmos2, Nmos3, Nmos4, Nmos5, Nmos6, Nmos7,
     Nmos8, Nmos9, NmosA, NmosB, NmosC, NmosD, NmosE, NmosF >>

(* The whole store of a model; NmosStore is what Store is for NMOS.        *)
NmosStore ==
  [ slot \in OpcodeSlots |->
      NmosClass[NmosMatrix[(slot \div 16) + 1][(slot % 16) + 1]] ]
  @@ [ slot \in ServiceSlots |-> NmosServices(slot) ]

-----------------------------------------------------------------------------
(* CMOS: WDC, and RW with the same sequences.                              *)
CmosClass ==
  [ acc      |-> Opcode(<<"read_pf">>),
    bbr      |-> Opcode(<<"read_inc", "read", "read", "branch_offset",
                          "branch_apply", "branch_pgfix">>),
    bra      |-> Opcode(<<"bra_offset", "branch_apply", "branch_pgfix">>),
    branch   |-> Opcode(<<"branch_offset", "branch_apply", "branch_pgfix">>),
    cld      |-> Opcode(<<"cld">>),
    cli      |-> Opcode(<<"cli">>),
    d_abs    |-> Opcode(<<"read_inc", "read_inc", "read_pf_binary",
                          "adc_or_dummy">>),
    d_abx    |-> Opcode(<<"read_inc", "read", "cmos_decimal_probe",
                          "read_pf_binary", "adc_or_dummy">>),
    d_imm    |-> Opcode(<<"read_inc_pf_binary", "adc_or_dummy">>),
    d_izp    |-> Opcode(<<"read_inc", "read", "read", "read_pf_binary",
                          "adc_or_dummy">>),
    d_izx    |-> Opcode(<<"read_inc", "read", "read", "read",
                          "read_pf_binary", "adc_or_dummy">>),
    d_izy    |-> Opcode(<<"read", "read", "read", "cmos_decimal_probe",
                          "read_pf_binary", "adc_or_dummy">>),
    d_zp     |-> Opcode(<<"read_inc", "read_pf_binary", "adc_or_dummy">>),
    d_zpx    |-> Opcode(<<"read_inc", "read", "read_pf_binary",
                          "adc_or_dummy">>),
    inc_abx  |-> Opcode(<<"read_inc", "read", "read_inc", "read", "read",
                          "write_pf">>),
    nop_1c   |-> Opcode(<<>>),
    nop_4c   |-> Opcode(<<"read_inc", "read", "read_inc_pf">>),
    pull     |-> Opcode(<<"read", "read", "pull_pf">>),
    push     |-> Opcode(<<"read", "push_pf">>),
    r_abs    |-> Opcode(<<"read_inc", "read_inc", "read_pf">>),
    r_abx    |-> Opcode(<<"read_inc", "read", "cmos_probe", "read_pf">>),
    r_imm    |-> Opcode(<<"read_inc_pf">>),
    r_izp    |-> Opcode(<<"read_inc", "read", "read", "read_pf">>),
    r_izx    |-> Opcode(<<"read_inc", "read", "read", "read", "read_pf">>),
    r_izy    |-> Opcode(<<"read", "read", "read", "cmos_probe", "read_pf">>),
    r_zp     |-> Opcode(<<"read_inc", "read_pf">>),
    r_zpx    |-> Opcode(<<"read_inc", "read", "read_pf">>),
    rts      |-> Opcode(<<"read", "read", "pull", "pull", "jump_pf">>),
    rw_abs   |-> Opcode(<<"read_inc", "read_inc", "read", "read",
                          "write_pf">>),
    rw_abx   |-> Opcode(<<"read_inc", "read", "cmos_rmw_probe", "read",
                          "read", "write_pf">>),
    rw_zp    |-> Opcode(<<"read_inc", "read", "read", "write_pf">>),
    rw_zpx   |-> Opcode(<<"read_inc", "read", "read", "read", "write_pf">>),
    sed      |-> Opcode(<<"sed">>),
    sei      |-> Opcode(<<"sei">>),
    st_nop_abs |-> Opcode(<<"read_inc", "read_inc_pf">>),
    w_abs    |-> Opcode(<<"read_inc", "read_inc", "write_pf">>),
    w_abx    |-> Opcode(<<"read_inc", "read", "read_inc", "write_pf">>),
    w_izp    |-> Opcode(<<"read_inc", "read", "read", "write_pf">>),
    w_izx    |-> Opcode(<<"read_inc", "read", "read", "read", "write_pf">>),
    w_izy    |-> Opcode(<<"read", "read", "read", "read_inc", "write_pf">>),
    w_zp     |-> Opcode(<<"read_inc", "write_pf">>),
    w_zpx    |-> Opcode(<<"read_inc", "read", "write_pf">>),
    brk      |-> <<"read_inc", "push_pc_high", "push_pc_low",
                   "cmos_push_status_b", "read_fffe", "cmos_brk_vec_hi",
                   "vector_fetch", "dispatch">>,
    jmp      |-> <<"read_inc", "read_inc_pf", "jump_fetch", "dispatch">>,
    jmp_ind  |-> <<"read_inc", "read_inc", "read", "read", "read_pf",
                   "jump_fetch", "dispatch">>,
    jsr      |-> <<"read_inc", "read", "push_pc_high", "push_pc_low",
                   "read_pf", "jump_fetch", "dispatch">>,
    plp      |-> <<"read", "read", "pull_pf", "plp_fetch", "dispatch">>,
    rti      |-> <<"read", "read", "pull", "pull_status", "pull_pf",
                   "jump_fetch", "dispatch">> ]

CmosServices(slot) ==
  CASE slot = SlotNmi ->
         InterruptSequence("cmos_nmi_push_p", "nmi_vec_lo", "cmos_nmi_vec_hi")
    [] slot = SlotIrq ->
         InterruptSequence("cmos_irq_push_p", "irq_vec_lo", "cmos_irq_vec_hi")
    [] OTHER -> CommonServices(slot)

Wdc0 ==
  << "brk", "r_izx", "r_imm", "nop_1c", "rw_zp", "r_zp", "rw_zp", "rw_zp",
     "push", "r_imm", "acc", "nop_1c", "rw_abs", "r_abs", "rw_abs", "bbr" >>
Wdc1 ==
  << "branch", "r_izy", "r_izp", "nop_1c", "rw_zp", "r_zpx", "rw_zpx", "rw_zp",
     "acc", "r_abx", "acc", "nop_1c", "rw_abs", "r_abx", "rw_abx", "bbr" >>
Wdc2 ==
  << "jsr", "r_izx", "r_imm", "nop_1c", "r_zp", "r_zp", "rw_zp", "rw_zp",
     "plp", "r_imm", "acc", "nop_1c", "r_abs", "r_abs", "rw_abs", "bbr" >>
Wdc3 ==
  << "branch", "r_izy", "r_izp", "nop_1c", "r_zpx", "r_zpx", "rw_zpx", "rw_zp",
     "acc", "r_abx", "acc", "nop_1c", "r_abx", "r_abx", "rw_abx", "bbr" >>
Wdc4 ==
  << "rti", "r_izx", "r_imm", "nop_1c", "r_zp", "r_zp", "rw_zp", "rw_zp",
     "push", "r_imm", "acc", "nop_1c", "jmp", "r_abs", "rw_abs", "bbr" >>
Wdc5 ==
  << "branch", "r_izy", "r_izp", "nop_1c", "r_zpx", "r_zpx", "rw_zpx", "rw_zp",
     "cli", "r_abx", "push", "nop_1c", "nop_4c", "r_abx", "rw_abx", "bbr" >>
Wdc6 ==
  << "rts", "d_izx", "r_imm", "nop_1c", "w_zp", "d_zp", "rw_zp", "rw_zp",
     "pull", "d_imm", "acc", "nop_1c", "jmp_ind", "d_abs", "rw_abs", "bbr" >>
Wdc7 ==
  << "branch", "d_izy", "d_izp", "nop_1c", "w_zpx", "d_zpx", "rw_zpx", "rw_zp",
     "sei", "d_abx", "pull", "nop_1c", "jmp_ind", "d_abx", "rw_abx", "bbr" >>
Wdc8 ==
  << "bra", "w_izx", "r_imm", "nop_1c", "w_zp", "w_zp", "w_zp", "rw_zp",
     "acc", "r_imm", "acc", "nop_1c", "w_abs", "w_abs", "w_abs", "bbr" >>
Wdc9 ==
  << "branch", "w_izy", "w_izp", "nop_1c", "w_zpx", "w_zpx", "w_zpx", "rw_zp",
     "acc", "w_abx", "acc", "nop_1c", "w_abs", "w_abx", "w_abx", "bbr" >>
WdcA ==
  << "r_imm", "r_izx", "r_imm", "nop_1c", "r_zp", "r_zp", "r_zp", "rw_zp",
     "acc", "r_imm", "acc", "nop_1c", "r_abs", "r_abs", "r_abs", "bbr" >>
WdcB ==
  << "branch", "r_izy", "r_izp", "nop_1c", "r_zpx", "r_zpx", "r_zpx", "rw_zp",
     "acc", "r_abx", "acc", "nop_1c", "r_abx", "r_abx", "r_abx", "bbr" >>
WdcC ==
  << "r_imm", "r_izx", "r_imm", "nop_1c", "r_zp", "r_zp", "rw_zp", "rw_zp",
     "acc", "r_imm", "acc", "acc", "r_abs", "r_abs", "rw_abs", "bbr" >>
WdcD ==
  << "branch", "r_izy", "r_izp", "nop_1c", "r_zpx", "r_zpx", "rw_zpx", "rw_zp",
     "cld", "r_abx", "push", "r_zpx", "nop_4c", "r_abx", "inc_abx", "bbr" >>
WdcE ==
  << "r_imm", "d_izx", "r_imm", "nop_1c", "r_zp", "d_zp", "rw_zp", "rw_zp",
     "acc", "d_imm", "acc", "nop_1c", "r_abs", "d_abs", "rw_abs", "bbr" >>
WdcF ==
  << "branch", "d_izy", "d_izp", "nop_1c", "r_zpx", "d_zpx", "rw_zpx", "rw_zp",
     "sed", "d_abx", "pull", "nop_1c", "nop_4c", "d_abx", "inc_abx", "bbr" >>

WdcStore ==
  LET matrix == << Wdc0, Wdc1, Wdc2, Wdc3, Wdc4, Wdc5, Wdc6, Wdc7,
                   Wdc8, Wdc9, WdcA, WdcB, WdcC, WdcD, WdcE, WdcF >>
  IN  [ slot \in OpcodeSlots |->
          CmosClass[matrix[(slot \div 16) + 1][(slot % 16) + 1]] ]
      @@ [ slot \in ServiceSlots |-> CmosServices(slot) ]

(* ST: WDC without RMB, SMB, BBR and BBS, whose columns hold NOPs.         *)
StNop(slot) ==
  CASE slot % 32 = 7 -> "r_zp"
    [] slot % 32 = 23 -> "r_zpx"
    [] slot % 32 = 15 -> "st_nop_abs"
    [] slot % 32 = 31 -> "r_abs"

StStore ==
  [ slot \in { opcode \in OpcodeSlots : opcode % 8 = 7 } |-> CmosClass[StNop(slot)] ]
  @@ WdcStore

-----------------------------------------------------------------------------
(* These differ from the models above in the data of ADC, SBC, ARR, ISC    *)
(* and RRA only: decimal mode, and its flags.                              *)
NesStore == NmosStore

RwStore == WdcStore

Models == {"nmos", "nes", "wdc", "rw", "st"}

StoreOf(model) ==
  CASE model = "nmos" -> NmosStore
    [] model = "nes" -> NesStore
    [] model = "wdc" -> WdcStore
    [] model = "rw" -> RwStore
    [] model = "st" -> StStore
=============================================================================
