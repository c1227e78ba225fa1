--------------------------- MODULE OpcodeMetadata ---------------------------
(***************************************************************************)
(* The table of documented NMOS opcodes that the test tools share          *)
(* (toolbox/common/include/benchmark6502/opcode_metadata.hpp): for each    *)
(* opcode <<addressing mode, bytes, cycles, extra>>, where extra is the    *)
(* number of cycles a page crossing (1) or a branch taken across a page    *)
(* (2) may add.  The interrupt tests place their pulses with it; it was    *)
(* not derived from the control store.  An entry is named for its mode and *)
(* cycles, with an x if a page crossing takes one more.                    *)
(***************************************************************************)
EXTENDS Integers

none  == <<"illegal", 1, 0, 0>>
abs3  == <<"absolute", 3, 3, 0>>
abs4  == <<"absolute", 3, 4, 0>>
abs6  == <<"absolute", 3, 6, 0>>
abx4x == <<"absolute_x", 3, 4, 1>>
abx5  == <<"absolute_x", 3, 5, 0>>
abx7  == <<"absolute_x", 3, 7, 0>>
aby4x == <<"absolute_y", 3, 4, 1>>
aby5  == <<"absolute_y", 3, 5, 0>>
acc2  == <<"accumulator", 1, 2, 0>>
imm2  == <<"immediate", 2, 2, 0>>
imp2  == <<"implied", 1, 2, 0>>
imp3  == <<"implied", 1, 3, 0>>
imp4  == <<"implied", 1, 4, 0>>
imp6  == <<"implied", 1, 6, 0>>
imp7  == <<"implied", 1, 7, 0>>
ind5  == <<"indirect", 3, 5, 0>>
izx6  == <<"indexed_indirect", 2, 6, 0>>
izy5x == <<"indirect_indexed", 2, 5, 1>>
izy6  == <<"indirect_indexed", 2, 6, 0>>
rel2  == <<"relative", 2, 2, 2>>
zpg3  == <<"zero_page", 2, 3, 0>>
zpg5  == <<"zero_page", 2, 5, 0>>
zpx4  == <<"zero_page_x", 2, 4, 0>>
zpx6  == <<"zero_page_x", 2, 6, 0>>
zpy4  == <<"zero_page_y", 2, 4, 0>>

Opcodes0 ==
  << imp7, izx6, none, none, none, zpg3, zpg5, none,
     imp3, imm2, acc2, none, none, abs4, abs6, none >>
Opcodes1 ==
  << rel2, izy5x, none, none, none, zpx4, zpx6, none,
     imp2, aby4x, none, none, none, abx4x, abx7, none >>
Opcodes2 ==
  << abs6, izx6, none, none, zpg3, zpg3, zpg5, none,
     imp4, imm2, acc2, none, abs4, abs4, abs6, none >>
Opcodes3 ==
  << rel2, izy5x, none, none, none, zpx4, zpx6, none,
     imp2, aby4x, none, none, none, abx4x, abx7, none >>
Opcodes4 ==
  << imp6, izx6, none, none, none, zpg3, zpg5, none,
     imp3, imm2, acc2, none, abs3, abs4, abs6, none >>
Opcodes5 ==
  << rel2, izy5x, none, none, none, zpx4, zpx6, none,
     imp2, aby4x, none, none, none, abx4x, abx7, none >>
Opcodes6 ==
  << imp6, izx6, none, none, none, zpg3, zpg5, none,
     imp4, imm2, acc2, none, ind5, abs4, abs6, none >>
Opcodes7 ==
  << rel2, izy5x, none, none, none, zpx4, zpx6, none,
     imp2, aby4x, none, none, none, abx4x, abx7, none >>
Opcodes8 ==
  << none, izx6, none, none, zpg3, zpg3, zpg3, none,
     imp2, none, imp2, none, abs4, abs4, abs4, none >>
Opcodes9 ==
  << rel2, izy6, none, none, zpx4, zpx4, zpy4, none,
     imp2, aby5, imp2, none, none, abx5, none, none >>
OpcodesA ==
  << imm2, izx6, imm2, none, zpg3, zpg3, zpg3, none,
     imp2, imm2, imp2, none, abs4, abs4, abs4, none >>
OpcodesB ==
  << rel2, izy5x, none, none, zpx4, zpx4, zpy4, none,
     imp2, aby4x, imp2, none, abx4x, abx4x, aby4x, none >>
OpcodesC ==
  << imm2, izx6, none, none, zpg3, zpg3, zpg5, none,
     imp2, imm2, imp2, none, abs4, abs4, abs6, none >>
OpcodesD ==
  << rel2, izy5x, none, none, none, zpx4, zpx6, none,
     imp2, aby4x, none, none, none, abx4x, abx7, none >>
OpcodesE ==
  << imm2, izx6, none, none, zpg3, zpg3, zpg5, none,
     imp2, imm2, imp2, none, abs4, abs4, abs6, none >>
OpcodesF ==
  << rel2, izy5x, none, none, none, zpx4, zpx6, none,
     imp2, aby4x, none, none, none, abx4x, abx7, none >>

MetadataTable ==
  << Opcodes0, Opcodes1, Opcodes2, Opcodes3, Opcodes4, Opcodes5, Opcodes6, Opcodes7,
     Opcodes8, Opcodes9, OpcodesA, OpcodesB, OpcodesC, OpcodesD, OpcodesE, OpcodesF >>

NmosOpcodeMetadata(opcode) ==
  LET entry == MetadataTable[(opcode \div 16) + 1][(opcode % 16) + 1]
  IN  [ mode |-> entry[1], bytes |-> entry[2], cycles |-> entry[3], extra |-> entry[4],
        legal_nmos |-> entry # none ]
=============================================================================
