---------------------------- MODULE ParserTables -----------------------------
(***************************************************************************)
(* The parser with the code tables that default_table.py builds and        *)
(* validates.                                                              *)
(***************************************************************************)
EXTENDS ParserOptimality, CodeTable

(* A table has one entry for every byte that an opcode may be.             *)
ASSUME OpcodesAssumption == Opcodes = TableOpcodes

(* validate_table's promise: with a table it accepts, optimal_parse fails   *)
(* only on a COPY mode that the address caches do not have.                 *)
ValidTablesEncode ==
  phase = "unencodable" /\ IsValidTable(table) =>
    \E i \in 1..Count : atoms[i].mode >= Modes
=============================================================================
