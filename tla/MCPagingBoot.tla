---------------------------- MODULE MCPagingBoot ----------------------------
(* Instance of PagingBoot for TLC.                                         *)
EXTENDS PagingBoot

MCSlots == 0 .. SLOTS - 1
MCEntries == 0 .. ENTRIES - 1
MCPages == (1 .. MaxTables) \X Entries
=============================================================================
