--------------------------- MODULE MCDirectories ---------------------------
(* Instance of Directories for TLC.                                        *)
EXTENDS Directories

MCPages == (1 .. MaxTables) \X Entries
=============================================================================
