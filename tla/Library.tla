------------------------------ MODULE Library ------------------------------
(* The data structures of src/src that are proved about: the dictionary on   *)
(* its hash table, and beside them strings, with variables of their own.     *)
EXTENDS Dict

CONSTANTS Char, Chunk, MaxLen
VARIABLES str, asked, overrun

Str == INSTANCE StringBuffer WITH fault <- overrun

\* A string holds what the calls asked for, in their order, and its null byte is
\* inside its buffer (StringBuffer).
StringsKept == Str!StringsKept
=============================================================================
