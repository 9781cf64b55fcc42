--------------------------- MODULE MCStringTable ---------------------------
(* StringTable with three strings of one and two bytes and documents of up *)
(* to four string tokens: room for a definition, two different references  *)
(* to it and a definition in between.                                      *)
EXTENDS StringTable

CONSTANTS a, b, c, e

MCSize(s) == IF s = c THEN 2 ELSE 1
=============================================================================
