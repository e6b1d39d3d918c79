---------------------------- MODULE MCToolBatch ----------------------------
(* Small instances of ToolBatch for TLC.                                    *)
EXTENDS ToolBatch

CONSTANTS r1, r2, r3, write

\* Three reads, then a write; the first two reads may turn out unsafe.
AllCalls == {r1, r2, r3, write}
Reads == {r1, r2, r3}
FirstAndSecond == {r1, r2}
ReadsThenWrite == <<r1, r2, r3, write>>
=============================================================================
