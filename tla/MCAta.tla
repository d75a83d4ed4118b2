------------------------------- MODULE MCAta -------------------------------
(* Two sectors of two words, one the file system's and one disk_test's.    *)
EXTENDS Ata

MCPattern == <<1, 0>>
MCZeros   == <<0, 0>>
MCPayloads == {<<1, 1>>}
=============================================================================
