----------------------------- MODULE MCLibrary ------------------------------
(* Values for TLC. *)
EXTENDS Library, TLC

CONSTANTS n1, n2, n3, n4, v1, v2, b1, b2, b3

MCNodes == {n1, n2, n3, n4}

MCOffsets == {-1, 1}

MCLists == {<<>>, <<v1, v2>>}

(* Two numbers in and against their order, one twice, more than the        *)
(* arguments, an escape at the end and one with an L, and '%' alone; the   *)
(* largest number and one more; one that an int takes for -1.              *)
MCStrings == {<<"%", "1", "c", "%", "2", "c">>, <<"%", "2", "c", "%", "1">>, <<"c", "%", "1", "%", "1">>,
              <<"%", "L", "0", "%", "1", "0", "%">>, <<"%", "c", "%", "2", "%", "3", "%">>, <<"c", "c">>,
              <<"%", "8", "%", "9", "9", "9", "%", "1", "0", "0", "0">>, <<"%", "2", "0", "4", "7", "%", "6">>}

MCBlocks == {b1, b2, b3}
MCLiterals == {<<>>, <<"a">>, <<"b", "c">>}

(* Something else than a 0 comes next in memory. *)
MCTrails == {<<"#">>}

(* As u8 and s8, u32 and s32 in 32 bits: small types, and as large as W. *)
MCTypes == [signed : BOOLEAN, mod : {16, W}]

(* Enough for the message of three parts to be as long as Cap, or longer. *)
MCTexts == {<<"a", "b", "c", "d">>}

AnyNode == Permutations(MCNodes) \cup Permutations(MCBlocks)
=============================================================================
