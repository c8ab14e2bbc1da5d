----------------------------- MODULE MCDlMalloc -----------------------------
(* Model values for DlMalloc.                                              *)
EXTENDS DlMalloc

MCAlignments == {8}

(* An empty array, and one whose size wraps to one word.                   *)
MCArrays == {<<0, 5>>, <<(AddrWords + 1) \div 3, 3>>}
=============================================================================
