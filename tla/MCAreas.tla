------------------------------ MODULE MCAreas ------------------------------
(* Small instances of Areas for TLC: one page of program text, a heap of   *)
(* at most two pages, three pages of mmap region, one page of stack and a  *)
(* page that nothing uses below the kernel.                                *)
EXTENDS Areas

Text == [start |-> 2, end |-> 3, flags |-> {"R", "X"}]
Programs == {<<Text>>}
Breaks == 2 .. 8
AreaRights == {{"R"}, {"R", "W"}}
============================================================================
