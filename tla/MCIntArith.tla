----------------------------- MODULE MCIntArith -----------------------------
(***************************************************************************)
(* Inputs for checking IntArith with TLC: numerals -1, 0 and 2, every     *)
(* integer operator on two numerals, those nested once more on either    *)
(* side, and <= and int.ge comparing them, so that a term has up to four  *)
(* redexes to take in any order and int.ge is unfolded under other        *)
(* redexes.  Some of them divide by a value that is zero.                  *)
(***************************************************************************)
EXTENDS IntArith

L0 == {Num(v) : v \in {-1, 0, 2}}
L1 == {App(<<Op(o), a, b>>) : o \in BinOps, a \in L0, b \in L0}
L2 == {App(<<Op(o), a, b>>) : o \in {"-", "div"}, a \in L1 \cup L0, b \in L1 \cup L0}
Cmp == {App(<<h, a, b>>) : h \in {Op("<="), Const("int.ge")}, a \in L1 \cup L0, b \in L1 \cup L0}

MCInputs == L1 \cup L2 \cup Cmp

=============================================================================
