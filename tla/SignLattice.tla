---------------------------- MODULE SignLattice ----------------------------
(***************************************************************************)
(* The extended sign lattice of eesi/src/constraint.cc.                    *)
(*                                                                         *)
(* The code encodes every element as a row of a bit matrix and computes    *)
(* meet and join by AND-ing two rows and looking the result up again.  A   *)
(* row is modelled as the set of the elements whose bit is set; the bit    *)
(* positions are the code's table `offset`, so the row "11011000" of <=0   *)
(* is {bottom, <0, 0, <=0}.  The tables are copied from the code, not      *)
(* computed: that they are the closure of one order is what is checked.    *)
(***************************************************************************)

SignLatticeElement == {"bottom", "<0", ">0", "0", "<=0", ">=0", "!=0", "top"}

(* Rows AND-ed by Meet. *)
MeetEncoding ==
  [x \in SignLatticeElement |->
     CASE x = "bottom" -> {"bottom"}
       [] x = "<0"     -> {"bottom", "<0"}
       [] x = ">0"     -> {"bottom", ">0"}
       [] x = "0"      -> {"bottom", "0"}
       [] x = "<=0"    -> {"bottom", "<0", "0", "<=0"}
       [] x = ">=0"    -> {"bottom", ">0", "0", ">=0"}
       [] x = "!=0"    -> {"bottom", "<0", ">0", "!=0"}
       [] x = "top"    -> SignLatticeElement]

(* Rows AND-ed by Join, and read bit by bit by IsLessThan. *)
JoinEncoding ==
  [x \in SignLatticeElement |->
     CASE x = "bottom" -> SignLatticeElement
       [] x = "<0"     -> {"<0", "<=0", "!=0", "top"}
       [] x = ">0"     -> {">0", ">=0", "!=0", "top"}
       [] x = "0"      -> {"0", "<=0", ">=0", "top"}
       [] x = "<=0"    -> {"<=0", "top"}
       [] x = ">=0"    -> {">=0", "top"}
       [] x = "!=0"    -> {"!=0", "top"}
       [] x = "top"    -> {"top"}]

(* The decoding maps: the element with this row.  The code's at() throws   *)
(* when no element has it; here the result is then no element.             *)
Decode(encoding, row) ==
  IF \E x \in SignLatticeElement : encoding[x] = row
  THEN CHOOSE x \in SignLatticeElement : encoding[x] = row
  ELSE "out_of_range"

Meet(x, y) == Decode(MeetEncoding, MeetEncoding[x] \cap MeetEncoding[y])

Join(x, y) == Decode(JoinEncoding, JoinEncoding[x] \cap JoinEncoding[y])

IsLessThan(x, y) == y \in JoinEncoding[x]

(* Mutant: the complement of <=0 given as >=0. *)
ComplementOverlapping(x) ==
  CASE x = "bottom" -> "top"  [] x = "top" -> "bottom"
    [] x = "<0"     -> ">=0"  [] x = ">=0" -> "<0"
    [] x = ">0"     -> "<=0"  [] x = "<=0" -> ">=0"
    [] x = "0"      -> "!=0"  [] x = "!=0" -> "0"

Complement(x) ==
  CASE x = "bottom" -> "top"  [] x = "top" -> "bottom"
    [] x = "<0"     -> ">=0"  [] x = ">=0" -> "<0"
    [] x = ">0"     -> "<=0"  [] x = "<=0" -> ">0"
    [] x = "0"      -> "!=0"  [] x = "!=0" -> "0"

Difference(x, y) == Meet(x, Complement(y))

IsBottom(x) == x = "bottom"

Intersects(x, y) == ~ IsBottom(Meet(x, y))

(***************************************************************************)
(* What an element stands for: the signs a return value of that element    *)
(* may have.  Nothing in the code computes it; it is the meaning the       *)
(* header gives the elements, against which the tables are checked.        *)
(***************************************************************************)
Sign == {"neg", "zero", "pos"}

Gamma ==
  [x \in SignLatticeElement |->
     CASE x = "bottom" -> {}
       [] x = "<0"     -> {"neg"}
       [] x = ">0"     -> {"pos"}
       [] x = "0"      -> {"zero"}
       [] x = "<=0"    -> {"neg", "zero"}
       [] x = ">=0"    -> {"pos", "zero"}
       [] x = "!=0"    -> {"neg", "pos"}
       [] x = "top"    -> Sign]

(* The one element of a sign, the representative the code intersects with. *)
SignElement(s) == CASE s = "neg" -> "<0" [] s = "zero" -> "0" [] s = "pos" -> ">0"
=============================================================================
