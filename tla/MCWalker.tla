------------------------------ MODULE MCWalker ------------------------------
(***************************************************************************)
(* Modules to walk over: calls from several sites, of each other, of       *)
(* themselves, of functions without a body and through a pointer, branches *)
(* that meet, and a module without a main.                                 *)
(***************************************************************************)
EXTENDS Walker

Call(id, f)         == [op |-> "call", id |-> id, f |-> f, a |-> ""]
Indirect(id, fs)    == [op |-> "call", id |-> id, f |-> "", callees |-> fs, a |-> ""]
Store(id, a, slot)  == [op |-> "store", id |-> id, a |-> a, b |-> slot]
Load(id, slot)      == [op |-> "load", id |-> id, a |-> slot]
Icmp(id, p, a, b)   == [op |-> "icmp", id |-> id, p |-> p, u |-> FALSE, a |-> a, b |-> b]
Branch(id, a, t, e) == [op |-> "branch", id |-> id, a |-> a, t |-> t, e |-> e]
Jump(id, t)         == [op |-> "jump", id |-> id, t |-> t]
Return(id, a)       == [op |-> "return", id |-> id, a |-> a]

Leaf == <<<<Return("end", "1")>>>>

(* f calls g once, and is called twice.                                    *)
Chain ==
  [main |-> <<<<Call("c1", "f"), Call("c2", "f"), Return("end", "")>>>>,
   f    |-> <<<<Call("c3", "g"), Return("end", "")>>>>,
   g    |-> Leaf]

(* Every function that is called is called twice; h has no body.           *)
Twice ==
  [main |-> <<<<Call("c1", "f"), Call("c2", "f"), Return("end", "")>>>>,
   f    |-> <<<<Call("c3", "g"), Call("c4", "h"), Call("c5", "g"), Return("end", "c5")>>>>,
   g    |-> Leaf]

(* f calls itself, between two blocks that return.                         *)
Recursive ==
  [main |-> <<<<Call("c1", "f"), Return("end", "0")>>>>,
   f    |-> <<<<Call("c2", "h"), Icmp("i", "slt", "c2", "0"), Branch("b1", "i", 2, 3)>>,
              <<Return("end2", "-1")>>,
              <<Call("c3", "f"), Return("end3", "c3")>>>>]

(* Through a pointer to either of two functions, or to none that is known. *)
Pointers ==
  [main |-> <<<<Indirect("c1", {"f", "g"}), Indirect("c2", {}), Indirect("c3", {"f", "g"}),
                Return("end", "0")>>>>,
   f    |-> Leaf,
   g    |-> <<<<Return("end", "-1")>>>>]

(* No main; two branches that meet, and a value of two sources.            *)
Meeting ==
  [f |-> <<<<Call("c1", "g"), Store("s1", "c1", "r"), [op |-> "intrinsic", id |-> "dbg"],
             Icmp("i1", "sge", "0", "c1"), Branch("b1", "i1", 2, 3)>>,
           <<Store("s2", "1", "r"), Icmp("i2", "eq", "c1", "-1"), Branch("b2", "i2", 3, 4)>>,
           <<Load("l3", "r"), Return("end", "l3")>>,
           <<Store("s4", "true", "r"), Store("t4", "null", "r"), Jump("j4", 3)>>>>,
   g |-> <<<<Call("c5", "h"), Return("end", "c5")>>>>]

AllModules == {Twice, Recursive, Pointers, Meeting}
ChainModules == {Chain}

AllRequests == {<<1, 12>>, <<2, 3>>, <<0, 3>>, <<2, 0>>, <<1, -1>>}
ChainRequests == {<<1, 14>>}
=============================================================================
