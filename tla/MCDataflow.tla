----------------------------- MODULE MCDataflow -----------------------------
(***************************************************************************)
(* Programs for the dataflow passes.  A body has an entry, two blocks in   *)
(* the middle and an exit; the middle blocks are built from pieces, and    *)
(* may go to each other, to themselves and to the exit, in the order of    *)
(* the block list or against it.  Names end in the number of their block.  *)
(***************************************************************************)
EXTENDS Execution

N(name, b) == name \o ToString(b)

Call(id, f)        == [op |-> "call", id |-> id, f |-> f, a |-> ""]
ErrPtr(id, f, a)   == [op |-> "call", id |-> id, f |-> f, a |-> a]
Store(id, a, slot) == [op |-> "store", id |-> id, a |-> a, b |-> slot]
Unary(op, id, a)   == [op |-> op, id |-> id, a |-> a]
Icmp(id, p, a, b)  == [op |-> "icmp", id |-> id, p |-> p, u |-> FALSE, a |-> a, b |-> b]
UIcmp(id, p, a, b) == [Icmp(id, p, a, b) EXCEPT !.u = TRUE]
Phi(id, in)        == [op |-> "phi", id |-> id, in |-> in]
Branch(b, a, t, e) == [op |-> "branch", id |-> N("end", b), a |-> a, t |-> t, e |-> e]
Jump(b, t)         == [op |-> "jump", id |-> N("end", b), t |-> t]
Switch(b, a, cs, e) == [op |-> "switch", id |-> N("end", b), a |-> a, cases |-> cs, e |-> e]
Return(b, a)       == [op |-> "return", id |-> N("end", b), a |-> a]

(* What a middle block does before it ends.                                *)
Work(b) ==
  { <<>>,
    <<Store(N("s", b), "1", "r")>>,
    <<Unary("load", N("w", b), "x"), Store(N("s", b), N("w", b), "r")>>,
    <<Call(N("g", b), "g"), Store(N("s", b), N("g", b), "r")>>,
    <<Call(N("g", b), "f"), Store(N("s", b), N("g", b), "x")>> }

(* How it ends: a jump, a test of a slot in the middle of either kind, a   *)
(* test of a value that is stored at the same time, a switch.              *)
TestOf(b, slot, p, c, t, e) ==
  <<Unary("load", N("l", b), slot), Icmp(N("c", b), p, N("l", b), c), Branch(b, N("c", b), t, e)>>

End(b) ==
  {<<Jump(b, t)>> : t \in {3, 4}}
  \cup {TestOf(b, "r", "slt", "0", 4, 3), TestOf(b, "x", "slt", "0", 4, 2),
        TestOf(b, "x", "eq", "1", 2, 4), TestOf(b, "r", "ne", "null", 3, 4)}
  \cup {<<Unary("load", N("l", b), "x"), Switch(b, N("l", b), cs, 4)>> :
          cs \in {<<[value |-> "0", to |-> 3]>>, <<[value |-> "-1", to |-> 2], [value |-> "1", to |-> 3]>>}}

Entry ==
  { <<Call("f1", "f"), Store("a1", "f1", "x"), Store("b1", "0", "r"), Jump(1, 2)>>,
    <<Call("f1", "f"), Store("a1", "f1", "x"), Store("b1", "f1", "r"),
      Icmp("c1", "sge", "f1", "0"), Branch(1, "c1", 3, 2)>>,
    <<Call("f1", "f"), Store("b1", "-1", "r"), Store("a1", "f1", "x"),
      Icmp("c1", "sgt", "0", "f1"), Branch(1, "c1", 2, 3)>> }

Exit(b) == <<Unary("load", N("l", b), "r"), Return(b, N("l", b))>>

(* What external functions return: each sign, and the constant tested for. *)
Inputs == {-2, 0, 1}

One(body) == [body |-> [main |-> body], void |-> {}, pointer |-> {},
              components |-> <<[functions |-> <<"main">>, loop |-> FALSE]>>]

(* The second middle block does less, so that there are few enough         *)
(* programs.                                                               *)
SecondWork ==
  {<<Call("g3", "f"), Store("s3", "g3", "x")>>,
   <<Unary("load", "w3", "x"), Store("s3", "w3", "r")>>}

SecondEnd ==
  {<<Jump(3, 4)>>, TestOf(3, "x", "slt", "0", 4, 2),
   <<Unary("load", "l3", "x"),
     Switch(3, "l3", <<[value |-> "-1", to |-> 2], [value |-> "1", to |-> 3]>>, 4)>>}

MiddlePrograms ==
  {One(<<entry, w2 \o e2, w3 \o e3, Exit(4)>>) :
     entry \in Entry, w2 \in Work(2), e2 \in End(2),
                                              w3 \in SecondWork, e3 \in SecondEnd}

(* Phis: of two branches, and at the head of a loop that counts up.        *)
PhiBodies ==
  { <<<<Call("f1", "f"), Store("a1", "f1", "x"), Icmp("c1", "slt", "f1", "0"), Branch(1, "c1", 2, 3)>>,
      <<Call("g2", "g"), Jump(2, 4)>>,
      <<Jump(3, 4)>>,
      <<Phi("p4", (2 :> "g2") @@ (3 :> v)), Return(4, "p4")>>>> : v \in {"1", "f1"}}
  \cup
  { <<<<Call("f1", "f"), Jump(1, 2)>>,
      <<Phi("p2", (1 :> v) @@ (3 :> "b3")), Icmp("c2", "slt", "p2", "0"), Branch(2, "c2", 3, 4)>>,
      <<Unary("binary", "b3", "p2"), Jump(3, 2)>>,
      <<Return(4, "p2")>>>> : v \in {"-1", "f1"}}

(* Casts and the error functions of Linux, on the way to the return and    *)
(* to an unsigned test.                                                    *)
CastBodies ==
  { <<<<Call("f1", "f"), Unary(op, "t1", "f1"), Store("a1", "t1", "r"), Unary("load", "l1", "r"),
        IF p = "eq" THEN Icmp("c1", p, "l1", c) ELSE UIcmp("c1", p, "l1", c),
        Branch(1, "c1", 2, 3)>>,
      <<Unary("load", "l2", "r"), 
        ErrPtr("e2", IF op = "sext" THEN "ERR_PTR116" ELSE "ERR_PTR", "l2"), Return(2, "e2")>>,
      <<Store("a3", "true", "r"), Jump(3, 4)>>,
      Exit(4)>> : op \in {"bitcast", "ptrtoint", "sext", "trunc", "zext"},
                  p \in {"slt", "sgt", "eq"}, c \in {"0", "1"}}

(* A result that is tested for a constant and not returned: at once or     *)
(* from a slot, after a test that finds a result of the other calls.       *)
CheckBodies ==
  { <<<<Call("f1", "f"), Store("a1", "f1", "x"), Call("g1", "g"),
        Icmp("c1", p, "f1", d), Branch(1, "c1", 2, 3)>>,
      <<Unary("load", "l2", "x"), Icmp("c2", "eq", "l2", c), Branch(2, "c2", 4, 3)>>,
      <<Call("f3", "f"), Return(3, "0")>>,
      <<Return(4, "-1")>>>> :
        p \in {"slt", "sgt", "ne", "eq"}, d \in {"0", "1"}, c \in {"-1", "0", "1"} }
  \cup
  { <<<<Call("f1", f), Icmp("c1", "eq", "f1", c), Branch(1, "c1", 2, 3)>>,
      <<Return(2, "-1")>>,
      <<Return(3, "0")>>>> :
        f \in {"f", "g"}, c \in {"-1", "0", "1"} }

(* A test of what a slot held before it was incremented.                   *)
PostIncrement ==
  <<<<Call("f1", "f"), Store("a1", "f1", "r"), Jump(1, 2)>>,
    <<Unary("load", "l2", "r"), Unary("binary", "b2", "l2"), Store("s2", "b2", "r"),
      Icmp("c2", "slt", "l2", "0"), Branch(2, "c2", 3, 4)>>,
    <<Unary("load", "l3", "r"), Return(3, "l3")>>,
    <<Return(4, "1")>>>>

(* A constant is stored right before a result is compared with another     *)
(* one, or with the same: what the test says of the result is taken for    *)
(* what the slot holds.                                                    *)
StoredConstants ==
  { <<<<Call("f1", "f"), Store("a1", c, "r"), Icmp("c1", "slt", "f1", "0"), Branch(1, "c1", 2, 3)>>,
      <<Unary("load", "l2", "r"), Return(2, "l2")>>,
      <<Return(3, "1")>>>> : c \in {"0", "-1"} }

(* A result that is compared with a true i1, or replaced by one.           *)
ComparedWithTrue ==
  <<<<Call("f1", "f"), Store("a1", "f1", "r"), Unary("load", "l1", "r"), Icmp("c1", "ne", "l1", "true"),
      Branch(1, "c1", 2, 3)>>,
    <<Unary("load", "l2", "r"), Return(2, "l2")>>,
    <<Store("a3", "true", "r"), Unary("load", "l3", "r"), Return(3, "l3")>>>>

(* A pointer is returned where the number it points to is negative: what   *)
(* the test says of it reaches the entry of the block before, and the pass *)
(* stops without having noticed.                                           *)
Dereferenced ==
  <<<<Call("f1", "f"), Jump(1, 3)>>,
    <<Jump(2, 4)>>,
    <<Unary("load", "l3", "f1"), Icmp("c3", "slt", "l3", "0"), Branch(3, "c3", 2, 5)>>,
    <<Return(4, "f1")>>,
    <<Return(5, "0")>>>>

(* Two functions: main returns what callee returned unless it is negative, *)
(* callee may call main, returns a pointer or nothing at all.              *)
Caller(op, c) ==
  <<<<Call("h1", "callee"), Store("a1", "h1", "r"), Icmp("c1", op, "h1", c), Branch(1, "c1", 2, 3)>>,
    <<Store("a2", "-1", "r"), Jump(2, 4)>>,
    <<Jump(3, 4)>>,
    Exit(4)>>

CalleeBodies ==
  { <<<<Return(1, "1")>>>>, <<<<Return(1, "null")>>>>, <<<<Return(1, "literal")>>>>,
    <<<<Call("m1", "main"), Return(1, "m1")>>>>,
    <<<<Call("f1", "f"), Store("a1", "f1", "x"), Icmp("c1", "eq", "f1", "0"), Branch(1, "c1", 2, 3)>>,
      <<Return(2, "0")>>,
      <<Call("m3", "main"), Store("a3", "m3", "r"), Unary("load", "l3", "r"), Return(3, "l3")>>>>}

CallsMain(body) == \E i \in InstructionsOf(body) : i.op = "call" /\ i.f = "main"

TwoPrograms ==
  {[body |-> [main |-> Caller(p, c), callee |-> callee],
    void |-> {}, pointer |-> pointer,
    components |-> IF CallsMain(callee)
                   THEN <<[functions |-> order, loop |-> TRUE]>>
                   ELSE <<[functions |-> <<"callee">>, loop |-> FALSE],
                          [functions |-> <<"main">>, loop |-> FALSE]>>] :
     p \in {"slt", "sle", "ne"}, c \in {"0", "1"}, callee \in CalleeBodies,
     pointer \in SUBSET {"callee"}, order \in {<<"main", "callee">>, <<"callee", "main">>}}
  \cup
  {[body |-> [main |-> <<<<Call("h1", "callee"), Return(1, "0")>>>>, callee |-> <<<<Return(1, "")>>>>],
    void |-> {"callee"}, pointer |-> {},
    components |-> <<[functions |-> <<"callee">>, loop |-> FALSE],
                     [functions |-> <<"main">>, loop |-> FALSE]>>]}

(* A test alone in block 4 of what block 3 has compared: r = -1;           *)
(* if (!g()) { r = f(); big = r > 0; if (r < 0) goto four; goto six; }     *)
(* return r; four: if (big) return r; return -1; six: goto five; and so    *)
(* on.  Block 4 is first visited with a negative r from block 3; that it   *)
(* may be another one comes round from block 6 against the order of the    *)
(* blocks, when nothing else changes any more.                             *)
LoneTest ==
  <<<<Store("a1", "-1", "r"), Call("g1", "g"), Icmp("c1", "ne", "g1", "0"), Branch(1, "c1", 2, 3)>>,
    <<Unary("load", "l2", "r"), Return(2, "l2")>>,
    <<Call("f3", "f"), Store("a3", "f3", "r"), Unary("load", "l3", "r"), Icmp("c3", "sgt", "l3", "0"),
      Icmp("d3", "slt", "l3", "0"), Branch(3, "d3", 4, 6)>>,
    <<Branch(4, "c3", 2, 7)>>,
    <<Jump(5, 4)>>,
    <<Jump(6, 5)>>,
    <<Return(7, "-1")>>>>

LoneTestPrograms == {One(LoneTest)}

OtherPrograms ==
  {One(b) : b \in PhiBodies \cup CastBodies \cup CheckBodies \cup StoredConstants
             \cup {PostIncrement, Dereferenced, ComparedWithTrue}}
  \cup LoneTestPrograms \cup TwoPrograms

AllPrograms == MiddlePrograms \cup OtherPrograms
=============================================================================
