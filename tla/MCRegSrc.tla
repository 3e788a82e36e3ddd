------------------------------ MODULE MCRegSrc ------------------------------
(***************************************************************************)
(* Instances of RegSrc for TLC: small programs.                            *)
(***************************************************************************)
EXTENDS Graphviz

MCTemps == {"sp", "a", "x", "y", "-8", "8"}
MCConstVal == ("-8" :> -8) @@ ("8" :> 8)
MCStackRegs == {"sp"}

Op(op, out, in) == [op |-> op, out |-> out, in |-> in]

Grow == Op("sub", <<"sp">>, <<"sp", "8">>)
Slot == Op("add", <<"a">>, <<"sp", "-8">>)
Here == Op("mov", <<"a">>, <<"sp">>)
Load(t, addr) == Op("ld", <<t>>, <<addr>>)
Store(addr, t) == Op("st", << >>, <<t, addr>>)
Copy(t, u) == Op("mov", <<t>>, <<u>>)
Make(t) == Op("other", <<t>>, << >>)
MakeBoth == Op("other", <<"a", "x">>, << >>)

Bodies ==
  {<< >>, <<Grow>>, <<Slot, Store("a", "x")>>, <<Here, Store("a", "y")>>,
   <<Copy("x", "y")>>, <<Copy("y", "x"), MakeBoth>>, <<Load("y", "x")>>}

LastBodies ==
  {<<Slot, Load("x", "a"), Copy("y", "x")>>,
   <<Copy("x", "y"), Here, Load("y", "a")>>,
   <<Copy("a", "x"), Load("x", "y"), Store("a", "x")>>}

(* The graphs, as lists of predecessors: a branch that joins, a loop of    *)
(* two blocks, and a loop of one that the last block is part of.           *)
Graphs ==
  {<< << >>, <<1>>, <<1>>, <<2, 3>> >>,
   << << >>, <<1, 3>>, <<2>>, <<3>> >>,
   << << >>, <<1>>, <<2, 4>>, <<3, 4>> >>}

(* Every operand of the last block is searched for.                        *)
Small ==
  {[code |-> <<b1, b2, b3, b4>>, pred |-> g,
    roots |-> UNION {{<<4, i, k>> : k \in DOMAIN b4[i].in} : i \in DOMAIN b4}] :
     b1 \in {<<Grow>>, <<Grow, Slot, Store("a", "x")>>, <<Make("x")>>},
     b2 \in Bodies, b3 \in Bodies, b4 \in LastBodies, g \in Graphs}

-----------------------------------------------------------------------------
(* The grounded programs, found by computing what an address is made from. *)
Made(p, m) ==
  LET step(S) == S \cup WritersTo(p, UNION {Range(InstAt(p, q).in) : q \in S})
                   \cup (IF S \cap LoadsOf(p) # {} THEN StoresOf(p) ELSE {})
      made[n \in Nat] ==
        IF n = 0 THEN WritersTo(p, {InstAt(p, m).in[AddressArg(InstAt(p, m))]})
                 ELSE step(made[n - 1])
  IN  made[Cardinality(Positions(p))]

GroundedPrograms ==
  {p \in Small : \A m \in LoadsOf(p) \cup StoresOf(p) :
                   LET S == Made(p, m) IN Feed(p, m, S) /\ m \notin S}

-----------------------------------------------------------------------------
(* `x = y; while (..) { y = z; use(x); x = y; z = ..; }': z is set in the  *)
(* second block of the loop, and reaches x through y in the first.         *)
TwoRounds ==
  {[code |-> << <<Make("x"), Make("y"), Make("a")>>,
                <<Copy("y", "a"), Store("sp", "x")>>,
                <<Copy("x", "y"), Make("a")>> >>,
    pred |-> << << >>, <<1, 3>>, <<2>> >>,
    roots |-> {<<2, 2, 1>>}]}

(* `while (..) { y = y->next; } use(y);'                                   *)
ListWalk ==
  {[code |-> << <<Make("y")>>, <<Load("y", "y")>>, <<Copy("x", "y")>> >>,
    pred |-> << << >>, <<1, 2>>, <<2>> >>,
    roots |-> {<<3, 1, 1>>}]}

(* Four conditional statements one after the other and a use of what was   *)
(* set before them.                                                        *)
FourBranches ==
  {[code |-> [b \in 1 .. 13 |-> CASE b = 1  -> <<Make("x")>>
                                  [] b = 13 -> <<Copy("y", "x")>>
                                  [] OTHER  -> << >>],
    pred |-> [b \in 1 .. 13 |-> CASE b = 1     -> << >>
                                  [] b % 3 = 1 -> <<b - 2, b - 1>>
                                  [] b % 3 = 2 -> <<b - 1>>
                                  [] OTHER     -> <<b - 2>>],
    roots |-> {<<13, 1, 1>>}]}
=============================================================================
