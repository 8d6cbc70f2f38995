---------------------------- MODULE MCArenaOwner ----------------------------
(***************************************************************************)
(* A small instance of ArenaOwner: two fragments of one bit, nodes two     *)
(* wide, so that a map of three keys has a collision node or a child and a *)
(* vector of three elements a trie.                                        *)
(***************************************************************************)
EXTENDS ArenaOwner

Num(n)  == <<"Int32", n>>
Str(t)  == <<"String", t>>
Obj(f)  == <<"Object", f>>
Arr(s)  == <<"Array", s>>
Half    == <<"Double", "half">>

MCKeyOrder == <<Str("a"), Str("b"), Str("c"), Half, Num(1)>>

\* "a" and "b" agree in every bit, "c" differs from them in the last.
MCHashOf(key) ==
  CASE key \in {Str("a"), Str("b"), Half} -> 0
    [] key = Str("c") -> 2
    [] OTHER -> 1

MCLengthOf(text) == IF text = "b" THEN 9 ELSE 1

MCCommits ==
  {Obj([a |-> Arr(<<Obj([a |-> Num(1)]), Half, Num(2)>>),
        b |-> <<"Map", (Half :> <<"TypedArray", "t", 5000>>) @@ (Str("a") :> Half)>>,
        c |-> <<"RegExp", "c", "a">>]),
   Arr(<<Half, <<"Set", {Half, Str("c")}>>, <<"Symbol">>>>)}
MCElements == {Obj([c |-> Half])}

\* A vector of two elements gets seven more: the tail becomes the first leaf, the root gains
\* a level twice, and the last leaf goes below the root there is.  Then an element of the
\* tail is replaced, and the first.
Pushing(from, n) == [k \in 1..n |-> [index |-> from + k, slot |-> Num(from + k)]]
Replacing(s)     == [k \in DOMAIN s |-> [index |-> s[k], slot |-> Num(20 + k)]]
MCEditSlots == {Num(n) : n \in 0..30}
MCScripts ==
  {[from |-> <<Num(1), Num(2)>>, edits |-> Pushing(2, 7) \o Replacing(<<8, 0>>)]}

\* For a recipe that edits an element and pushes another: a block that is freed too
\* early is handed out with another number.
Third == <<"Double", "third">>
RebuildCommits == {Arr(<<Obj([a |-> Num(1), c |-> Half])>>)}
NewElements    == {Third}
=============================================================================
