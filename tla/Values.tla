--------------------------------- MODULE Values --------------------------------
(***************************************************************************)
(* The values that two machines exchange, as far as marshalling tells them *)
(* apart: what kind of thing each is, what it holds, which values are the  *)
(* very same object, and which identifier GetId gives it.                  *)
(***************************************************************************)
EXTENDS Integers, Sequences, SequencesExt

CONSTANT NodeCount   \* how many values the sender's graph of values has

ASSUME NodeCountAssumption == NodeCount \in Nat \ {0}

(* Leaves: an atom, like any scalar, is copied; a builtin has an           *)
(* identifier but no Marshal; an opaque value has not even an identifier   *)
(* of its own; a remote value lives on a third machine.  The others hold   *)
(* values: an inner function its environment and, last, the outer function *)
(* around it; an atom table the array of atoms it was made of.             *)
Leaves == {"atom", "builtin", "opaque", "remote"}
Kinds == Leaves \cup {"array", "function", "inner", "table"}

(* The values are 1..NodeCount; kBuildAtomTable is one that everybody has. *)
BuildAtomTable == 0

(* The values that a graph g of older values can be extended by.           *)
Over(g) ==
  LET some == BoundedSeq(1..Len(g), 2) \ {<<>>}
      kindOf(p, i) == g[p[i]].kind
  IN {[kind |-> k, parts |-> <<>>] : k \in Leaves}
     \cup {[kind |-> k, parts |-> p] : k \in {"array", "function"}, p \in some}
     \cup {[kind |-> "inner", parts |-> p] :
             p \in {q \in some : kindOf(q, Len(q)) = "function"}}
     \cup {[kind |-> "table", parts |-> p] :
             p \in {q \in some :
                     /\ Len(q) = 1
                     /\ kindOf(q, 1) = "array"
                     /\ \A e \in ToSet(g[q[1]].parts) : g[e].kind = "atom"}}

GraphsOf[n \in 0..NodeCount] ==
  IF n = 0 THEN {<<>>}
  ELSE UNION {{Append(g, x) : x \in Over(g)} : g \in GraphsOf[n - 1]}

(* The newest value is the one that is sent; all others are part of it.    *)
Graphs == {g \in GraphsOf[NodeCount] :
             /\ g[NodeCount].kind \notin Leaves
             /\ \A v \in 1..NodeCount - 1 :
                  \E w \in v + 1..NodeCount : v \in ToSet(g[w].parts)}

VARIABLE graph

KindOf(v) == IF v = BuildAtomTable THEN "builtin" ELSE graph[v].kind
Parts(v) == IF v = BuildAtomTable THEN <<>> ELSE graph[v].parts

-----------------------------------------------------------------------------
(* A value written out.  Identifiers are hashes, so they are written out   *)
(* too, except that the default GetId makes up a new number on every call. *)
Written(kind, leaf, of) == [kind |-> kind, leaf |-> leaf, of |-> of]

Term(v, opaque(_)) ==
  LET term[w \in 0..NodeCount] ==
        Written(KindOf(w),
                IF KindOf(w) = "opaque" THEN opaque(w)
                  ELSE IF KindOf(w) \in Leaves THEN w ELSE 0,
                [i \in DOMAIN Parts(w) |-> term[Parts(w)[i]]])
  IN term[v]

Content(v) == Term(v, LAMBDA w : w)

(* The identifier computed when n of them were made up before.             *)
IdAt(v, n) == Term(v, LAMBDA w : NodeCount + n)

NoId == Written("none", 0, <<>>)

(* No one but the sender can have a value with an opaque part.             *)
RECURSIVE IsUnique(_)
IsUnique(id) == id.kind = "opaque" \/ \E i \in DOMAIN id.of : IsUnique(id.of[i])

(* What it is to call f on p: only atom tables are looked into.            *)
Apply(f, p) == IF f = Content(BuildAtomTable) THEN Written("table", 0, <<p>>)
                                              ELSE Written("result", 0, <<f, p>>)
=============================================================================
