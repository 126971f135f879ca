----------------------------- MODULE VersionLists -----------------------------
(***************************************************************************)
(* The version constraints of specs (version/version_types.py): sorted     *)
(* lists of concrete versions, versions of git references and ranges, with *)
(* union, intersection, inclusion and overlap.  The order of versions is   *)
(* all these operations use: a version is its place in that order, and the *)
(* next version, which closes a range, is the next place.  A place stands  *)
(* for every version from one to the next, and for the git references that *)
(* were given it.                                                          *)
(***************************************************************************)
EXTENDS Integers, SequencesExt

CONSTANTS
  MaxVersion,   \* the places are 0 .. MaxVersion
  Refs,         \* git references, by their alphabetic order
  Slack         \* how far below lo the hi of a range "lo:hi" is written

VersionAssumption ==
  MaxVersion \in Nat /\ Refs \subseteq Nat \ {0} /\ Slack \in {0, 1}

VARIABLE lists    \* the version lists of two specs

vars == lists

Places == 0 .. MaxVersion
Specs == {"self", "other"}

Standard(v) == [kind |-> "version", lo |-> v, hi |-> v, ref |-> 0]
Git(v, r) == [kind |-> "git", lo |-> v, hi |-> v, ref |-> r]
Closed(lo, hi) == [kind |-> "range", lo |-> lo, hi |-> hi, ref |-> 0]

(* Mutant: the version after hi is taken twice.                            *)
X_NextTwice(lo, hi) == Closed(lo, hi + 2)
(* EmptyRangeError is raised for hi < lo, when hi is already the version   *)
(* after the one that was written.                                         *)
VersionRange(lo, hi) == Closed(lo, hi + 1)

Items ==
  {Standard(v) : v \in Places}
    \cup {Git(v, r) : v \in Places, r \in Refs}
    \cup {VersionRange(r[1], r[2]) : r \in {r \in Places \X Places : r[1] <= r[2] + Slack}}

Concrete(x) == x.kind # "range"

(***************************************************************************)
(* One element                                                             *)
(***************************************************************************)
Rank(x) == CASE x.kind = "version" -> 0 [] x.kind = "git" -> 1 [] OTHER -> 2

(* What is left when two elements begin alike.                             *)
Tie(x, y) == IF Concrete(x) THEN x.ref < y.ref ELSE x.hi < y.hi

(* The comparisons of the three classes, together: by version, where the   *)
(* version itself comes first, then git references by name, and ranges     *)
(* that begin there last, by their end.                                    *)
Less(x, y) ==
  \/ x.lo < y.lo
  \/ x.lo = y.lo /\ Rank(x) < Rank(y)
  \/ x.lo = y.lo /\ Rank(x) = Rank(y) /\ Tie(x, y)

InRange(r, v) == r.lo <= v.lo /\ v.lo < r.hi

intersects(x, y) ==
  CASE Concrete(x) /\ Concrete(y) -> x = y
    [] Concrete(x) -> InRange(y, x)
    [] Concrete(y) -> InRange(x, y)
    [] OTHER -> x.lo < y.hi /\ y.lo < x.hi

(* Mutant: a range is in another that ends with it or before.              *)
X_EndOnly(x, y) ==
  IF Concrete(x) THEN intersects(x, y) ELSE ~Concrete(y) /\ ~(y.hi < x.hi)
satisfies(x, y) ==
  IF Concrete(x) THEN intersects(x, y)
  ELSE ~Concrete(y) /\ ~(x.lo < y.lo \/ y.hi < x.hi)

(* Mutant: ranges that only touch stay apart.                              *)
X_Overlapping(r, x) ==
  IF Concrete(x) THEN InRange(r, x) ELSE r.lo < x.hi /\ x.lo < r.hi
(* "<= cause we want union(1:2, 3:4) = 1:4"                                *)
Connected(r, x) ==
  IF Concrete(x) THEN InRange(r, x) ELSE r.lo <= x.hi /\ x.lo <= r.hi

Least(i, j) == IF i < j THEN i ELSE j
Greatest(i, j) == IF i < j THEN j ELSE i

UnionOf(r, x) ==
  IF Concrete(x) THEN r ELSE Closed(Least(r.lo, x.lo), Greatest(r.hi, x.hi))

(* The intersection of two elements, as a list of at most one.             *)
Common(x, y) ==
  IF Concrete(x) \/ Concrete(y)
  THEN IF intersects(x, y) THEN <<IF Concrete(x) THEN x ELSE y>> ELSE <<>>
  ELSE LET lo == Greatest(x.lo, y.lo)
           hi == Least(x.hi, y.hi)
       IN  IF lo < hi THEN <<Closed(lo, hi)>> ELSE <<>>

(***************************************************************************)
(* VersionList                                                             *)
(***************************************************************************)
(* How many elements of s are below x; s is sorted.                        *)
bisect_left(s, x) ==
  CHOOSE i \in 0 .. Len(s) : \A k \in 1 .. Len(s) : Less(s[k], x) <=> k <= i

(* A concrete version is inserted unless a neighbour has it.               *)
AddVersion(s, x) ==
  LET i == bisect_left(s, x)
  IN  IF (i > 0 /\ intersects(x, s[i])) \/ (i < Len(s) /\ intersects(x, s[i + 1]))
      THEN s ELSE InsertAt(s, i + 1, x)

(* A range takes in the neighbours it meets, on the left, then the right.  *)
RECURSIVE MergeLeft(_, _), MergeRight(_, _)
MergeLeft(left, r) ==
  IF left # <<>> /\ Connected(r, Last(left))
  THEN MergeLeft(Front(left), UnionOf(r, Last(left)))
  ELSE <<left, r>>
MergeRight(right, r) ==
  IF right # <<>> /\ Connected(r, Head(right))
  THEN MergeRight(Tail(right), UnionOf(r, Head(right)))
  ELSE <<r>> \o right

(* Mutant: only the elements right of the range are merged with it.        *)
X_MergesRight(s, x) ==
  LET i == bisect_left(s, x)
  IN  SubSeq(s, 1, i) \o MergeRight(SubSeq(s, i + 1, Len(s)), x)
AddRange(s, x) ==
  LET i == bisect_left(s, x)
      merged == MergeLeft(SubSeq(s, 1, i), x)
  IN  merged[1] \o MergeRight(SubSeq(s, i + 1, Len(s)), merged[2])

add(s, x) == IF Concrete(x) THEN AddVersion(s, x) ELSE AddRange(s, x)

update(s, t) == FoldLeft(add, s, t)

(* What the elements of t have in common with their neighbours in s.       *)
Neighbours(s, t) ==
  FlattenSeq([k \in 1 .. Len(t) |->
    LET i == bisect_left(s, t[k])
    IN  (IF i > 0 THEN Common(s[i], t[k]) ELSE <<>>)
          \o (IF i < Len(s) THEN Common(s[i + 1], t[k]) ELSE <<>>)])

(* Mutant: the elements of one list only look for theirs in the other.     *)
X_OneWay(s, t) == update(<<>>, Neighbours(t, s))
intersection(s, t) == update(<<>>, Neighbours(t, s) \o Neighbours(s, t))

AllSatisfy(s, t) ==
  \A i \in 1 .. Len(s) : \E j \in 1 .. Len(t) : satisfies(s[i], t[j])

(* Two cursors; the one at the lower element moves.                        *)
RECURSIVE ListsIntersect(_, _)
(* Mutant: the cursors move together.                                      *)
X_Lockstep(s, t) ==
  \E i \in 1 .. Least(Len(s), Len(t)) : intersects(s[i], t[i])
ListsIntersect(s, t) ==
  /\ s # <<>> /\ t # <<>>
  /\ \/ intersects(Head(s), Head(t))
     \/ IF Less(Head(s), Head(t)) THEN ListsIntersect(Tail(s), t)
                                  ELSE ListsIntersect(s, Tail(t))

(* Membership looks at the neighbours only; neither side has git versions. *)
(* Mutant: only at the element before.                                     *)
X_InPrevious(s, x) ==
  LET i == bisect_left(s, x) IN i > 0 /\ satisfies(x, s[i])
IsIn(s, x) ==
  LET i == bisect_left(s, x)
  IN  (i > 0 /\ satisfies(x, s[i])) \/ (i < Len(s) /\ satisfies(x, s[i + 1]))

(***************************************************************************)
(* A constraint is built up from a spec's text, and meets another's.       *)
(***************************************************************************)
Init == lists = [n \in Specs |-> <<>>]

Add(n, x) == lists' = [lists EXCEPT ![n] = add(@, x)]

Update(n) == \E m \in Specs \ {n} : lists' = [lists EXCEPT ![n] = update(@, lists[m])]

Intersect(n) ==
  \E m \in Specs \ {n} : lists' = [lists EXCEPT ![n] = intersection(@, lists[m])]

Next == \E n \in Specs : Update(n) \/ Intersect(n) \/ \E x \in Items : Add(n, x)

Spec == Init /\ [][Next]_vars

(***************************************************************************)
(* What must hold: "Versions in Spack behave like sets"                    *)
(***************************************************************************)
(* The versions an element stands for.  At each place there are the        *)
(* version itself, the versions that follow it before the next place (-1), *)
(* as they follow all but a prerelease without a number, and the git       *)
(* references.                                                             *)
Points == Places \X ({-1, 0} \cup Refs)
Meaning(x) == IF Concrete(x) THEN {<<x.lo, x.ref>>}
              ELSE {v \in Points : x.lo <= v[1] /\ v[1] < x.hi}
MeaningOf(s) == UNION {Meaning(s[i]) : i \in 1 .. Len(s)}

TypeOK == lists \in [Specs -> Seq([kind : {"version", "git", "range"}, lo : Places,
                                   hi : 0 .. MaxVersion + 1, ref : {0} \cup Refs])]

(* "Sorted, non-redundant list": bisection finds its way in every list an  *)
(* operation leaves, and no element is left that another covers or touches.*)
SortedAndReduced == \A n \in Specs : \A j \in 1 .. Len(lists[n]), i \in 1 .. Len(lists[n]) :
  i < j => LET x == lists[n][i]
               y == lists[n][j]
           IN  /\ Less(x, y) /\ ~intersects(x, y)
               /\ ~Concrete(x) /\ ~Concrete(y) => x.hi < y.lo

(* Two lists are equal, which is how the code tells that a constraint has  *)
(* changed, exactly when they allow the same versions.                     *)
CanonicalForm ==
  lists["self"] = lists["other"] <=> MeaningOf(lists["self"]) = MeaningOf(lists["other"])

(* "Whether self is entirely contained in other": element by element, and  *)
(* by membership through the two neighbours.                               *)
SatisfiesIsInclusion ==
  AllSatisfy(lists["self"], lists["other"])
    <=> MeaningOf(lists["self"]) \subseteq MeaningOf(lists["other"])

MembershipIsInclusion == \A n \in Specs, x \in Items :
  (x.kind # "git" /\ \A i \in 1 .. Len(lists[n]) : lists[n][i].kind # "git")
    => (IsIn(lists[n], x) <=> Meaning(x) \subseteq MeaningOf(lists[n]))

(* "Whether self and other overlap", by a walk along both lists.           *)
IntersectsIsOverlap ==
  ListsIntersect(lists["self"], lists["other"])
    <=> MeaningOf(lists["self"]) \cap MeaningOf(lists["other"]) # {}

(* An added element adds its versions and no others; the union and the     *)
(* intersection of lists are those of their versions, found through the    *)
(* neighbours in the other list.                                           *)
OperationsAreSetOperations == \A n \in Specs : \A m \in Specs \ {n} :
  LET mine == MeaningOf(lists[n])
      others == MeaningOf(lists[m])
  IN  /\ \A x \in Items : MeaningOf(add(lists[n], x)) = mine \cup Meaning(x)
      /\ MeaningOf(update(lists[n], lists[m])) = mine \cup others
      /\ MeaningOf(intersection(lists[n], lists[m])) = mine \cap others
=============================================================================
