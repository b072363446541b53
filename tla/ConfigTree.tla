----------------------------- MODULE ConfigTree -----------------------------
(***************************************************************************)
(* Configuration::Object and its stores (lib/src/Configuration): a tree of *)
(* maps with strings at its leaves.                                        *)
(*                                                                         *)
(* A tree is a function from paths to strings or Map.  A path is the       *)
(* sequence of the levels of a parent key and the key.  setValue() splits  *)
(* a parent key into at least one level, so a key without a parent is      *)
(* written below the level Top, whose name is empty, whereas value() reads *)
(* it at the root.                                                         *)
(***************************************************************************)
EXTENDS Naturals, Sequences

CONSTANTS
  Values, \* the strings
  Empty,  \* the empty one
  Map,    \* what a path of a tree has that is a map of its own
  Top     \* the empty name of a level

ASSUME ValuesAssumption == Empty \in Values /\ Map \notin Values

NoTree == [p \in {} |-> Map]

Above(p) == {SubSeq(p, 1, n) : n \in 1..(Len(p) - 1)}

IsTree(t) == \A p \in DOMAIN t : \A q \in Above(p) : q \in DOMAIN t /\ t[q] = Map

Levels(t) == {p \in DOMAIN t : Len(p) = 1}

Strings(t) == {p \in DOMAIN t : t[p] # Map}

\* A key, given with its parent key: the first level has a name.
IsKey(k) == k \in Seq({k[i] : i \in DOMAIN k}) /\ k # <<>> /\ k[1] # Top

\* A path of a tree: of a key or of a map above one.
IsPath(p) == \/ IsKey(p)
             \/ p = <<Top>>
             \/ Len(p) = 2 /\ p = <<Top, p[2]>> /\ p[2] # Top

\* At the root of a tree there are maps only.
WellFormed(t) == \A p \in DOMAIN t : IsPath(p) /\ (p \in Strings(t) => Len(p) # 1)

----------------------------------------------------------------------------
(* Object.                                                                  *)

\* Where setValue() puts a key, given with its parent key.
Written(k) == IF Len(k) = 1 THEN <<Top, k[1]>> ELSE k

\* setValue() goes through maps only and replaces none.
Refused(t, p) == \/ \E q \in Above(p) : q \in Strings(t)
                 \/ p \in DOMAIN t /\ t[p] = Map

\* setValue() of the paths of f, none of which is above another.
SetValues(t, f) ==
  LET P == {p \in DOMAIN f : ~Refused(t, p)}
  IN [q \in DOMAIN t \cup P \cup UNION {Above(p) : p \in P} |->
        IF q \in P THEN f[q] ELSE IF q \in DOMAIN t THEN t[q] ELSE Map]

SetValue(t, k, v) == SetValues(t, [p \in {Written(k)} |-> v])

\* A map is removed with all that is in it.
RemoveValue(t, k) ==
  LET p == Written(k) IN [q \in {r \in DOMAIN t : r # p /\ p \notin Above(r)} |-> t[q]]

\* The empty string is also what a map or nothing reads as.
Value(t, p) == IF p \in Strings(t) THEN t[p] ELSE Empty

\* operator+: "source is dominant over destination".
Merge(dst, src) ==
  LET kept == {p \in DOMAIN dst : Above(p) \cap Strings(src) = {}}
  IN [p \in DOMAIN src \cup kept |-> IF p \in DOMAIN src THEN src[p] ELSE dst[p]]

----------------------------------------------------------------------------
(* Stores.  The settings of QSettings are a function from keys to strings:  *)
(* a level without a name is none, and an empty map leaves nothing.         *)

Key(p) == IF p[1] = Top THEN Tail(p) ELSE p

FlushSettings(s, t) ==
  LET K == {Key(p) : p \in Strings(t)}
  IN [k \in DOMAIN s \cup K |-> IF k \in K THEN t[CHOOSE p \in Strings(t) : Key(p) = k] ELSE s[k]]

\* The strings of the keys K where setValue() puts them.
Placed(s, K) ==
  [p \in {Written(k) : k \in K} |-> s[CHOOSE k \in K : Written(k) = p]]

\* loadSettingsTree() into an empty object: groups come first, so a key that is also the
\* name of a group is refused.
Shadowed(s, k) == \E j \in DOMAIN s : Written(k) \in Above(Written(j))

LoadSettings(s) ==
  LET K == {k \in DOMAIN s : ~Shadowed(s, k)}
  IN SetValues(NoTree, Placed(s, K))

\* An XML file has an element per path; what is below a level without a name is lost, and a
\* map with nothing in it becomes an element without elements, which is read as a string.
Leaves(t) == {p \in DOMAIN t : \A q \in DOMAIN t : p \notin Above(q)}

SaveXml(t) ==
  [p \in {q \in Leaves(t) : q[1] # Top} |-> Value(t, p)]

LoadXml(t, f) ==
  SetValues(t, Placed(f, DOMAIN f))

=============================================================================
