------------------------- MODULE ConfigStoreProofs --------------------------
(***************************************************************************)
(* The management console never overwrites the binary list for logons with *)
(* the string that loading made of it, leaves the saved list in force when *)
(* it ends, and shows what was applied last, for any consoles, settings,   *)
(* files and defaults.                                                     *)
(***************************************************************************)
EXTENDS ConfigStore, SequenceTheorems, TLAPS

\* The strings of a tree are values.
Valued(t) == \A p \in DOMAIN t : t[p] \in Strs

Sound(t) == Valued(t) /\ WellFormed(t)

\* So are the strings of settings, or of a file.
SoundSettings(s) == \A k \in DOMAIN s : IsKey(k) /\ s[k] \in Values

\* Neither the path of the binary list nor one below it.
Clear(p) == p # LogonACL /\ LogonACL \notin Above(p)

\* What the system's calls find when they are done: a console that applies, in a window or
\* at a command line, has removed the string of the binary list.
BinaryInv ==
  /\ at = [c \in Consoles |-> at[c]] /\ config = [c \in Consoles |-> config[c]]
  /\ \A c \in Consoles :
       /\ Sound(config[c])
       /\ at[c] \in {"applying", "command"} => \A p \in DOMAIN config[c] : Clear(p)
  /\ SoundSettings(settings) /\ SoundSettings(file)
  /\ acl \in Values \cup {NoACL}

----------------------------------------------------------------------------
(* Keys and paths.                                                          *)

LEMMA KeyIsASequence ==
  ASSUME NEW k, IsKey(k)
  PROVE  k \in Seq({k[i] : i \in DOMAIN k}) /\ Len(k) \in Nat \ {0}
<1> DEFINE S == {k[i] : i \in DOMAIN k}
<1>1. k \in Seq(S) /\ k # <<>>
  BY DEF IsKey
<1> HIDE DEF S
<1>2. Len(k) \in Nat \ {0}
  BY <1>1
<1> QED
  BY <1>1, <1>2 DEF S

\* A sequence that is not empty and begins with a name is a key.
LEMMA SequenceIsAKey ==
  ASSUME NEW S, NEW k \in Seq(S), k # <<>>, k[1] # Top
  PROVE  IsKey(k)
<1>1. k \in Seq({k[i] : i \in DOMAIN k})
  <2>1. \A i \in 1..Len(k) : k[i] \in {k[j] : j \in DOMAIN k}
    OBVIOUS
  <2> QED
    BY <2>1, IsASeq
<1> QED
  BY <1>1 DEF IsKey

LEMMA ShortSequence ==
  ASSUME NEW S, NEW s \in Seq(S), Len(s) = 1
  PROVE  s = <<s[1]>>
<1>1. s[1] \in S
  OBVIOUS
<1>2. <<s[1]>> \in Seq(S)
  BY <1>1
<1> QED
  BY <1>2, SeqEqual

\* A key without a parent key.
LEMMA ShortKey ==
  ASSUME NEW k, IsKey(k), Len(k) = 1
  PROVE  k = <<k[1]>>
BY KeyIsASequence, ShortSequence

\* Written() takes a key to the path of a string, Key() takes that back.
LEMMA WrittenIsAPath ==
  ASSUME NEW k, IsKey(k)
  PROVE  /\ IsPath(Written(k)) /\ Len(Written(k)) # 1
         /\ Key(Written(k)) = k
         /\ Len(k) # 1 => Written(k) = k
<1>1. CASE Len(k) = 1
  <2> DEFINE x == k[1]
  <2>1. k = <<x>> /\ x # Top
    BY <1>1, ShortKey DEF IsKey
  <2> HIDE DEF x
  <2>2. Written(k) = <<Top, x>>
    BY <1>1, <2>1 DEF Written
  <2>3. Len(<<Top, x>>) = 2 /\ <<Top, x>>[1] = Top /\ <<Top, x>>[2] = x /\ Tail(<<Top, x>>) = <<x>>
    OBVIOUS
  <2>4. IsPath(<<Top, x>>)
    BY <2>1, <2>3 DEF IsPath
  <2>5. Key(<<Top, x>>) = <<x>>
    BY <2>3 DEF Key
  <2> QED
    BY <1>1, <2>1, <2>2, <2>3, <2>4, <2>5
<1>2. CASE Len(k) # 1
  BY <1>2 DEF Written, IsPath, Key, IsKey
<1> QED
  BY <1>1, <1>2

LEMMA PathIsWritten ==
  ASSUME NEW p, IsPath(p), Len(p) # 1
  PROVE  IsKey(Key(p)) /\ Written(Key(p)) = p
<1>1. CASE IsKey(p)
  <2>1. Key(p) = p
    BY <1>1 DEF IsKey, Key
  <2> QED
    BY <1>1, <2>1 DEF Written
<1>2. CASE p = <<Top>>
  BY <1>2
<1>3. CASE Len(p) = 2 /\ p = <<Top, p[2]>> /\ p[2] # Top
  <2> DEFINE x == p[2]
  <2>1. p = <<Top, x>> /\ x # Top
    BY <1>3
  <2> HIDE DEF x
  <2>2. /\ <<Top, x>>[1] = Top /\ Tail(<<Top, x>>) = <<x>>
        /\ Len(<<x>>) = 1 /\ <<x>>[1] = x /\ <<x>> # <<>>
    OBVIOUS
  <2>5. <<x>> \in Seq({x})
    OBVIOUS
  <2>3. Key(p) = <<x>>
    BY <2>1, <2>2 DEF Key
  <2>4. IsKey(<<x>>)
    BY <2>1, <2>2, <2>5, SequenceIsAKey
  <2> QED
    BY <2>1, <2>2, <2>3, <2>4 DEF Written
<1> QED
  BY <1>1, <1>2, <1>3 DEF IsPath

\* What is above a path is one, and shorter.
LEMMA PathsAbove ==
  ASSUME NEW p, IsPath(p), NEW q \in Above(p)
  PROVE  IsPath(q) /\ Len(q) \in Nat \ {0} /\ Len(p) \in Nat /\ Len(q) < Len(p)
<1> PICK n \in 1..(Len(p) - 1) : q = SubSeq(p, 1, n)
  BY DEF Above
<1>1. CASE IsKey(p)
  <2> DEFINE S == {p[i] : i \in DOMAIN p}
  <2>1. p \in Seq(S) /\ Len(p) \in Nat /\ p[1] # Top
    BY <1>1, KeyIsASequence DEF IsKey
  <2> HIDE DEF S
  <2>2. \A i \in 1..n : p[i] \in S
    BY <2>1
  <2>3. q \in Seq(S) /\ Len(q) = n /\ q[1] = p[1]
    <3>1. 1 \in Int /\ n \in Int /\ 1 <= n
      BY <2>1
    <3>2. /\ q \in Seq(S)
          /\ Len(q) = IF 1 <= n THEN n - 1 + 1 ELSE 0
          /\ \A i \in 1..(n - 1 + 1) : q[i] = p[1 + i - 1]
      BY <2>2, <3>1, SubSeqProperties
    <3> QED
      BY <3>1, <3>2
  <2>4. IsKey(q)
    <3>1. q # <<>>
      BY <2>1, <2>3
    <3> QED
      BY <2>1, <2>3, <3>1, SequenceIsAKey
  <2> QED
    BY <2>1, <2>3, <2>4 DEF IsPath
<1>2. CASE p = <<Top>>
  <2>1. Len(p) = 1
    BY <1>2
  <2> QED
    BY <2>1
<1>3. CASE Len(p) = 2 /\ p = <<Top, p[2]>> /\ p[2] # Top
  <2> DEFINE x == p[2]
  <2>1. p = <<Top, x>> /\ n = 1
    BY <1>3
  <2> HIDE DEF x
  <2>2. SubSeq(<<Top, x>>, 1, 1) = <<Top>>
    <3> DEFINE t == <<Top, x>>
               S == {Top, x}
    <3>1. t[1] = Top
      OBVIOUS
    <3> HIDE DEF t
    <3>2. \A i \in 1..1 : t[i] \in S
      BY <3>1
    <3> HIDE DEF S
    <3>3. /\ SubSeq(t, 1, 1) \in Seq(S)
          /\ Len(SubSeq(t, 1, 1)) = IF 1 <= 1 THEN 1 - 1 + 1 ELSE 0
          /\ \A i \in 1..(1 - 1 + 1) : SubSeq(t, 1, 1)[i] = t[1 + i - 1]
      BY <3>2, SubSeqProperties
    <3>4. Len(SubSeq(t, 1, 1)) = 1 /\ SubSeq(t, 1, 1)[1] = Top
      BY <3>1, <3>3
    <3> QED
      BY <3>3, <3>4, ShortSequence DEF t
  <2>3. q = <<Top>> /\ Len(<<Top>>) = 1
    BY <2>1, <2>2
  <2>4. IsPath(q)
    BY <2>3 DEF IsPath
  <2>5. Len(q) = 1
    BY <2>3
  <2> QED
    BY <1>3, <2>4, <2>5
<1> QED
  BY <1>1, <1>2, <1>3 DEF IsPath

----------------------------------------------------------------------------
(* The operators on trees keep strings among the values.                    *)

LEMMA ValueIsAValue ==
  ASSUME NEW t, Valued(t), NEW p
  PROVE  Value(t, p) \in Values
BY ValuesAssumption DEF Value, Valued, Strings, Strs

LEMMA SetValuesValued ==
  ASSUME NEW t, Valued(t), NEW f, \A p \in DOMAIN f : f[p] \in Values
  PROVE  Valued(SetValues(t, f))
<1> DEFINE P == {p \in DOMAIN f : ~Refused(t, p)}
           D == DOMAIN t \cup P \cup UNION {Above(p) : p \in P}
           u == [q \in D |-> IF q \in P THEN f[q] ELSE IF q \in DOMAIN t THEN t[q] ELSE Map]
<1>1. \A q \in D : u[q] \in Strs
  BY DEF Valued, Strs
<1>2. SetValues(t, f) = u
  BY DEF SetValues
<1> QED
  BY <1>1, <1>2 DEF Valued

LEMMA PlacedValues ==
  ASSUME NEW s, NEW K \in SUBSET DOMAIN s, \A k \in DOMAIN s : s[k] \in Values
  PROVE  \A p \in DOMAIN Placed(s, K) : Placed(s, K)[p] \in Values
<1> SUFFICES ASSUME NEW p \in DOMAIN Placed(s, K)
             PROVE  Placed(s, K)[p] \in Values
  OBVIOUS
<1> DEFINE k == CHOOSE j \in K : Written(j) = p
<1>1. p \in {Written(j) : j \in K} /\ Placed(s, K)[p] = s[k]
  BY DEF Placed
<1>2. k \in K
  BY <1>1
<1> QED
  BY <1>1, <1>2

LEMMA FlushedValues ==
  ASSUME NEW t, Valued(t), NEW s, \A k \in DOMAIN s : s[k] \in Values
  PROVE  \A k \in DOMAIN FlushSettings(s, t) : FlushSettings(s, t)[k] \in Values
<1> DEFINE K == {Key(p) : p \in Strings(t)}
<1> SUFFICES ASSUME NEW k \in DOMAIN FlushSettings(s, t)
             PROVE  FlushSettings(s, t)[k] \in Values
  OBVIOUS
<1>1. CASE k \in K
  <2> DEFINE p == CHOOSE q \in Strings(t) : Key(q) = k
  <2>1. p \in Strings(t)
    BY <1>1
  <2>2. FlushSettings(s, t)[k] = t[p]
    BY <1>1 DEF FlushSettings
  <2> QED
    BY <2>1, <2>2 DEF Strings, Valued, Strs
<1>2. CASE k \notin K
  BY <1>2 DEF FlushSettings
<1> QED
  BY <1>1, <1>2

LEMMA SavedValues ==
  ASSUME NEW t, Valued(t)
  PROVE  \A k \in DOMAIN SaveXml(t) : SaveXml(t)[k] \in Values
BY ValueIsAValue DEF SaveXml

LEMMA NoTreeSound == Sound(NoTree)
BY DEF Sound, Valued, WellFormed, NoTree

LEMMA SetValuesSound ==
  ASSUME NEW t, Sound(t), NEW f,
         \A p \in DOMAIN f : IsPath(p) /\ Len(p) # 1 /\ f[p] \in Values
  PROVE  Sound(SetValues(t, f))
<1> DEFINE P == {p \in DOMAIN f : ~Refused(t, p)}
           u == SetValues(t, f)
<1>1. DOMAIN u = DOMAIN t \cup P \cup UNION {Above(p) : p \in P}
  BY DEF SetValues
<1>2. \A q \in DOMAIN u : u[q] = IF q \in P THEN f[q] ELSE IF q \in DOMAIN t THEN t[q] ELSE Map
  BY DEF SetValues
<1>3. Valued(u)
  BY SetValuesValued DEF Sound
<1> HIDE DEF u
<1>4. ASSUME NEW q \in DOMAIN u PROVE IsPath(q) /\ (q \in Strings(u) => Len(q) # 1)
  <2>1. CASE q \in P
    BY <2>1
  <2>2. CASE q \in DOMAIN t \ P
    BY <1>2, <2>2 DEF Sound, WellFormed, Strings
  <2>3. CASE q \notin P \cup DOMAIN t
    <3>1. u[q] = Map
      BY <1>2, <2>3
    <3>2. PICK p \in P : q \in Above(p)
      BY <1>1, <2>3
    <3>3. IsPath(q)
      BY <3>2, PathsAbove
    <3> QED
      BY <3>1, <3>3 DEF Strings
  <2> QED
    BY <2>1, <2>2, <2>3
<1> QED
  BY <1>3, <1>4 DEF Sound, WellFormed, u

LEMMA SetValueSound ==
  ASSUME NEW t, Sound(t), NEW k, IsKey(k), NEW v \in Values
  PROVE  Sound(SetValue(t, k, v))
BY SetValuesSound, WrittenIsAPath DEF SetValue

LEMMA RemoveValueSound ==
  ASSUME NEW t, Sound(t)
  PROVE  /\ Sound(RemoveValue(t, LogonACL))
         /\ \A p : p \in DOMAIN RemoveValue(t, LogonACL) <=> p \in DOMAIN t /\ Clear(p)
         /\ \A p \in DOMAIN RemoveValue(t, LogonACL) : RemoveValue(t, LogonACL)[p] = t[p]
<1> DEFINE u == RemoveValue(t, LogonACL)
<1>1. Written(LogonACL) = LogonACL
  BY PathsAssumption, WrittenIsAPath
<1>2. u = [q \in {r \in DOMAIN t : Clear(r)} |-> t[q]]
  BY <1>1 DEF RemoveValue, Clear
<1> HIDE DEF u
<1>3. /\ \A p : p \in DOMAIN u <=> p \in DOMAIN t /\ Clear(p)
      /\ \A p \in DOMAIN u : u[p] = t[p]
  BY <1>2
<1>4. Sound(u)
  BY <1>3 DEF Sound, Valued, WellFormed, Strings
<1> QED
  BY <1>3, <1>4 DEF u

LEMMA MergeSound ==
  ASSUME NEW t, Sound(t), NEW u, Sound(u)
  PROVE  Sound(Merge(t, u))
<1> DEFINE m == Merge(t, u)
<1>1. DOMAIN m \subseteq DOMAIN u \cup DOMAIN t
  BY DEF Merge
<1>2. \A p \in DOMAIN m : m[p] = IF p \in DOMAIN u THEN u[p] ELSE t[p]
  BY DEF Merge
<1> HIDE DEF m
<1>3. Sound(m)
  BY <1>1, <1>2 DEF Sound, Valued, WellFormed, Strings
<1> QED
  BY <1>3 DEF m

\* Placed() puts the string of a key where setValue() does.
LEMMA PlacedPaths ==
  ASSUME NEW s, SoundSettings(s), NEW K \in SUBSET DOMAIN s
  PROVE  /\ \A p \in DOMAIN Placed(s, K) :
              IsPath(p) /\ Len(p) # 1 /\ Placed(s, K)[p] \in Values
         /\ \A k \in K : Written(k) \in DOMAIN Placed(s, K) /\ Placed(s, K)[Written(k)] = s[k]
         /\ \A k : IsKey(k) /\ Written(k) \in DOMAIN Placed(s, K) => k \in K
<1> DEFINE f == Placed(s, K)
<1>1. /\ DOMAIN f = {Written(k) : k \in K}
      /\ \A p \in DOMAIN f : f[p] = s[CHOOSE k \in K : Written(k) = p]
  BY DEF Placed
<1>2. \A p \in DOMAIN f : f[p] \in Values
  BY PlacedValues DEF SoundSettings
<1> HIDE DEF f
<1>3. \A k \in K : IsKey(k)
  BY DEF SoundSettings
<1>4. ASSUME NEW p \in DOMAIN f PROVE IsPath(p) /\ Len(p) # 1
  BY <1>1, <1>3, WrittenIsAPath
<1>5. ASSUME NEW k \in K PROVE Written(k) \in DOMAIN f /\ f[Written(k)] = s[k]
  <2>1. \A j \in K : Written(j) = Written(k) => j = k
    BY <1>3, WrittenIsAPath
  <2> QED
    BY <1>1, <2>1
<1>6. ASSUME NEW k, IsKey(k), Written(k) \in DOMAIN f PROVE k \in K
  <2>1. PICK j \in K : Written(j) = Written(k)
    BY <1>1, <1>6
  <2> QED
    BY <1>3, <1>6, <2>1, WrittenIsAPath
<1> QED
  BY <1>2, <1>4, <1>5, <1>6 DEF f

\* A setting that is loaded is read, unless a group has its name.
LEMMA LoadedSettings ==
  ASSUME NEW s, SoundSettings(s)
  PROVE  /\ Sound(LoadSettings(s))
         /\ \A k \in DOMAIN s : ~Shadowed(s, k) =>
              /\ Written(k) \in DOMAIN LoadSettings(s)
              /\ LoadSettings(s)[Written(k)] = s[k]
         /\ \A k : IsKey(k) /\ Written(k) \in Strings(LoadSettings(s)) =>
              k \in DOMAIN s /\ ~Shadowed(s, k)
<1> DEFINE K == {k \in DOMAIN s : ~Shadowed(s, k)}
           f == Placed(s, K)
           t == LoadSettings(s)
<1>1. /\ \A p \in DOMAIN f : IsPath(p) /\ Len(p) # 1 /\ f[p] \in Values
      /\ \A k \in K : Written(k) \in DOMAIN f /\ f[Written(k)] = s[k]
      /\ \A k : IsKey(k) /\ Written(k) \in DOMAIN f => k \in K
  BY PlacedPaths
<1>2. t = SetValues(NoTree, f)
  BY DEF LoadSettings
<1> HIDE DEF f, K
<1>3. Sound(t)
  BY <1>1, <1>2, NoTreeSound, SetValuesSound
<1>4. \A p \in DOMAIN f : ~Refused(NoTree, p)
  BY DEF Refused, NoTree, Strings
<1>5. t = [q \in DOMAIN f \cup UNION {Above(p) : p \in DOMAIN f} |->
             IF q \in DOMAIN f THEN f[q] ELSE Map]
  <2>1. {p \in DOMAIN f : ~Refused(NoTree, p)} = DOMAIN f
    BY <1>4
  <2>2. DOMAIN NoTree = {}
    BY DEF NoTree
  <2> QED
    BY <1>2, <2>1, <2>2 DEF SetValues
<1> HIDE DEF t
<1>6. ASSUME NEW k \in K PROVE Written(k) \in DOMAIN t /\ t[Written(k)] = s[k]
  BY <1>1, <1>5
<1>7. ASSUME NEW k, IsKey(k), Written(k) \in Strings(t) PROVE k \in K
  <2>1. Written(k) \in DOMAIN f
    BY <1>5, <1>7 DEF Strings
  <2> QED
    BY <1>1, <1>7, <2>1
<1> QED
  BY <1>3, <1>6, <1>7 DEF K, t

LEMMA LoadXmlSound ==
  ASSUME NEW t, Sound(t), NEW f, SoundSettings(f)
  PROVE  Sound(LoadXml(t, f))
BY PlacedPaths, SetValuesSound DEF LoadXml

\* Every string of a tree is flushed, and nothing else of the settings changes.
LEMMA Flushed ==
  ASSUME NEW t, Sound(t), NEW s, SoundSettings(s)
  PROVE  /\ SoundSettings(FlushSettings(s, t))
         /\ DOMAIN s \subseteq DOMAIN FlushSettings(s, t)
         /\ \A p \in Strings(t) : /\ Key(p) \in DOMAIN FlushSettings(s, t)
                                  /\ FlushSettings(s, t)[Key(p)] = t[p]
         /\ \A k \in DOMAIN FlushSettings(s, t) :
              (\A p \in Strings(t) : Key(p) # k) =>
                k \in DOMAIN s /\ FlushSettings(s, t)[k] = s[k]
<1> DEFINE K == {Key(p) : p \in Strings(t)}
           u == FlushSettings(s, t)
<1>1. /\ DOMAIN u = DOMAIN s \cup K
      /\ \A k \in DOMAIN u :
           u[k] = IF k \in K THEN t[CHOOSE p \in Strings(t) : Key(p) = k] ELSE s[k]
  BY DEF FlushSettings
<1>2. \A k \in DOMAIN u : u[k] \in Values
  BY FlushedValues DEF Sound, SoundSettings
<1> HIDE DEF u
<1>3. \A p \in Strings(t) : IsPath(p) /\ Len(p) # 1
  BY DEF Sound, WellFormed, Strings
<1>4. SoundSettings(u)
  <2>1. \A k \in K : IsKey(k)
    BY <1>3, PathIsWritten
  <2> QED
    BY <1>1, <1>2, <2>1 DEF SoundSettings
<1>5. ASSUME NEW p \in Strings(t) PROVE Key(p) \in DOMAIN u /\ u[Key(p)] = t[p]
  <2>1. \A q \in Strings(t) : Key(q) = Key(p) => q = p
    BY <1>3, PathIsWritten
  <2> QED
    BY <1>1, <2>1
<1>6. ASSUME NEW k \in DOMAIN u, \A p \in Strings(t) : Key(p) # k
      PROVE  k \in DOMAIN s /\ u[k] = s[k]
  BY <1>1, <1>6
<1> QED
  BY <1>1, <1>4, <1>5, <1>6 DEF u

LEMMA SavedSound ==
  ASSUME NEW t, Sound(t)
  PROVE  SoundSettings(SaveXml(t))
<1> DEFINE f == SaveXml(t)
<1>1. \A k \in DOMAIN f : f[k] \in Values
  BY SavedValues DEF Sound
<1>2. \A k \in DOMAIN f : k \in DOMAIN t /\ k[1] # Top
  BY DEF SaveXml, Leaves
<1>3. \A k \in DOMAIN f : IsPath(k)
  BY <1>2 DEF Sound, WellFormed
<1> HIDE DEF f
<1>4. \A k \in DOMAIN f : IsKey(k)
  <2>1. ASSUME NEW k, k = <<Top>> PROVE k[1] = Top
    BY <2>1
  <2>2. ASSUME NEW k, k = <<Top, k[2]>> PROVE k[1] = Top
    BY <2>2
  <2> QED
    BY <1>2, <1>3, <2>1, <2>2 DEF IsPath
<1> QED
  BY <1>1, <1>4 DEF SoundSettings, f

----------------------------------------------------------------------------

LEMMA BinaryInit == Init => BinaryInv
<1> SUFFICES ASSUME Init PROVE BinaryInv
  OBVIOUS
<1>1. at = [c \in Consoles |-> at[c]] /\ config = [c \in Consoles |-> config[c]]
  BY DEF Init
<1>2. \A c \in Consoles : Sound(config[c]) /\ at[c] = "off"
  BY NoTreeSound DEF Init
<1>3. acl \in Values \cup {NoACL}
  BY AclsAssumption DEF Init
<1>4. SoundSettings(settings)
  BY AclsAssumption, PathsAssumption DEF Init, NoTree, SoundSettings
<1>5. SoundSettings(file)
  BY StringsAssumption DEF Init, SoundSettings
<1> QED
  BY <1>1, <1>2, <1>3, <1>4, <1>5 DEF BinaryInv

LEMMA RegistrySound == BinaryInv => SoundSettings(Registry)
<1> SUFFICES ASSUME BinaryInv, NEW k \in DOMAIN Registry
             PROVE  IsKey(k) /\ Registry[k] \in Values
  BY DEF SoundSettings
<1>1. CASE acl = NoACL
  BY <1>1 DEF Registry, BinaryInv, SoundSettings
<1>2. CASE acl # NoACL
  <2>1. IsKey(LogonACL)
    BY PathsAssumption
  <2>2. /\ k \in DOMAIN settings \cup {LogonACL}
        /\ Registry[k] = IF k = LogonACL THEN Empty ELSE settings[k]
    BY <1>2 DEF Registry
  <2> QED
    BY <2>1, <2>2, ValuesAssumption DEF BinaryInv, SoundSettings
<1> QED
  BY <1>1, <1>2

LEMMA LoadedSound == BinaryInv => Sound(Loaded)
<1> SUFFICES ASSUME BinaryInv PROVE Sound(Loaded)
  OBVIOUS
<1>1. Sound(LoadSettings(Registry))
  BY RegistrySound, LoadedSettings
<1>2. Sound(Defaults)
  BY StringsAssumption DEF Sound, Valued, Strs
<1> QED
  BY <1>1, <1>2, MergeSound DEF Loaded

\* setACL() puts a list of a tree into the registry, or leaves the one that is there.
LEMMA AclSetIsAList ==
  ASSUME BinaryInv, NEW t, Sound(t)
  PROVE  AclSet(t) \in Values \cup {NoACL}
BY ValueIsAValue DEF AclSet, BinaryInv, Sound

LEMMA AclReadIsAValue == BinaryInv => AclRead \in Values
BY ValuesAssumption DEF BinaryInv, AclRead

\* The parts of BinaryInv about the registry and the file.
StoreInv ==
  /\ SoundSettings(settings) /\ SoundSettings(file)
  /\ acl \in Values \cup {NoACL}

\* A step of one console keeps the invariant when what it leaves in that console does.
LEMMA OneConsole ==
  ASSUME BinaryInv, NEW c \in Consoles, NEW t, NEW place,
         at' = [at EXCEPT ![c] = place], config' = [config EXCEPT ![c] = t],
         Sound(t), place \in {"applying", "command"} => \A p \in DOMAIN t : Clear(p), StoreInv'
  PROVE  BinaryInv'
<1>1. at' = [d \in Consoles |-> at'[d]] /\ config' = [d \in Consoles |-> config'[d]]
  BY DEF BinaryInv
<1>2. ASSUME NEW d \in Consoles
      PROVE  /\ Sound(config'[d])
             /\ at'[d] \in {"applying", "command"} => \A p \in DOMAIN config'[d] : Clear(p)
  <2>1. CASE d = c
    <3>1. at'[d] = place /\ config'[d] = t
      BY <2>1 DEF BinaryInv
    <3> QED
      BY <3>1
  <2>2. CASE d # c
    <3>1. at'[d] = at[d] /\ config'[d] = config[d]
      BY <2>2 DEF BinaryInv
    <3> QED
      BY <3>1 DEF BinaryInv
  <2> QED
    BY <2>1, <2>2
<1> QED
  BY <1>1, <1>2 DEF BinaryInv, StoreInv
\* StoreInv holds after a step that changes of the store at most the list, to one.
LEMMA StoreKept ==
  ASSUME BinaryInv, UnchangedStore, UNCHANGED file, acl' \in Values \cup {NoACL}
  PROVE  StoreInv'
BY DEF BinaryInv, StoreInv, UnchangedStore

LEMMA StoreAlone == ASSUME BinaryInv, UnchangedStore, UNCHANGED <<file, acl>> PROVE StoreInv'
BY StoreKept DEF BinaryInv

----------------------------------------------------------------------------
(* The steps of a console.                                                  *)

LEMMA WindowSteps ==
  ASSUME BinaryInv, NEW c \in Consoles
  PROVE  /\ Open(c) => BinaryInv'
         /\ ResetButton(c) => BinaryInv'
         /\ \A k \in Editable : \A v \in Values : Edit(c, k, v) => BinaryInv'
         /\ \A a \in Acls : EditACL(c, a) => BinaryInv'
         /\ Close(c) => BinaryInv'
<1> DEFINE t == RemoveValue(Loaded, LogonACL)
<1>0. Sound(t) /\ AclSet(t) \in Values \cup {NoACL} /\ Sound(NoTree)
  BY LoadedSound, RemoveValueSound, AclSetIsAList, NoTreeSound
<1>1. ASSUME Reset(c) PROVE StoreInv' /\ config' = [config EXCEPT ![c] = t]
  <2>1. config' = [config EXCEPT ![c] = t] /\ config'[c] = t
    BY <1>1 DEF Reset, BinaryInv
  <2>2. acl' \in Values \cup {NoACL}
    BY <1>0, <1>1, <2>1 DEF Reset
  <2> QED
    BY <1>1, <2>1, <2>2, StoreKept DEF Reset
<1>2. ASSUME Open(c) PROVE BinaryInv'
  <2>1. at' = [at EXCEPT ![c] = "window"]
    BY <1>2 DEF Open, Enter
  <2> QED
    BY <1>0, <1>1, <1>2, <2>1, OneConsole DEF Open
<1>3. ASSUME ResetButton(c) PROVE BinaryInv'
  <2>1. at' = [at EXCEPT ![c] = "window"]
    BY <1>3 DEF ResetButton, BinaryInv
  <2> QED
    BY <1>0, <1>1, <1>3, <2>1, OneConsole DEF ResetButton
<1>4. ASSUME NEW k \in Editable, NEW v \in Values, Edit(c, k, v) PROVE BinaryInv'
  <2> DEFINE u == SetValue(config[c], k, v)
  <2>1. at' = [at EXCEPT ![c] = "window"] /\ config' = [config EXCEPT ![c] = u]
    BY <1>4 DEF Edit, BinaryInv
  <2>2. Sound(u)
    BY SetValueSound, PathsAssumption DEF BinaryInv
  <2>3. StoreInv'
    BY <1>4, StoreAlone DEF Edit
  <2> QED
    BY <2>1, <2>2, <2>3, OneConsole
<1>5. ASSUME NEW a \in Acls, EditACL(c, a) PROVE BinaryInv'
  <2>1. StoreInv'
    BY <1>5, StoreKept, AclsAssumption DEF EditACL
  <2> QED
    BY <1>5, <2>1 DEF EditACL, BinaryInv, StoreInv
<1>6. ASSUME Close(c) PROVE BinaryInv'
  <2>1. at' = [at EXCEPT ![c] = "off"] /\ config' = [config EXCEPT ![c] = NoTree]
    BY <1>6 DEF Close, Enter
  <2>2. StoreInv'
    BY <1>0, <1>6, StoreKept DEF Close
  <2> QED
    BY <1>0, <2>1, <2>2, OneConsole
<1> QED
  BY <1>2, <1>3, <1>4, <1>5, <1>6

LEMMA FileSteps ==
  ASSUME BinaryInv, NEW c \in Consoles
  PROVE  /\ SaveToFile(c) => BinaryInv'
         /\ LoadFromFile(c) => BinaryInv'
<1>1. ASSUME SaveToFile(c) PROVE BinaryInv'
  <2> DEFINE u == SetValue(RemoveValue(config[c], LogonACL), EncodedLogonACL, AclRead)
  <2>1. at' = [at EXCEPT ![c] = "window"] /\ config' = [config EXCEPT ![c] = u]
    BY <1>1 DEF SaveToFile, BinaryInv
  <2>2. Sound(u)
    BY SetValueSound, RemoveValueSound, AclReadIsAValue, PathsAssumption DEF BinaryInv
  <2>3. file' = SaveXml(u)
    BY <1>1, <2>1 DEF SaveToFile, BinaryInv
  <2>4. SoundSettings(file')
    BY <2>2, <2>3, SavedSound
  <2>5. StoreInv'
    BY <1>1, <2>4 DEF SaveToFile, UnchangedStore, BinaryInv, StoreInv
  <2> QED
    BY <2>1, <2>2, <2>5, OneConsole
<1>2. ASSUME LoadFromFile(c) PROVE BinaryInv'
  <2> DEFINE u == RemoveValue(LoadXml(config[c], file), LogonACL)
  <2>1. at' = [at EXCEPT ![c] = "window"] /\ config' = [config EXCEPT ![c] = u]
    BY <1>2 DEF LoadFromFile, BinaryInv
  <2>2. Sound(u)
    BY LoadXmlSound, RemoveValueSound DEF BinaryInv
  <2>3. acl' = AclSet(u)
    BY <1>2, <2>1 DEF LoadFromFile, BinaryInv
  <2>4. StoreInv'
    BY <1>2, <2>2, <2>3, AclSetIsAList, StoreKept DEF LoadFromFile
  <2> QED
    BY <2>1, <2>2, <2>4, OneConsole
<1> QED
  BY <1>1, <1>2

LEMMA ApplySteps ==
  ASSUME BinaryInv, NEW c \in Consoles
  PROVE  /\ Apply(c) => BinaryInv'
         /\ ApplySettings(c) => BinaryInv'
         /\ \A k \in Editable : \A v \in Values : SetConfigValue(c, k, v) => BinaryInv'
         /\ Finish(c) => BinaryInv'
         /\ Kill(c) => BinaryInv'
<1>1. ASSUME NEW t, Sound(t) PROVE Sound(Prepared(t)) /\ \A p \in DOMAIN Prepared(t) : Clear(p)
  BY <1>1, RemoveValueSound DEF Prepared
<1>2. ASSUME NEW t, Sound(t), NEW place, at' = [at EXCEPT ![c] = place],
             config' = [config EXCEPT ![c] = Prepared(t)], StoreInv'
      PROVE  BinaryInv'
  BY <1>1, <1>2, OneConsole
<1>3. ASSUME Apply(c) PROVE BinaryInv'
  <2>1. Sound(SetValue(config[c], EncodedLogonACL, AclRead))
    BY SetValueSound, AclReadIsAValue, PathsAssumption DEF BinaryInv
  <2>2. StoreInv'
    BY <1>3, StoreAlone DEF Apply
  <2> QED
    BY <1>2, <1>3, <2>1, <2>2 DEF Apply
<1>4. ASSUME ApplySettings(c) PROVE BinaryInv'
  <2>0. Sound(NoTree)
    BY NoTreeSound
  <2>1. Sound(Merge(Loaded, LoadXml(NoTree, file)))
    BY <2>0, LoadedSound, LoadXmlSound, MergeSound DEF BinaryInv
  <2>2. StoreInv'
    BY <1>4, StoreAlone DEF ApplySettings
  <2> QED
    BY <1>2, <1>4, <2>1, <2>2 DEF ApplySettings, Enter
<1>5. ASSUME NEW k \in Editable, NEW v \in Values, SetConfigValue(c, k, v) PROVE BinaryInv'
  <2>1. Sound(SetValue(Loaded, k, v))
    BY LoadedSound, SetValueSound, PathsAssumption
  <2>2. StoreInv'
    BY <1>5, StoreAlone DEF SetConfigValue
  <2> QED
    BY <1>2, <1>5, <2>1, <2>2 DEF SetConfigValue, Enter
<1>6. ASSUME Finish(c) PROVE BinaryInv'
  <2> DEFINE place == IF at[c] = "command" THEN "off" ELSE "window"
             u == IF place = "off" THEN NoTree ELSE config[c]
  <2>1. at' = [at EXCEPT ![c] = place] /\ at'[c] = place
    BY <1>6 DEF Finish, BinaryInv
  <2>2. config' = [config EXCEPT ![c] = u]
    BY <1>6, <2>1 DEF Finish, BinaryInv
  <2>3. Sound(u)
    BY NoTreeSound DEF BinaryInv
  <2>4. LogonACL \notin Strings(config[c])
    BY <1>6 DEF Clear, Finish, BinaryInv, Strings
  <2>5. acl' \in Values \cup {NoACL}
    BY <1>6, <2>4, AclSetIsAList DEF Finish, Flush, BinaryInv
  <2>6. SoundSettings(settings')
    BY <1>6, Flushed, RemoveValueSound DEF Finish, Flush, BinaryInv
  <2>7. StoreInv'
    BY <1>6, <2>5, <2>6 DEF StoreInv, BinaryInv, Finish
  <2> QED
    BY <2>1, <2>2, <2>3, <2>7, OneConsole
<1>7. ASSUME Kill(c) PROVE BinaryInv'
  <2>1. Sound(NoTree)
    BY NoTreeSound
  <2>2. StoreInv'
    BY <1>7, StoreAlone DEF Kill
  <2> QED
    BY <1>7, <2>1, <2>2, OneConsole DEF Kill
<1> QED
  BY <1>3, <1>4, <1>5, <1>6, <1>7

----------------------------------------------------------------------------

LEMMA BinaryNext == BinaryInv /\ [Next]_vars => BinaryInv'
<1> SUFFICES ASSUME BinaryInv, [Next]_vars PROVE BinaryInv'
  OBVIOUS
<1>1. ASSUME NEW c \in Consoles,
             \/ Open(c) \/ ResetButton(c) \/ Close(c)
             \/ \E k \in Editable, v \in Values \ Acls : Edit(c, k, v)
             \/ \E a \in Acls : EditACL(c, a)
      PROVE  BinaryInv'
  BY <1>1, WindowSteps
<1>2. ASSUME NEW c \in Consoles, SaveToFile(c) \/ LoadFromFile(c)
      PROVE  BinaryInv'
  BY <1>2, FileSteps
<1>3. ASSUME NEW c \in Consoles,
             \/ Apply(c) \/ ApplySettings(c) \/ Finish(c) \/ Kill(c)
             \/ \E k \in Editable, v \in Values \ Acls : SetConfigValue(c, k, v)
      PROVE  BinaryInv'
  BY <1>3, ApplySteps
<1>4. CASE UNCHANGED vars
  BY <1>4 DEF vars, BinaryInv
<1> QED
  BY <1>1, <1>2, <1>3, <1>4 DEF Next

\* When the configuration is flushed, the string of the binary list is not in it.
THEOREM BinaryInvariant == Spec => []BinaryInv
BY BinaryInit, BinaryNext, PTL DEF Spec

\* The binary list is never overwritten with its string (imc/src/MainWindow.cpp:170).
THEOREM ListStaysBinary == Spec => []ACLStaysBinary
<1>1. BinaryInv => ACLStaysBinary
  BY AclsAssumption DEF BinaryInv, ACLStaysBinary
<1> QED
  BY <1>1, BinaryInvariant, PTL

----------------------------------------------------------------------------
(* What a window shows is what was saved.                                   *)

\* The setting that the binary list is in the registry is neither another one nor a group
\* that shadows one.
LEMMA RegistryRead ==
  ASSUME BinaryInv, NEW k, IsKey(k), k # LogonACL
  PROVE  /\ k \in DOMAIN Registry <=> k \in DOMAIN settings
         /\ k \in DOMAIN settings => Registry[k] = settings[k]
         /\ Shadowed(Registry, k) <=> Shadowed(settings, k)
<1>1. DOMAIN Registry \in {DOMAIN settings, DOMAIN settings \cup {LogonACL}}
  BY DEF Registry
<1>2. Written(k) \notin Above(Written(LogonACL))
  <2>1. Written(LogonACL) = LogonACL /\ IsPath(LogonACL) /\ Len(LogonACL) = 2
    BY PathsAssumption, WrittenIsAPath
  <2>2. Len(Written(k)) # 1
    BY WrittenIsAPath
  <2>3. ASSUME NEW q \in Above(LogonACL) PROVE Len(q) = 1
    <3>1. Len(q) \in Nat \ {0} /\ Len(q) < Len(LogonACL)
      BY <2>1, PathsAbove
    <3>2. \A n \in Nat \ {0} : n < 2 => n = 1
      OBVIOUS
    <3> QED
      BY <2>1, <3>1, <3>2
  <2> QED
    BY <2>1, <2>2, <2>3
<1>3. k \in DOMAIN settings => Registry[k] = settings[k]
  BY DEF Registry
<1> QED
  BY <1>1, <1>2, <1>3 DEF Shadowed

\* What a window shows, and what closing it reverts to, has every setting of the registry
\* that no group hides.
LEMMA LoadedIsRead ==
  ASSUME BinaryInv, NEW k \in DOMAIN settings, ~Shadowed(settings, k), Clear(Written(k))
  PROVE  Value(RemoveValue(Loaded, LogonACL), Written(k)) = settings[k]
<1> DEFINE p == Written(k)
           t == LoadSettings(Registry)
<1>1. IsKey(k) /\ settings[k] \in Values
  BY DEF BinaryInv, SoundSettings
<1>2. k # LogonACL
  BY PathsAssumption, WrittenIsAPath DEF Clear
<1>3. p \in DOMAIN t /\ t[p] = settings[k]
  BY <1>1, <1>2, RegistryRead, RegistrySound, LoadedSettings
<1>4. p \in DOMAIN Loaded /\ Loaded[p] = settings[k]
  BY <1>3 DEF Loaded, Merge
<1>5. /\ p \in DOMAIN RemoveValue(Loaded, LogonACL)
      /\ RemoveValue(Loaded, LogonACL)[p] = settings[k]
  BY <1>4, LoadedSound, RemoveValueSound
<1> QED
  BY <1>1, <1>5, ValuesAssumption DEF Value, Strings

\* The strings that were flushed last are in the registry, each at its key.
SavedInv ==
  \A p \in DOMAIN saved :
    /\ IsPath(p) /\ Len(p) # 1 /\ Clear(p)
    /\ Key(p) \in DOMAIN settings /\ settings[Key(p)] = saved[p]

\* A step flushes the configuration of a console or leaves the settings as they are.
LEMMA FlushOrNot ==
  ASSUME [Next]_vars
  PROVE  UNCHANGED <<settings, saved>> \/ \E c \in Consoles : Finish(c)
BY DEF Next, Open, ResetButton, Reset, Edit, EditACL, Apply, ApplySettings, SetConfigValue,
       SaveToFile, LoadFromFile, Close, Kill, UnchangedStore, vars

\* What is flushed is the whole configuration: the string of the binary list is not in it.
LEMMA FlushIsWhole ==
  ASSUME BinaryInv, NEW c \in Consoles, Finish(c)
  PROVE  /\ settings' = FlushSettings(settings, RemoveValue(config[c], LogonACL))
         /\ saved' = StringsOf(config[c]) /\ acl' = AclSet(config[c])
         /\ fresh' = IF EncodedLogonACL \in Strings(config[c]) THEN ~HasKey ELSE fresh
         /\ Sound(RemoveValue(config[c], LogonACL))
         /\ \A p \in Strings(config[c]) :
              /\ IsPath(p) /\ Len(p) # 1 /\ Clear(p)
              /\ p \in Strings(RemoveValue(config[c], LogonACL))
              /\ RemoveValue(config[c], LogonACL)[p] = config[c][p]
         /\ \A p \in Strings(RemoveValue(config[c], LogonACL)) : p \in Strings(config[c])
<1> DEFINE t == config[c]
           u == RemoveValue(t, LogonACL)
<1>1. Sound(t) /\ \A p \in DOMAIN t : Clear(p)
  BY DEF BinaryInv, Finish
<1>2. /\ Sound(u)
      /\ \A p : p \in DOMAIN u <=> p \in DOMAIN t /\ Clear(p)
      /\ \A p \in DOMAIN u : u[p] = t[p]
  BY <1>1, RemoveValueSound
<1>3. LogonACL \notin Strings(t)
  BY <1>1 DEF Clear, Strings
<1>4. settings' = FlushSettings(settings, u) /\ saved' = StringsOf(t) /\ acl' = AclSet(t)
  BY <1>3 DEF Finish, Flush
<1>7. fresh' = IF EncodedLogonACL \in Strings(t) THEN ~HasKey ELSE fresh
  BY Zenon DEF Finish, Flush
<1> HIDE DEF u, t
<1>5. \A p \in Strings(t) : /\ IsPath(p) /\ Len(p) # 1 /\ Clear(p)
                            /\ p \in Strings(u) /\ u[p] = t[p]
  BY <1>1, <1>2 DEF Sound, WellFormed, Strings
<1>6. \A p \in Strings(u) : p \in Strings(t)
  BY <1>2 DEF Strings
<1> QED
  BY <1>2, <1>4, <1>5, <1>6, <1>7, Zenon DEF u, t

LEMMA SavedNext == BinaryInv /\ SavedInv /\ [Next]_vars => SavedInv'
<1> SUFFICES ASSUME BinaryInv, SavedInv, [Next]_vars PROVE SavedInv'
  OBVIOUS
<1>1. CASE UNCHANGED <<settings, saved>>
  BY <1>1 DEF SavedInv
<1>2. ASSUME NEW c \in Consoles, Finish(c) PROVE SavedInv'
  <2> DEFINE t == config[c]
             u == RemoveValue(t, LogonACL)
  <2>1. /\ settings' = FlushSettings(settings, u) /\ saved' = StringsOf(t) /\ Sound(u)
        /\ \A p \in Strings(t) : /\ IsPath(p) /\ Len(p) # 1 /\ Clear(p)
                                 /\ p \in Strings(u) /\ u[p] = t[p]
    BY <1>2, FlushIsWhole
  <2>2. \A p \in Strings(u) : Key(p) \in DOMAIN settings' /\ settings'[Key(p)] = u[p]
    BY <2>1, Flushed DEF BinaryInv
  <2> HIDE DEF t, u
  <2>3. DOMAIN saved' = Strings(t) /\ \A p \in Strings(t) : saved'[p] = t[p]
    BY <2>1 DEF StringsOf
  <2> QED
    BY <2>1, <2>2, <2>3 DEF SavedInv
<1> QED
  BY <1>1, <1>2, FlushOrNot

\* The strings that were flushed last are in the registry.
THEOREM SavedInvariant == Spec => []SavedInv
<1>1. Init => SavedInv
  BY DEF Init, SavedInv, NoTree
<1> QED
  BY <1>1, SavedNext, BinaryInvariant, PTL DEF Spec

\* A window that is opened shows what was applied last, whichever console applied it
\* (ItalcConfiguration, LocalStore and MainWindow::reset()).
THEOREM SavedComesBack == Spec => SavedIsLoaded
<1> DEFINE Shown == \A c \in Consoles : Open(c) =>
              \A p \in DOMAIN saved :
                Value(config'[c], p) = saved[p] \/ Shadowed(settings, Key(p))
<1>1. BinaryInv /\ SavedInv /\ [Next]_vars => [Shown]_vars
  <2> SUFFICES ASSUME BinaryInv, SavedInv, NEW c \in Consoles, Open(c),
                      NEW p \in DOMAIN saved, ~Shadowed(settings, Key(p))
               PROVE  Value(config'[c], p) = saved[p]
    OBVIOUS
  <2>1. /\ IsPath(p) /\ Len(p) # 1 /\ Clear(p)
        /\ Key(p) \in DOMAIN settings /\ settings[Key(p)] = saved[p]
    BY DEF SavedInv
  <2>2. Written(Key(p)) = p
    BY <2>1, PathIsWritten
  <2>3. config'[c] = RemoveValue(Loaded, LogonACL)
    BY DEF Open, Reset, BinaryInv
  <2> QED
    BY <2>1, <2>2, <2>3, LoadedIsRead
<1> QED
  BY <1>1, BinaryInvariant, SavedInvariant, PTL DEF Spec, SavedIsLoaded

----------------------------------------------------------------------------
(* The list in force is the one that is saved.                              *)

\* As long as consoles do not overlap and none is killed: whenever none has a window open,
\* the list in force is the one that is saved, if one is, or none is in force because there
\* was no key for it.
InForce == Stored \in {Empty, acl} \/ (fresh /\ acl = NoACL)

ForceInv ==
  ~disturbed =>
    /\ \A c, d \in Consoles : at[c] # "off" /\ at[d] # "off" => c = d
    /\ (\A c \in Consoles : at[c] \in {"off", "command"}) => InForce

\* A saved list is read when there is one and no group hides it.
LEMMA SavedListRead ==
  ASSUME NEW s, SoundSettings(s)
  PROVE  Value(LoadSettings(s), EncodedLogonACL) =
           IF EncodedLogonACL \in DOMAIN s /\ ~Shadowed(s, EncodedLogonACL)
           THEN s[EncodedLogonACL] ELSE Empty
<1> DEFINE E == EncodedLogonACL
           t == LoadSettings(s)
<1>1. IsKey(E) /\ Written(E) = E
  BY PathsAssumption, WrittenIsAPath
<1>2. /\ E \in DOMAIN s /\ ~Shadowed(s, E) => E \in DOMAIN t /\ t[E] = s[E]
      /\ E \in Strings(t) => E \in DOMAIN s /\ ~Shadowed(s, E)
  BY <1>1, LoadedSettings
<1> HIDE DEF E, t
<1>3. E \in DOMAIN s => s[E] \in Values
  BY DEF SoundSettings
<1>4. Value(t, E) = IF E \in DOMAIN s /\ ~Shadowed(s, E) THEN s[E] ELSE Empty
  BY <1>2, <1>3, ValuesAssumption DEF Value, Strings
<1> QED
  BY <1>4 DEF E, t

LEMMA StoredIsASetting ==
  ASSUME BinaryInv, Stored # Empty
  PROVE  /\ EncodedLogonACL \in DOMAIN settings /\ ~Shadowed(settings, EncodedLogonACL)
         /\ Stored = settings[EncodedLogonACL]
BY SavedListRead DEF BinaryInv, Stored

\* A list is saved below the key that it is set in.
LEMMA StoredNeedsKey == BinaryInv /\ Stored # Empty => HasKey
BY StoredIsASetting, PathsAssumption DEF HasKey

\* Opening, resetting or closing a window puts the saved list into the registry, if one is.
LEMMA RevertedToStored ==
  ASSUME BinaryInv
  PROVE  Stored \in {Empty, AclSet(RemoveValue(Loaded, LogonACL))}
<1> SUFFICES ASSUME Stored # Empty
             PROVE  Value(RemoveValue(Loaded, LogonACL), EncodedLogonACL) = Stored
  BY StoredNeedsKey DEF AclSet
<1>1. Written(EncodedLogonACL) = EncodedLogonACL
  BY PathsAssumption, WrittenIsAPath
<1>2. Clear(EncodedLogonACL)
  <2>1. IsPath(EncodedLogonACL) /\ Len(EncodedLogonACL) = 2 /\ Len(LogonACL) = 2
        /\ EncodedLogonACL # LogonACL
    BY PathsAssumption DEF IsPath
  <2> QED
    BY <2>1, PathsAbove DEF Clear
<1> QED
  BY <1>1, <1>2, StoredIsASetting, LoadedIsRead

\* Flushing puts the list of the configuration in force and stores it, or leaves both, or
\* stores it and there is no key to put it in force.
LEMMA FlushedList ==
  ASSUME BinaryInv, NEW c \in Consoles, Finish(c)
  PROVE  \/ Stored' \in {Empty, acl'}
         \/ fresh' /\ acl' = NoACL
         \/ acl' = acl /\ Stored' = Stored /\ fresh' = fresh
<1> DEFINE t == config[c]
           u == RemoveValue(t, LogonACL)
           E == EncodedLogonACL
<1>1. /\ settings' = FlushSettings(settings, u) /\ acl' = AclSet(t) /\ Sound(u)
      /\ \A p \in Strings(t) : p \in Strings(u) /\ u[p] = t[p]
      /\ \A p \in Strings(u) : p \in Strings(t) /\ IsPath(p) /\ Len(p) # 1
  BY FlushIsWhole
<1>f. fresh' = IF E \in Strings(t) THEN ~HasKey ELSE fresh
  BY FlushIsWhole, Zenon
<1>2. /\ DOMAIN settings \subseteq DOMAIN settings'
      /\ \A p \in Strings(u) : Key(p) \in DOMAIN settings' /\ settings'[Key(p)] = u[p]
      /\ \A k \in DOMAIN settings' :
           (\A p \in Strings(u) : Key(p) # k) => k \in DOMAIN settings /\ settings'[k] = settings[k]
  BY <1>1, Flushed DEF BinaryInv
<1>3. IsKey(E) /\ Written(E) = E /\ Key(E) = E
  BY PathsAssumption, WrittenIsAPath
<1> HIDE DEF t, u, E
<1> SUFFICES ASSUME Stored' # Empty
             PROVE  \/ Stored' = acl'
                    \/ fresh' /\ acl' = NoACL
                    \/ acl' = acl /\ Stored' = Stored /\ fresh' = fresh
  OBVIOUS
<1>4. BinaryInv'
  BY ApplySteps
<1>5. E \in DOMAIN settings' /\ ~Shadowed(settings', E) /\ Stored' = settings'[E]
  BY <1>4, SavedListRead DEF BinaryInv, Stored, E
<1>6. CASE E \in Strings(t)
  <2>1. settings'[E] = t[E]
    BY <1>1, <1>2, <1>3, <1>6
  <2>2. Value(t, E) = t[E]
    BY <1>6 DEF Value
  <2>3. CASE HasKey
    BY <1>1, <1>5, <2>1, <2>2, <2>3 DEF AclSet, E
  <2>4. CASE ~HasKey
    <3>1. fresh'
      BY <1>f, <1>6, <2>4, Zenon
    <3>2. acl = NoACL /\ acl' = acl
      BY <1>1, <2>4 DEF AclSet, HasKey
    <3> QED
      BY <3>1, <3>2, Zenon
  <2> QED
    BY <2>3, <2>4
<1>7. CASE E \notin Strings(t)
  <2>1. \A p \in Strings(u) : Key(p) # E
    BY <1>1, <1>3, <1>7, PathIsWritten
  <2>2. E \in DOMAIN settings /\ settings'[E] = settings[E]
    BY <1>2, <1>5, <2>1
  <2>3. ~Shadowed(settings, E)
    BY <1>2, <1>5 DEF Shadowed
  <2>4. Stored = settings[E]
    BY <2>2, <2>3, SavedListRead DEF BinaryInv, Stored, E
  <2>5. acl' = acl
    BY <1>1, <1>7 DEF AclSet, Value, E
  <2>6. fresh' = fresh
    BY <1>f, <1>7, Zenon
  <2> QED
    BY <1>5, <2>2, <2>4, <2>5, <2>6
<1> QED
  BY <1>6, <1>7

LEMMA ForceNext == BinaryInv /\ ForceInv /\ [Next]_vars => ForceInv'
<1> SUFFICES ASSUME BinaryInv, ForceInv, [Next]_vars, ~disturbed' PROVE ForceInv'
  BY DEF ForceInv
<1>1. CASE UNCHANGED vars
  BY <1>1 DEF vars, ForceInv, InForce, Stored
<1>2. ASSUME NEW c \in Consoles, Open(c)
      PROVE  ForceInv'
  <2>1. at' = [at EXCEPT ![c] = "window"] /\ ~disturbed /\ \A d \in Consoles \ {c} : at[d] = "off"
    BY <1>2 DEF Open, Enter
  <2>2. at'[c] = "window" /\ \A d \in Consoles \ {c} : at'[d] = "off"
    BY <2>1 DEF BinaryInv
  <2> QED
    BY <2>2 DEF ForceInv
<1>3. ASSUME NEW c \in Consoles,
             \/ ApplySettings(c)
             \/ \E k \in Editable, v \in Values \ Acls : SetConfigValue(c, k, v)
      PROVE  ForceInv'
  <2>1. /\ at[c] = "off" /\ Enter(c, "command") /\ UNCHANGED <<acl, settings, fresh>>
    BY <1>3 DEF ApplySettings, SetConfigValue, UnchangedStore
  <2>2. /\ at' = [at EXCEPT ![c] = "command"] /\ ~disturbed
        /\ \A d \in Consoles \ {c} : at[d] = "off"
    BY <2>1 DEF Enter
  <2>3. at'[c] = "command" /\ \A d \in Consoles \ {c} : at'[d] = "off"
    BY <2>2 DEF BinaryInv
  <2>4. InForce
    BY <2>1, <2>2 DEF ForceInv
  <2> QED
    BY <2>1, <2>3, <2>4 DEF ForceInv, InForce, Stored
<1>4. ASSUME NEW c \in Consoles, at[c] = "window", at'[c] # "off", at'[c] # "command",
             \A d \in Consoles \ {c} : at'[d] = at[d], ~disturbed
      PROVE  ForceInv'
  BY <1>4 DEF ForceInv
<1>5. ASSUME NEW c \in Consoles,
             \/ ResetButton(c) \/ Apply(c) \/ SaveToFile(c) \/ LoadFromFile(c)
             \/ \E k \in Editable, v \in Values \ Acls : Edit(c, k, v)
             \/ \E a \in Acls : EditACL(c, a)
      PROVE  ForceInv'
  <2>1. /\ at[c] = "window" /\ disturbed' = disturbed
        /\ at' = at \/ at' = [at EXCEPT ![c] = "applying"]
    BY <1>5 DEF ResetButton, Apply, SaveToFile, LoadFromFile, Edit, EditACL
  <2>2. at'[c] \in {"window", "applying"} /\ \A d \in Consoles \ {c} : at'[d] = at[d]
    BY <2>1 DEF BinaryInv
  <2> QED
    BY <1>4, <2>1, <2>2
<1>6. ASSUME NEW c \in Consoles, Finish(c) PROVE ForceInv'
  <2>1. /\ at[c] \in {"applying", "command"} /\ ~disturbed
        /\ at' = [at EXCEPT ![c] = IF @ = "command" THEN "off" ELSE "window"]
    BY <1>6 DEF Finish
  <2>2. \A d \in Consoles \ {c} : at[d] = "off"
    BY <2>1 DEF ForceInv
  <2>3. /\ at'[c] = IF at[c] = "command" THEN "off" ELSE "window"
        /\ \A d \in Consoles \ {c} : at'[d] = "off"
    BY <2>1, <2>2 DEF BinaryInv
  <2>4. CASE at[c] = "applying"
    BY <2>3, <2>4 DEF ForceInv
  <2>5. CASE at[c] = "command"
    <3>1. InForce
      BY <2>1, <2>2, <2>5 DEF ForceInv
    <3>2. InForce'
      BY <1>6, <3>1, FlushedList DEF InForce
    <3> QED
      BY <2>3, <2>5, <3>2 DEF ForceInv
  <2> QED
    BY <2>1, <2>4, <2>5
<1>7. ASSUME NEW c \in Consoles, Close(c) PROVE ForceInv'
  <2>1. /\ at[c] = "window" /\ at' = [at EXCEPT ![c] = "off"] /\ ~disturbed
        /\ acl' = AclSet(RemoveValue(Loaded, LogonACL)) /\ UNCHANGED settings
    BY <1>7 DEF Close, Enter, UnchangedStore
  <2>2. \A d \in Consoles \ {c} : at[d] = "off"
    BY <2>1 DEF ForceInv
  <2>3. \A d \in Consoles : at'[d] = "off"
    BY <2>1, <2>2 DEF BinaryInv
  <2>4. Stored' \in {Empty, acl'}
    BY <2>1, RevertedToStored DEF Stored
  <2> QED
    BY <2>3, <2>4 DEF ForceInv, InForce
<1>8. ASSUME NEW c \in Consoles, Kill(c) PROVE ForceInv'
  BY <1>8 DEF Kill
<1> QED
  BY <1>1, <1>2, <1>3, <1>5, <1>6, <1>7, <1>8 DEF Next

\* One console at a time, and a saved list that is in force unless a window is open or there
\* was no key to set it in.
THEOREM ForceInvariant == Spec => []ForceInv
<1>1. Init => ForceInv
  <2> SUFFICES ASSUME Init PROVE Stored \in {Empty, acl}
    BY DEF Init, ForceInv, InForce
  <2>1. CASE settings = NoTree
    <3>1. Stored = Empty
      BY <2>1, BinaryInit, StoredIsASetting DEF NoTree
    <3> QED
      BY <3>1
  <2>2. CASE settings = [k \in {EncodedLogonACL} |-> acl]
    <3>1. Stored # Empty => Stored = acl
      BY <2>2, BinaryInit, StoredIsASetting
    <3> QED
      BY <3>1
  <2> QED
    BY <2>1, <2>2 DEF Init
<1> QED
  BY <1>1, ForceNext, BinaryInvariant, PTL DEF Spec

\* When no console is left, the list in force is the one that is saved, if one is, but for
\* the one that was saved without a key to set it in (imc/src/MainWindow.cpp, closeEvent()
\* and applyConfiguration(), imc/src/LogonAclSettings.h, setACL()).
THEOREM StoredListInForce == Spec => []StoredACLInForce
<1>1. ForceInv => StoredACLInForce
  BY DEF ForceInv, InForce, StoredACLInForce, Quiet
<1> QED
  BY <1>1, ForceInvariant, PTL

=============================================================================
