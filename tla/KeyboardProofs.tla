--------------------------- MODULE KeyboardProofs ----------------------------
(***************************************************************************)
(* Theorems about the two ends of the keyboard: KeyMapLock, for any number *)
(* of locks and processes, and RemoteView, for any keyboard and any queue  *)
(* of events.  The two share no state.                                     *)
(***************************************************************************)
EXTENDS KeyMapLock, RemoteView, SequenceTheorems, TLAPS

----------------------------------------------------------------------------
(* The key map of a locked computer.                                        *)

LaunchedInOrder == \A p \in Procs : p > created => state[p] = "unborn"

\* Process p has saved the key map and has yet to restore it.
Holds(p) == state[p] \in {"saved", "locked"}

\* What a process holds was saved, it met only what had saved before it, and only
\* what has ended was killed.
HeldIsSaved ==
  /\ \A p \in Procs : Holds(p) => origKeyTable[p] # "none"
  /\ \A p \in Procs : \A q \in met[p] : state[q] \notin {"unborn", "starting"}
  /\ \A p \in killed : state[p] = "dead"

\* Process q saved the map when p had emptied it.
Beneath(p, q) == p # q /\ state[p] = "locked" /\ q \notin met[p]

\* Unless a process was killed or ended before one it is beneath, the original is
\* in place when nobody locks, and in the hands of those who saved it then.
MapIsSafe ==
  killed = {} /\ ~crossed =>
    /\ (\A p \in Procs : state[p] # "locked") => keyMap = "original"
    /\ \A q \in Procs : Holds(q) /\ (\A p \in Procs : ~Beneath(p, q))
                         => origKeyTable[q] = "original"

\* One that had saved the original before p emptied the map has restored it.
Broken(p) == \E q \in met[p] \ killed : state[q] = "dead" /\ origKeyTable[q] = "original"

\* Who can bring the keyboard back that p locks had the original before it did,
\* or has it from one that already brought it back.
OnlyByEarlier ==
  \A p \in Procs : state[p] = "locked" =>
    /\ keyMap # "empty" => Broken(p)
    /\ \A r \in Procs \ {p} : Holds(r) /\ origKeyTable[r] = "original"
                               => r \in met[p] \/ Broken(p)

Custody == MapIsSafe /\ OnlyByEarlier

(* The type invariant (InputDeviceBlocker.cpp:54-156).                         *)
THEOREM LockTypeCorrect == LockSpec => [](LockTypeOK /\ LaunchedInOrder /\ HeldIsSaved)
<1> DEFINE Types == LockTypeOK /\ LaunchedInOrder /\ HeldIsSaved
<1> USE ProcsAssumption DEF Procs, Nobody
<1>1. LockInit => Types
  <2> SUFFICES ASSUME LockInit PROVE Types
    OBVIOUS
  <2>1. crossed \in BOOLEAN
    BY Zenon DEF LockInit
  <2> QED BY <2>1 DEF LockInit, LockTypeOK, LaunchedInOrder, HeldIsSaved, Holds
<1>2. Types /\ [LockNext]_lockVars => Types'
  <2> SUFFICES ASSUME Types, [LockNext]_lockVars PROVE Types'
    OBVIOUS
  <2> USE DEF LockTypeOK, LaunchedInOrder, HeldIsSaved, Holds
  <2>1. ASSUME NEW id \in Ids, Lock(id) PROVE Types'
    BY <2>1 DEF Lock, history
  <2>2. ASSUME NEW id \in Ids, Unlock(id) PROVE Types'
    BY <2>2 DEF Unlock, history
  <2>3. ASSUME NEW p \in Procs, Enable(p) PROVE Types'
    BY <2>3 DEF Enable, SaveKeyMapTable, history
  <2>4. ASSUME NEW p \in Procs, SetEmptyKeyMapTable(p) PROVE Types'
    BY <2>4 DEF SetEmptyKeyMapTable, Others
  <2>5. ASSUME NEW p \in Procs, Disable(p) PROVE Types'
    <3>1. crossed' \in BOOLEAN
      BY <2>5, Zenon DEF Disable
    <3> QED BY <2>5, <3>1 DEF Disable, RestoreKeyMapTable
  <2>6. ASSUME NEW p \in Procs, Kill(p) PROVE Types'
    BY <2>6 DEF Kill, Over
  <2>7. CASE UNCHANGED lockVars
    BY <2>7 DEF lockVars, history
  <2> QED BY <2>1, <2>2, <2>3, <2>4, <2>5, <2>6, <2>7 DEF LockNext
<1> QED BY <1>1, <1>2, PTL DEF LockSpec

\* A lock launches a process that was not there.
LEMMA LaunchesUnborn ==
  ASSUME LockTypeOK, LaunchedInOrder, NEW id \in Ids, Lock(id)
  PROVE  \A q \in Procs : state[q] # "unborn" => state'[q] = state[q]
<1>1. created + 1 \in Procs /\ created + 1 > created
  BY ProcsAssumption DEF Lock, LockTypeOK, Procs, Nobody
<1>2. state[created + 1] = "unborn"
  BY <1>1 DEF LaunchedInOrder
<1> QED BY <1>1, <1>2 DEF Lock, LockTypeOK

\* Every step keeps the original in safe hands.
LEMMA MapIsSafeStep ==
  LockTypeOK /\ LaunchedInOrder /\ HeldIsSaved /\ MapIsSafe /\ [LockNext]_lockVars
    => MapIsSafe'
<1> SUFFICES ASSUME LockTypeOK, LaunchedInOrder, HeldIsSaved, MapIsSafe, [LockNext]_lockVars,
                    killed' = {}, ~crossed'
             PROVE  MapIsSafe'
  BY DEF MapIsSafe
<1>a. killed = {} /\ ~crossed
  <2>1. ~crossed
    BY Zenon DEF LockNext, Lock, Unlock, Enable, SetEmptyKeyMapTable, Disable, Kill,
                 lockVars, history
  <2>2. killed = {}
    BY DEF LockNext, Lock, Unlock, Enable, SetEmptyKeyMapTable, Disable, Kill,
           lockVars, history
  <2> QED BY <2>1, <2>2
<1>b. /\ (\A p \in Procs : state[p] # "locked") => keyMap = "original"
      /\ \A q \in Procs : Holds(q) /\ (\A p \in Procs : ~Beneath(p, q))
                           => origKeyTable[q] = "original"
  BY <1>a DEF MapIsSafe
<1> USE DEF LockTypeOK, Holds, Beneath
<1>1. ASSUME NEW id \in Ids, Lock(id) PROVE MapIsSafe'
  <2>1. \A q \in Procs : state'[q] # "starting" => state'[q] = state[q]
    BY <1>1 DEF Lock
  <2>2. \A q \in Procs : state[q] = "locked" => state'[q] = "locked"
    BY <1>1, LaunchesUnborn
  <2>3. UNCHANGED <<keyMap, origKeyTable, met>>
    BY <1>1 DEF Lock, history
  <2> QED BY <1>b, <2>1, <2>2, <2>3 DEF MapIsSafe
<1>2. ASSUME NEW id \in Ids, Unlock(id) PROVE MapIsSafe'
  BY <1>2, <1>b DEF Unlock, history, MapIsSafe
<1>3. ASSUME NEW p \in Procs, Enable(p) PROVE MapIsSafe'
  <2>1. \A r \in Procs : p \notin met[r]
    BY <1>3 DEF Enable, HeldIsSaved
  <2>2. (\A r \in Procs : ~Beneath(r, p)') => origKeyTable'[p] = "original"
    BY <1>3, <1>b, <2>1 DEF Enable, SaveKeyMapTable, history
  <2> QED BY <1>3, <1>b, <2>2 DEF Enable, SaveKeyMapTable, history, MapIsSafe
<1>4. ASSUME NEW p \in Procs, SetEmptyKeyMapTable(p) PROVE MapIsSafe'
  BY <1>4, <1>b DEF SetEmptyKeyMapTable, Others, MapIsSafe
<1>5. ASSUME NEW p \in Procs, Disable(p) PROVE MapIsSafe'
  <2>1. /\ state[p] = "locked" /\ keyMap' = origKeyTable[p]
        /\ state' = [state EXCEPT ![p] = "dead"]
        /\ Others(p) \subseteq met[p] /\ UNCHANGED <<origKeyTable, met>>
    BY <1>5 DEF Disable, RestoreKeyMapTable
  <2>2. (\A r \in Procs : state'[r] # "locked") => keyMap' = "original"
    BY <1>b, <2>1
  <2>3. ASSUME NEW q \in Procs, Holds(q)', \A r \in Procs : ~Beneath(r, q)'
        PROVE  origKeyTable'[q] = "original"
    BY <1>b, <2>1, <2>3 DEF Others
  <2> QED BY <2>2, <2>3 DEF MapIsSafe
<1>6. ASSUME NEW p \in Procs, Kill(p) PROVE MapIsSafe'
  BY <1>6 DEF Kill
<1>7. CASE UNCHANGED lockVars
  BY <1>7, <1>b DEF lockVars, history, MapIsSafe
<1> QED BY <1>1, <1>2, <1>3, <1>4, <1>5, <1>6, <1>7 DEF LockNext

\* Every step leaves the bringing back to those that saved the original in time.
LEMMA OnlyByEarlierStep ==
  LockTypeOK /\ LaunchedInOrder /\ HeldIsSaved /\ OnlyByEarlier /\ [LockNext]_lockVars
    => OnlyByEarlier'
<1> SUFFICES ASSUME LockTypeOK, LaunchedInOrder, HeldIsSaved, OnlyByEarlier,
                    [LockNext]_lockVars,
                    NEW p \in Procs, state'[p] = "locked"
             PROVE  /\ keyMap' # "empty" => Broken(p)'
                    /\ \A r \in Procs \ {p} : Holds(r)' /\ origKeyTable'[r] = "original"
                                               => r \in met'[p] \/ Broken(p)'
  BY DEF OnlyByEarlier
<1> DEFINE Goal == /\ keyMap' # "empty" => Broken(p)'
                   /\ \A r \in Procs \ {p} : Holds(r)' /\ origKeyTable'[r] = "original"
                                              => r \in met'[p] \/ Broken(p)'
<1> USE DEF LockTypeOK, Holds
<1>a. state[p] = "locked" =>
        /\ keyMap # "empty" => Broken(p)
        /\ \A r \in Procs \ {p} : Holds(r) /\ origKeyTable[r] = "original"
                                   => r \in met[p] \/ Broken(p)
  BY DEF OnlyByEarlier
<1>1. ASSUME NEW id \in Ids, Lock(id) PROVE Goal
  <2>1. \A q \in Procs : state'[q] # "starting" => state'[q] = state[q]
    BY <1>1 DEF Lock
  <2>2. Broken(p) => Broken(p)'
    <3>1. \A q \in Procs : state[q] = "dead" => state'[q] = "dead"
      BY <1>1, LaunchesUnborn
    <3>2. met \in [Procs -> SUBSET Procs] /\ UNCHANGED <<met, killed, origKeyTable>>
      BY <1>1 DEF Lock, history
    <3> QED BY <3>1, <3>2 DEF Broken
  <2> QED BY <1>1, <1>a, <2>1, <2>2 DEF Lock, history
<1>2. ASSUME NEW id \in Ids, Unlock(id) PROVE Goal
  BY <1>2, <1>a DEF Unlock, history, Broken
<1>3. ASSUME NEW q \in Procs, Enable(q) PROVE Goal
  <2>1. state[p] = "locked" /\ q # p
    BY <1>3 DEF Enable
  <2>2. Broken(p) => Broken(p)'
    BY <1>3 DEF Enable, SaveKeyMapTable, history, Broken
  <2> QED BY <1>3, <1>a, <2>1, <2>2 DEF Enable, SaveKeyMapTable, history
<1>4. ASSUME NEW q \in Procs, SetEmptyKeyMapTable(q) PROVE Goal
  <2>1. CASE q = p
    BY <1>4, <2>1 DEF SetEmptyKeyMapTable, Others
  <2>2. CASE q # p
    BY <1>4, <1>a, <2>2 DEF SetEmptyKeyMapTable, Broken
  <2> QED BY <2>1, <2>2
<1>5. ASSUME NEW q \in Procs, Disable(q) PROVE Goal
  <2>1. /\ state[q] = "locked" /\ keyMap' = origKeyTable[q]
        /\ state' = [state EXCEPT ![q] = "dead"]
        /\ UNCHANGED <<origKeyTable, met, killed>>
    BY <1>5 DEF Disable, RestoreKeyMapTable
  <2>2. state[p] = "locked" /\ q # p
    BY <2>1
  <2>3. Broken(p) => Broken(p)'
    BY <2>1 DEF Broken
  <2>4. q \in met[p] /\ origKeyTable[q] = "original" => Broken(p)'
    BY <2>1 DEF Broken, HeldIsSaved
  <2>5. keyMap' # "empty" => origKeyTable[q] = "original"
    BY <2>1 DEF HeldIsSaved
  <2> QED BY <1>a, <2>1, <2>2, <2>3, <2>4, <2>5
<1>6. ASSUME NEW q \in Procs, Kill(q) PROVE Goal
  BY <1>6, <1>a DEF Kill, Over, Broken
<1>7. CASE UNCHANGED lockVars
  BY <1>7, <1>a DEF lockVars, history, Broken
<1> QED BY <1>1, <1>2, <1>3, <1>4, <1>5, <1>6, <1>7 DEF LockNext

(* However locks overlap, slaves that end properly and in order do not lose    *)
(* the original key map, and only those that had it in time can bring a locked *)
(* keyboard back (InputDeviceBlocker.cpp:54-84).                               *)
THEOREM CustodyInvariant == LockSpec => []Custody
<1>1. LockInit => Custody
  BY DEF LockInit, Custody, MapIsSafe, OnlyByEarlier, Holds
<1> QED BY <1>1, MapIsSafeStep, OnlyByEarlierStep, LockTypeCorrect, PTL DEF LockSpec, Custody

(* The keyboard works again once every locking process is gone                *)
(* (InputDeviceBlocker.cpp:54-156).                                            *)
THEOREM KeyboardComesBack == LockSpec => []KeyboardBack
<1>1. Custody => KeyboardBack
  BY DEF Custody, MapIsSafe, KeyboardBack, Over
<1> QED BY <1>1, CustodyInvariant, PTL

(* A locked keyboard is brought back only by the proper end of a lock that had *)
(* saved the original before this one emptied it (InputDeviceBlocker.cpp:66-82). *)
THEOREM UnlockedOnlyByEarlier == LockSpec => []UnlockedByEarlierOnly
<1>1. Custody => UnlockedByEarlierOnly
  BY DEF Custody, OnlyByEarlier, Broken, UnlockedByEarlierOnly
<1> QED BY <1>1, CustodyInvariant, PTL

----------------------------------------------------------------------------
(* The modifiers of the remote view.  After is the fold of Apply: without   *)
(* events nothing changes, one event is Apply, and events compose.          *)

\* No event, no change.
LEMMA AfterNothing == ASSUME NEW r \in SUBSET Keys PROVE After(<<>>, r) = r
BY DEF After, Pressed, Touched

\* One event: After agrees with Apply, which is what the computer does with it.
LEMMA AfterOne ==
  ASSUME NEW e \in KeyEvents, NEW r \in SUBSET Keys PROVE After(<<e>>, r) = Apply(r, e)
<1>1. 1..Len(<<e>>) = {1} /\ <<e>>[1] = e
  OBVIOUS
<1>2. e.key \in Keys /\ e.down \in BOOLEAN
  BY DEF KeyEvents
<1>3. \A k \in Keys : /\ Touched(<<e>>, k) <=> e.key = k
                      /\ Pressed(<<e>>, k) <=> e.key = k /\ e.down
  BY <1>1 DEF Touched, Pressed
<1> QED BY <1>2, <1>3 DEF After, Apply

\* Events after events.
LEMMA AfterBoth ==
  ASSUME NEW q \in Seq(KeyEvents), NEW t \in Seq(KeyEvents), NEW r \in SUBSET Keys
  PROVE  q \o t \in Seq(KeyEvents) /\ After(q \o t, r) = After(t, After(q, r))
<1> DEFINE qt == q \o t
<1>1. /\ Len(q) \in Nat /\ Len(t) \in Nat
      /\ Len(qt) = Len(q) + Len(t)
      /\ qt \in Seq(KeyEvents)
      /\ \A i \in 1..Len(q) + Len(t) : qt[i] = IF i <= Len(q) THEN q[i] ELSE t[i - Len(q)]
  BY ConcatProperties
<1>2. /\ \A i \in 1..Len(q) : i \in 1..Len(qt) /\ qt[i] = q[i]
      /\ \A i \in 1..Len(t) : Len(q) + i \in 1..Len(qt) /\ qt[Len(q) + i] = t[i]
      /\ \A i \in 1..Len(qt) : \/ i \in 1..Len(q)
                               \/ /\ i - Len(q) \in 1..Len(t) /\ qt[i] = t[i - Len(q)]
                                  /\ i > Len(q)
  BY <1>1
<1> HIDE DEF qt
<1>3. ASSUME NEW k \in Keys
      PROVE  Touched(qt, k) <=> Touched(q, k) \/ Touched(t, k)
  <2>1. Touched(q, k) => Touched(qt, k)
    BY <1>2 DEF Touched
  <2>2. Touched(t, k) => Touched(qt, k)
    BY <1>2 DEF Touched
  <2>3. ASSUME NEW i \in 1..Len(qt), qt[i].key = k PROVE Touched(q, k) \/ Touched(t, k)
    BY <1>2, <2>3 DEF Touched
  <2> QED BY <2>1, <2>2, <2>3 DEF Touched
<1>4. ASSUME NEW k \in Keys
      PROVE  Pressed(qt, k) <=> Pressed(t, k) \/ (Pressed(q, k) /\ ~Touched(t, k))
  <2>1. ASSUME Pressed(t, k) PROVE Pressed(qt, k)
    <3>1. PICK i \in 1..Len(t) : /\ t[i].key = k /\ t[i].down
                                 /\ \A j \in 1..Len(t) : j > i => t[j].key # k
      BY <2>1 DEF Pressed
    <3>2. ASSUME NEW j \in 1..Len(qt), j > Len(q) + i PROVE qt[j].key # k
      <4>1. j - Len(q) \in 1..Len(t) /\ qt[j] = t[j - Len(q)] /\ j - Len(q) > i
        BY <1>1, <1>2, <3>2
      <4> QED BY <3>1, <4>1
    <3>3. Len(q) + i \in 1..Len(qt) /\ qt[Len(q) + i] = t[i]
      BY <1>2
    <3> QED BY <3>1, <3>2, <3>3 DEF Pressed
  <2>2. ASSUME Pressed(q, k), ~Touched(t, k) PROVE Pressed(qt, k)
    <3>1. PICK i \in 1..Len(q) : /\ q[i].key = k /\ q[i].down
                                 /\ \A j \in 1..Len(q) : j > i => q[j].key # k
      BY <2>2 DEF Pressed
    <3>2. ASSUME NEW j \in 1..Len(qt), j > i PROVE qt[j].key # k
      <4>1. CASE j \in 1..Len(q)
        BY <1>2, <3>1, <3>2, <4>1
      <4>2. CASE j \notin 1..Len(q)
        <5>1. j - Len(q) \in 1..Len(t) /\ qt[j] = t[j - Len(q)]
          BY <1>2, <4>2
        <5> QED BY <2>2, <5>1 DEF Touched
      <4> QED BY <4>1, <4>2
    <3>3. i \in 1..Len(qt) /\ qt[i] = q[i]
      BY <1>2
    <3> QED BY <3>1, <3>2, <3>3 DEF Pressed
  <2>3. ASSUME Pressed(qt, k) PROVE Pressed(t, k) \/ (Pressed(q, k) /\ ~Touched(t, k))
    <3>1. PICK i \in 1..Len(qt) : /\ qt[i].key = k /\ qt[i].down
                                  /\ \A j \in 1..Len(qt) : j > i => qt[j].key # k
      BY <2>3 DEF Pressed
    <3>2. CASE i \in 1..Len(q)
      <4>1. ASSUME NEW j \in 1..Len(t) PROVE t[j].key # k
        <5>1. Len(q) + j > i
          BY <1>1, <3>2
        <5>2. Len(q) + j \in 1..Len(qt) /\ qt[Len(q) + j] = t[j]
          BY <1>2
        <5> QED BY <3>1, <5>1, <5>2
      <4>2. \A j \in 1..Len(q) : j > i => q[j].key # k
        BY <1>2, <3>1
      <4> QED BY <1>2, <3>1, <3>2, <4>1, <4>2 DEF Pressed, Touched
    <3>3. CASE i \notin 1..Len(q)
      <4>1. i - Len(q) \in 1..Len(t) /\ qt[i] = t[i - Len(q)]
        BY <1>2, <3>3
      <4>2. \A j \in 1..Len(t) : j > i - Len(q) => Len(q) + j > i
        BY <1>1
      <4>3. \A j \in 1..Len(t) : j > i - Len(q) => t[j].key # k
        BY <1>2, <3>1, <4>2
      <4> QED BY <3>1, <4>1, <4>3 DEF Pressed
    <3> QED BY <3>2, <3>3
  <2> QED BY <2>1, <2>2, <2>3
<1> QED BY <1>1, <1>3, <1>4 DEF After, qt

\* The first event is applied: what is down in the end does not change.
LEMMA AfterFirst ==
  ASSUME NEW q \in Seq(KeyEvents), q # <<>>, NEW r \in SUBSET Keys
  PROVE  /\ Head(q) \in KeyEvents /\ Tail(q) \in Seq(KeyEvents)
         /\ Apply(r, Head(q)) \in SUBSET Keys
         /\ After(q, r) = After(Tail(q), Apply(r, Head(q)))
<1>1. /\ Head(q) \in KeyEvents /\ Tail(q) \in Seq(KeyEvents)
      /\ <<Head(q)>> \in Seq(KeyEvents)
  OBVIOUS
<1>2. q = <<Head(q)>> \o Tail(q)
  <2>1. /\ Len(q) \in Nat \ {0} /\ Len(Tail(q)) = Len(q) - 1 /\ Head(q) = q[1]
        /\ \A i \in 1..(Len(q) - 1) : Tail(q)[i] = q[i + 1]
    OBVIOUS
  <2>2. /\ <<Head(q)>> \o Tail(q) \in Seq(KeyEvents)
        /\ Len(<<Head(q)>> \o Tail(q)) = 1 + Len(Tail(q))
        /\ \A i \in 1..1 + Len(Tail(q)) : (<<Head(q)>> \o Tail(q))[i]
             = IF i <= 1 THEN <<Head(q)>>[i] ELSE Tail(q)[i - 1]
    BY <1>1, ConcatProperties
  <2>3. \A i \in 1..Len(q) : (<<Head(q)>> \o Tail(q))[i] = q[i]
    BY <2>1, <2>2
  <2> QED BY <2>1, <2>2, <2>3, SeqEqual
<1>3. Apply(r, Head(q)) \in SUBSET Keys
  BY <1>1 DEF Apply, KeyEvents
<1>4. After(<<Head(q)>> \o Tail(q), r) = After(Tail(q), After(<<Head(q)>>, r))
  BY <1>1, AfterBoth
<1> QED BY <1>1, <1>2, <1>3, <1>4, AfterOne

\* One press or release.
LEMMA AfterKey ==
  ASSUME NEW k \in Keys, NEW r \in SUBSET Keys
  PROVE  /\ Press(k) \in Seq(KeyEvents) /\ Release(k) \in Seq(KeyEvents)
         /\ After(Press(k), r) = r \cup {k} /\ After(Release(k), r) = r \ {k}
<1>1. [key |-> k, down |-> TRUE] \in KeyEvents /\ [key |-> k, down |-> FALSE] \in KeyEvents
  BY DEF KeyEvents
<1>2. /\ After(Press(k), r) = Apply(r, [key |-> k, down |-> TRUE])
      /\ After(Release(k), r) = Apply(r, [key |-> k, down |-> FALSE])
  BY <1>1, AfterOne DEF Press, Release
<1>3. Press(k) \in Seq(KeyEvents) /\ Release(k) \in Seq(KeyEvents)
  BY <1>1 DEF Press, Release
<1> QED BY <1>2, <1>3 DEF Apply

\* A key after other events.
LEMMA ThenKey ==
  ASSUME NEW q \in Seq(KeyEvents), NEW k \in Keys, NEW r \in SUBSET Keys
  PROVE  /\ q \o Press(k) \in Seq(KeyEvents) /\ q \o Release(k) \in Seq(KeyEvents)
         /\ After(q, r) \in SUBSET Keys
         /\ After(q \o Press(k), r) = After(q, r) \cup {k}
         /\ After(q \o Release(k), r) = After(q, r) \ {k}
<1>1. After(q, r) \in SUBSET Keys
  BY DEF After
<1>2. Press(k) \in Seq(KeyEvents) /\ Release(k) \in Seq(KeyEvents)
  BY AfterKey
<1>3. /\ q \o Press(k) \in Seq(KeyEvents) /\ After(q \o Press(k), r) = After(Press(k), After(q, r))
      /\ q \o Release(k) \in Seq(KeyEvents)
      /\ After(q \o Release(k), r) = After(Release(k), After(q, r))
  BY <1>2, AfterBoth
<1> QED BY <1>1, <1>3, AfterKey

\* unpressModifiers() leaves no modifier of m_mods down.
LEMMA AfterUnpress ==
  ASSUME mods \subseteq Modifiers, NEW r \in SUBSET Keys
  PROVE  Unpress \in Seq(KeyEvents) /\ After(Unpress, r) = r \ mods
<1>1. ASSUME NEW k \in Modifiers, NEW s \in SUBSET Keys
      PROVE  /\ ReleaseOf(k) \in Seq(KeyEvents)
             /\ After(ReleaseOf(k), s) = s \ (mods \cap {k})
  <2>1. k \in Keys /\ <<>> \in Seq(KeyEvents)
    BY DEF Keys
  <2>2. CASE k \in mods
    BY <2>1, <2>2, AfterKey DEF ReleaseOf
  <2>3. CASE k \notin mods
    BY <2>1, <2>3, AfterNothing DEF ReleaseOf
  <2> QED BY <2>2, <2>3
<1>2. "Control" \in Modifiers /\ "Alt" \in Modifiers /\ "Super" \in Modifiers
  BY DEF Modifiers
<1> DEFINE C == ReleaseOf("Control")
           A == ReleaseOf("Alt")
           S == ReleaseOf("Super")
<1>3. C \in Seq(KeyEvents) /\ A \in Seq(KeyEvents) /\ S \in Seq(KeyEvents)
  BY <1>1, <1>2
<1>4. C \o A \in Seq(KeyEvents) /\ After(C \o A, r) = After(A, After(C, r))
  BY <1>3, AfterBoth
<1>5. (C \o A) \o S \in Seq(KeyEvents) /\ After((C \o A) \o S, r) = After(S, After(C \o A, r))
  BY <1>3, <1>4, AfterBoth
<1>6. After(C, r) = r \ (mods \cap {"Control"})
  BY <1>1, <1>2
<1>7. After(A, After(C, r)) = (r \ (mods \cap {"Control"})) \ (mods \cap {"Alt"})
  BY <1>1, <1>2, <1>6
<1>8. After(S, After(C \o A, r))
        = ((r \ (mods \cap {"Control"})) \ (mods \cap {"Alt"})) \ (mods \cap {"Super"})
  BY <1>1, <1>2, <1>4, <1>7
<1>9. After(Unpress, r) = r \ mods
  <2>1. ((r \ (mods \cap {"Control"})) \ (mods \cap {"Alt"})) \ (mods \cap {"Super"}) = r \ mods
    BY DEF Modifiers
  <2> QED BY <1>5, <1>8, <2>1 DEF Unpress
<1> QED BY <1>5, <1>9 DEF Unpress

\* Ctrl, Alt and Del are all up in the end.
LEMMA AfterCtrlAltDel ==
  ASSUME NEW r \in SUBSET Keys
  PROVE  CtrlAltDel \in Seq(KeyEvents) /\ After(CtrlAltDel, r) = r \ {"Control", "Alt", "Delete"}
<1>1. "Control" \in Keys /\ "Alt" \in Keys /\ "Delete" \in Keys
  BY DEF Keys, Modifiers
<1> DEFINE s1 == Press("Control")
           s2 == s1 \o Press("Alt")
           s3 == s2 \o Press("Delete")
           s4 == s3 \o Release("Delete")
           s5 == s4 \o Release("Alt")
           s6 == s5 \o Release("Control")
<1>2. s1 \in Seq(KeyEvents) /\ After(s1, r) = r \cup {"Control"}
  BY <1>1, AfterKey
<1> HIDE DEF s1
<1>3. s2 \in Seq(KeyEvents) /\ After(s2, r) = r \cup {"Control"} \cup {"Alt"}
  BY <1>1, <1>2, ThenKey
<1> HIDE DEF s2
<1>4. s3 \in Seq(KeyEvents) /\ After(s3, r) = r \cup {"Control"} \cup {"Alt"} \cup {"Delete"}
  BY <1>1, <1>3, ThenKey
<1> HIDE DEF s3
<1>5. s4 \in Seq(KeyEvents)
      /\ After(s4, r) = (r \cup {"Control"} \cup {"Alt"} \cup {"Delete"}) \ {"Delete"}
  BY <1>1, <1>4, ThenKey
<1> HIDE DEF s4
<1>6. s5 \in Seq(KeyEvents)
      /\ After(s5, r) = ((r \cup {"Control"} \cup {"Alt"} \cup {"Delete"}) \ {"Delete"}) \ {"Alt"}
  BY <1>1, <1>5, ThenKey
<1> HIDE DEF s5
<1>7. s6 \in Seq(KeyEvents)
      /\ After(s6, r) = (((r \cup {"Control"} \cup {"Alt"} \cup {"Delete"}) \ {"Delete"}) \ {"Alt"})
                          \ {"Control"}
  BY <1>1, <1>6, ThenKey
<1>8. s6 = CtrlAltDel
  BY DEF s1, s2, s3, s4, s5, s6, CtrlAltDel
<1> QED BY <1>7, <1>8

\* What was trapped, presses and releases of Super: the last one counts.
LEMMA AfterTrapped ==
  ASSUME trapped \in Seq(BOOLEAN), trapped # <<>>, NEW r \in SUBSET Keys
  PROVE  /\ TrappedKeys \in Seq(KeyEvents)
         /\ After(TrappedKeys, r) = IF trapped[Len(trapped)] THEN r \cup {"Super"} ELSE r \ {"Super"}
<1>1. Len(trapped) \in Nat \ {0} /\ \A i \in 1..Len(trapped) : trapped[i] \in BOOLEAN
  OBVIOUS
<1>2. \A i \in 1..Len(trapped) : [key |-> "Super", down |-> trapped[i]] \in KeyEvents
  BY <1>1 DEF KeyEvents, Keys, Modifiers
<1>3. TrappedKeys \in Seq(KeyEvents) /\ Len(TrappedKeys) = Len(trapped)
  <2>1. TrappedKeys \in [1..Len(trapped) -> KeyEvents]
    BY <1>2 DEF TrappedKeys
  <2> QED BY <1>1, <2>1
<1>4. \A i \in 1..Len(trapped) : TrappedKeys[i].key = "Super" /\ TrappedKeys[i].down = trapped[i]
  BY DEF TrappedKeys
<1>5. Len(trapped) \in 1..Len(trapped) /\ \A j \in 1..Len(trapped) : ~(j > Len(trapped))
  BY <1>1
<1>6. Touched(TrappedKeys, "Super") /\ \A k \in Keys \ {"Super"} : ~Touched(TrappedKeys, k)
  BY <1>3, <1>4, <1>5 DEF Touched
<1>7. /\ \A k \in Keys \ {"Super"} : ~Pressed(TrappedKeys, k)
      /\ Pressed(TrappedKeys, "Super") <=> trapped[Len(trapped)]
  <2>1. \A i \in 1..Len(trapped) : i = Len(trapped) \/ Len(trapped) > i
    BY <1>1
  <2> QED BY <1>3, <1>4, <1>5, <2>1 DEF Pressed
<1>8. "Super" \in Keys
  BY DEF Keys, Modifiers
<1> QED BY <1>3, <1>6, <1>7, <1>8 DEF After

----------------------------------------------------------------------------
(* The remote view (VncView.cpp:118-508): the keys that are down.            *)

\* m_mods is what is down once the queue is fired.
Known == intact /\ open => InTheEnd \cap Modifiers = mods

\* A modifier the teacher does not hold strayed, or an event of Super waits; a
\* view without the keyboard has no other modifiers; a trapped press is a key that
\* is held, or strayed.
Excused ==
  open => /\ mods \ held \subseteq strayed \cup Pending
          /\ viewOnly => Pending \subseteq strayed
          /\ ~focus \/ (viewOnly /\ initDone) => mods \cup Pending \subseteq strayed
          /\ trapped # <<>> => windows
          /\ trapped # <<>> /\ trapped[Len(trapped)] => "Super" \in held \cup strayed

\* What is sent is applied in the end, unless it is lost.
LEMMA Sending ==
  ASSUME TypeOK, NEW es \in Seq(KeyEvents), Send(es)
  PROVE  /\ queue' \in Seq(KeyEvents) /\ UNCHANGED <<connected, remote>>
         /\ intact' \in BOOLEAN
         /\ InTheEnd \in SUBSET Keys
         /\ intact' => intact /\ InTheEnd' = After(es, InTheEnd)
<1>1. /\ queue' = IF connected THEN queue \o es ELSE queue
      /\ intact' = (intact /\ (connected \/ es = <<>>))
      /\ UNCHANGED <<connected, remote>>
  BY DEF Send
<1>2. queue \in Seq(KeyEvents) /\ remote \in SUBSET Keys
  BY DEF TypeOK
<1>3. queue \o es \in Seq(KeyEvents) /\ After(queue \o es, remote) = After(es, InTheEnd)
  BY <1>2, AfterBoth DEF InTheEnd
<1>4. es = <<>> => queue \o es = queue
  BY <1>2, ConcatEmptySeq
<1>5. intact' \in BOOLEAN
  BY <1>1, Zenon
<1>6. InTheEnd \in SUBSET Keys
  BY DEF InTheEnd, After
<1>7. intact' => intact /\ (connected \/ es = <<>>)
  BY <1>1, Zenon
<1>8. intact' => queue' = queue \o es
  BY <1>1, <1>4, <1>7
<1>9. intact' => InTheEnd' = After(es, InTheEnd)
  BY <1>1, <1>3, <1>8 DEF InTheEnd
<1> QED BY <1>1, <1>2, <1>3, <1>5, <1>6, <1>7, <1>9

\* The events turn the modifiers that are down from those of m_mods to those
\* that will be in it.
Explains(es) ==
  \A keys \in SUBSET Keys :
    keys \cap Modifiers = mods => After(es, keys) \cap Modifiers = mods'

\* keyEventHandler() and checkKeyEvent() keep m_mods and what they send in step.
LEMMA Handlers ==
  ASSUME TypeOK, NEW k \in Keyboard,
         HandleCtrlAltDel(k) \/ HandlePress(k) \/ HandleRelease(k)
  PROVE  mods' \subseteq Modifiers /\ \E es \in Seq(KeyEvents) : Send(es) /\ Explains(es)
<1>1. mods \subseteq Modifiers /\ k \in Keys /\ Modifiers \subseteq Keys
  BY KeyboardAssumption DEF TypeOK, Keys, Modifiers
<1>u. /\ Unpress \in Seq(KeyEvents)
      /\ \A keys \in SUBSET Keys : After(Unpress, keys) = keys \ mods
  BY <1>1, AfterUnpress
<1>2. CASE HandleCtrlAltDel(k)
  <2>1. Send(Unpress \o CtrlAltDel) /\ mods' = {}
    BY <1>2 DEF HandleCtrlAltDel
  <2>2. ASSUME NEW keys \in SUBSET Keys
        PROVE  /\ Unpress \o CtrlAltDel \in Seq(KeyEvents)
               /\ After(Unpress \o CtrlAltDel, keys) = (keys \ mods) \ {"Control", "Alt", "Delete"}
    <3>1. keys \ mods \in SUBSET Keys /\ CtrlAltDel \in Seq(KeyEvents)
      BY AfterCtrlAltDel
    <3>2. /\ Unpress \o CtrlAltDel \in Seq(KeyEvents)
          /\ After(Unpress \o CtrlAltDel, keys) = After(CtrlAltDel, After(Unpress, keys))
      BY <1>u, <3>1, AfterBoth
    <3>3. After(Unpress, keys) = keys \ mods
      BY <1>u
    <3> QED BY <3>1, <3>2, <3>3, AfterCtrlAltDel
  <2>3. Unpress \o CtrlAltDel \in Seq(KeyEvents)
    BY <2>2
  <2>4. Explains(Unpress \o CtrlAltDel)
    BY <2>1, <2>2 DEF Explains
  <2> QED BY <2>1, <2>3, <2>4
<1>3. CASE HandlePress(k)
  <2>1. Send(Press(k)) /\ mods' = mods \cup ({k} \cap Modifiers)
    BY <1>3 DEF HandlePress
  <2>2. ASSUME NEW keys \in SUBSET Keys, keys \cap Modifiers = mods
        PROVE  After(Press(k), keys) \cap Modifiers = mods'
    <3>1. After(Press(k), keys) = keys \cup {k}
      BY <1>1, AfterKey
    <3>2. (keys \cup {k}) \cap Modifiers = mods \cup ({k} \cap Modifiers)
      BY <2>2
    <3> QED BY <2>1, <3>1, <3>2
  <2>3. Explains(Press(k)) /\ Press(k) \in Seq(KeyEvents)
    BY <1>1, <2>2, AfterKey DEF Explains
  <2> QED BY <1>1, <2>1, <2>3
<1>4. CASE HandleRelease(k)
  <2>1. CASE k \in Modifiers \ mods
    <3>1. Send(Unpress \o Release(k)) /\ mods' = {}
      BY <1>4, <2>1 DEF HandleRelease
    <3>2. ASSUME NEW keys \in SUBSET Keys
          PROVE  /\ Unpress \o Release(k) \in Seq(KeyEvents)
                 /\ After(Unpress \o Release(k), keys) = (keys \ mods) \ {k}
      <4>1. After(Unpress, keys) = keys \ mods
        BY <1>u
      <4> QED BY <1>1, <1>u, <4>1, ThenKey
    <3>3. Unpress \o Release(k) \in Seq(KeyEvents)
      BY <3>2
    <3>4. Explains(Unpress \o Release(k))
      BY <3>1, <3>2 DEF Explains
    <3> QED BY <3>1, <3>3, <3>4
  <2>2. CASE k \notin Modifiers \ mods
    <3>1. Send(<<>> \o Release(k)) /\ mods' = mods \ {k}
      BY <1>4, <2>2 DEF HandleRelease
    <3>2. Release(k) \in Seq(KeyEvents) /\ <<>> \o Release(k) = Release(k)
      BY <1>1, AfterKey, ConcatEmptySeq
    <3>3. Explains(Release(k))
      BY <1>1, <3>1, AfterKey DEF Explains
    <3> QED BY <1>1, <3>1, <3>2, <3>3
  <2> QED BY <2>1, <2>2
<1> QED BY <1>2, <1>3, <1>4

\* keyEventHandler() for a trapped Super key never sees Ctrl+Alt+Del.
LEMMA TrappedHandler ==
  ASSUME TypeOK, CheckForTrappedKeys
  PROVE  mods' \subseteq Modifiers /\ \E es \in Seq(KeyEvents) : Send(es) /\ Explains(es)
<1>1. /\ Send(TrappedKeys) /\ trapped # <<>> /\ trapped \in Seq(BOOLEAN)
      /\ mods' = IF trapped[Len(trapped)] THEN mods \cup {"Super"} ELSE mods \ {"Super"}
  BY DEF CheckForTrappedKeys, TypeOK
<1>2. "Super" \in Modifiers /\ mods \subseteq Modifiers
  BY DEF Modifiers, TypeOK
<1>3. Explains(TrappedKeys)
  BY <1>1, <1>2, AfterTrapped DEF Explains
<1>4. TrappedKeys \in Seq(KeyEvents)
  BY <1>1, AfterTrapped
<1> QED BY <1>1, <1>2, <1>3, <1>4

\* Keys that are handled.
KeyHandled(k, down) ==
  /\ open /\ focus /\ ~Trapped(k) /\ ~Eaten(down)
  /\ IF down THEN HandleCtrlAltDel(k) \/ HandlePress(k) ELSE HandleRelease(k)
  /\ Recover
  /\ UNCHANGED trapped

Flags == /\ windows \in BOOLEAN /\ open \in BOOLEAN /\ focus \in BOOLEAN
         /\ viewOnly \in BOOLEAN /\ viewOnlyFocus \in BOOLEAN /\ initDone \in BOOLEAN
         /\ polls \in BOOLEAN /\ connected \in BOOLEAN

\* Every step keeps the types of the flags.
LEMMA FlagsStep == Flags /\ [Next]_vars => Flags'
<1> SUFFICES ASSUME Flags, [Next]_vars PROVE Flags'
  OBVIOUS
<1> USE DEF Flags, viewVars, connVars
<1>1. CASE Fire BY <1>1, Zenon DEF Fire
<1>2. CASE Connect BY <1>2, Zenon DEF Connect
<1>3. CASE Disconnect BY <1>3, Zenon DEF Disconnect
<1>4. CASE FirstImage BY <1>4, Zenon DEF FirstImage
<1>5. ASSUME NEW k \in Keyboard, NEW down \in BOOLEAN, Key(k, down) PROVE Flags'
  <2>1. UNCHANGED viewVars /\ UNCHANGED connected
    BY <1>5, Zenon DEF Key, HandleCtrlAltDel, HandlePress, HandleRelease, Send
  <2> QED BY <2>1, Zenon
<1>6. CASE CheckForTrappedKeys BY <1>6, Zenon DEF CheckForTrappedKeys, Send
<1>7. CASE ToggleViewOnly BY <1>7, Zenon DEF ToggleViewOnly, SetViewOnly
<1>8. CASE FocusOut BY <1>8, Zenon DEF FocusOut, SetViewOnly
<1>9. CASE FocusIn BY <1>9, Zenon DEF FocusIn, SetViewOnly
<1>10. CASE Close BY <1>10, Zenon DEF Close, Send
<1>11. CASE UNCHANGED vars BY <1>11, Zenon DEF vars
<1> QED BY <1>1, <1>2, <1>3, <1>4, <1>5, <1>6, <1>7, <1>8, <1>9, <1>10, <1>11 DEF Next

\* A key, one way or the other.
LEMMA KeyCases ==
  ASSUME TypeOK, NEW k \in Keyboard, NEW down \in BOOLEAN, Key(k, down)
  PROVE  /\ held' = IF down THEN held \cup {k} ELSE held \ {k}
         /\ UNCHANGED viewVars
         /\ \/ ~(open /\ focus) /\ UNCHANGED <<connVars, mods, trapped, strayed>>
            \/ /\ open /\ focus /\ Trapped(k) /\ trapped' = Append(trapped, down)
               /\ UNCHANGED <<connVars, mods, strayed>>
            \/ /\ open /\ focus /\ ~Trapped(k) /\ Eaten(down)
               /\ UNCHANGED <<connVars, mods, trapped, strayed>>
            \/ KeyHandled(k, down)
BY DEF Key, KeyHandled

\* However the key is dealt with, m_mods and what is sent stay in step.
LEMMA KeyHandling ==
  ASSUME TypeOK, NEW k \in Keyboard, NEW down \in BOOLEAN, KeyHandled(k, down)
  PROVE  mods' \subseteq Modifiers /\ \E es \in Seq(KeyEvents) : Send(es) /\ Explains(es)
BY Handlers DEF KeyHandled

\* Every step keeps the types.
LEMMA ViewTypesStep == TypeOK /\ [Next]_vars => TypeOK'
<1> SUFFICES ASSUME TypeOK, [Next]_vars PROVE TypeOK'
  OBVIOUS
<1>f. Flags /\ Flags'
  <2>1. Flags
    BY DEF Flags, TypeOK
  <2> QED BY <2>1, FlagsStep
<1>t. /\ mods \subseteq Modifiers /\ strayed \subseteq Modifiers /\ trapped \in Seq(BOOLEAN)
      /\ held \subseteq Keyboard /\ remote \subseteq Keys /\ queue \in Seq(KeyEvents)
      /\ intact \in BOOLEAN
  BY DEF TypeOK
<1> DEFINE Sets == /\ mods' \subseteq Modifiers /\ strayed' \subseteq Modifiers
                   /\ trapped' \in Seq(BOOLEAN) /\ held' \subseteq Keyboard
           Conn == remote' \subseteq Keys /\ queue' \in Seq(KeyEvents) /\ intact' \in BOOLEAN
<1>q. ASSUME Sets, Conn PROVE TypeOK'
  BY <1>f, <1>q DEF Flags, TypeOK
<1>p. Pending \subseteq Modifiers
  BY DEF Pending, Modifiers
<1>c. UNCHANGED connVars => Conn
  BY <1>t DEF connVars
<1>s. ASSUME mods' \subseteq Modifiers, NEW es \in Seq(KeyEvents), Send(es) PROVE Conn
  BY <1>s, <1>t, Sending
<1> HIDE DEF Sets, Conn
<1>1. CASE Fire
  <2>1. Apply(remote, Head(queue)) \subseteq Keys /\ Tail(queue) \in Seq(KeyEvents)
    BY <1>1, <1>t, AfterFirst DEF Fire
  <2>2. Conn
    BY <1>1, <2>1, <1>t DEF Fire, Conn
  <2>3. Sets
    BY <1>1, <1>t DEF Fire, Sets
  <2> QED BY <1>q, <2>2, <2>3
<1>2. CASE Connect \/ ToggleViewOnly \/ FocusOut \/ FocusIn
  <2>1. Conn
    BY <1>2, <1>t DEF Conn, Connect, ToggleViewOnly, FocusOut, FocusIn, connVars
  <2>2. Sets
    BY <1>2, <1>t, <1>p DEF Sets, Connect, ToggleViewOnly, FocusOut, FocusIn, SetViewOnly
  <2> QED BY <1>q, <2>1, <2>2
<1>3. CASE Disconnect
  <2>1. PICK n \in 0..Len(queue) : queue' = SubSeq(queue, n + 1, Len(queue))
    BY <1>3 DEF Disconnect
  <2>2. queue' \in Seq(KeyEvents)
    <3>1. Len(queue) \in Nat /\ \A i \in n + 1..Len(queue) : queue[i] \in KeyEvents
      BY <1>t
    <3> QED BY <2>1, <3>1, SubSeqProperties
  <2>3. remote' \subseteq Keys
    BY <1>3, <1>t DEF Disconnect
  <2>4. intact' \in BOOLEAN
    BY <1>3, Zenon DEF Disconnect
  <2>5. Sets
    BY <1>3, <1>t DEF Disconnect, Sets
  <2> QED BY <1>q, <2>2, <2>3, <2>4, <2>5 DEF Conn
<1>4. CASE FirstImage
  <2>1. Sets
    BY <1>4, <1>t DEF FirstImage, Sets
  <2> QED BY <1>c, <1>q, <1>4, <2>1 DEF FirstImage
<1>5. ASSUME NEW k \in Keyboard, NEW down \in BOOLEAN, Key(k, down) PROVE TypeOK'
  <2>1. held' \subseteq Keyboard
    BY <1>5, <1>t, KeyCases
  <2>2. CASE UNCHANGED <<connVars, mods, strayed>> /\ trapped' \in {trapped, Append(trapped, down)}
    <3>1. Append(trapped, down) \in Seq(BOOLEAN)
      BY <1>t
    <3>2. Sets
      BY <2>1, <2>2, <3>1, <1>t DEF Sets
    <3> QED BY <1>c, <1>q, <2>2, <3>2
  <2>3. CASE KeyHandled(k, down)
    <3>1. mods' \subseteq Modifiers /\ UNCHANGED trapped /\ strayed' \subseteq Modifiers
      BY <2>3, <1>t, KeyHandling DEF KeyHandled, Recover
    <3>2. Conn
      BY <2>3, <1>s, KeyHandling
    <3> QED BY <1>q, <1>t, <2>1, <3>1, <3>2 DEF Sets
  <2> QED BY <1>5, <2>2, <2>3, KeyCases
<1>6. CASE CheckForTrappedKeys
  <2>1. mods' \subseteq Modifiers /\ Conn
    BY <1>6, <1>s, TrappedHandler
  <2>2. strayed' \subseteq Modifiers /\ trapped' \in Seq(BOOLEAN) /\ held' \subseteq Keyboard
    BY <1>6, <1>t DEF CheckForTrappedKeys, Recover
  <2> QED BY <1>q, <2>1, <2>2 DEF Sets
<1>7. CASE Close
  <2>1. Unpress \in Seq(KeyEvents) /\ Send(Unpress) /\ mods' = {}
    <3>1. {} \in SUBSET Keys
      OBVIOUS
    <3> QED BY <1>7, <1>t, <3>1, AfterUnpress DEF Close
  <2>2. Conn /\ Sets
    BY <1>7, <1>s, <1>t, <2>1 DEF Close, Sets
  <2> QED BY <1>q, <2>2
<1>8. CASE UNCHANGED vars
  BY <1>8, <1>c, <1>q, <1>t DEF vars, Sets
<1> QED BY <1>1, <1>2, <1>3, <1>4, <1>5, <1>6, <1>7, <1>8 DEF Next

\* Every step keeps m_mods in line with what is down in the end.
LEMMA KnownStep == TypeOK /\ Known /\ [Next]_vars => Known'
<1> SUFFICES ASSUME TypeOK, Known, [Next]_vars, intact', open'
             PROVE  InTheEnd' \cap Modifiers = mods'
  BY DEF Known
<1>t. queue \in Seq(KeyEvents) /\ remote \in SUBSET Keys /\ mods \subseteq Modifiers
  BY DEF TypeOK
<1>s. ASSUME NEW es \in Seq(KeyEvents), Send(es), Explains(es), open
      PROVE  InTheEnd' \cap Modifiers = mods'
  <2>1. intact /\ InTheEnd' = After(es, InTheEnd) /\ InTheEnd \in SUBSET Keys
    BY <1>s, Sending
  <2>2. InTheEnd \cap Modifiers = mods
    BY <1>s, <2>1 DEF Known
  <2> QED BY <1>s, <2>1, <2>2 DEF Explains
<1>u. ASSUME UNCHANGED <<queue, remote, mods>>, intact, open PROVE InTheEnd' \cap Modifiers = mods'
  BY <1>u DEF Known, InTheEnd
<1>1. CASE Fire
  <2>1. InTheEnd' = InTheEnd /\ UNCHANGED <<intact, mods, open>>
    BY <1>1, <1>t, AfterFirst DEF Fire, InTheEnd, viewVars
  <2> QED BY <2>1 DEF Known
<1>2. CASE Connect \/ ToggleViewOnly \/ FocusOut \/ FocusIn \/ FirstImage
  BY <1>2, <1>u DEF Connect, ToggleViewOnly, FocusOut, FocusIn, FirstImage, connVars, viewVars
<1>3. CASE Disconnect
  <2>1. UNCHANGED <<queue, remote, mods, open>> /\ intact
    BY <1>3 DEF Disconnect, viewVars
  <2> QED BY <1>u, <2>1
<1>4. ASSUME NEW k \in Keyboard, NEW down \in BOOLEAN, Key(k, down)
      PROVE  InTheEnd' \cap Modifiers = mods'
  <2>1. open
    BY <1>4, KeyCases DEF viewVars
  <2>2. CASE UNCHANGED <<connVars, mods>>
    BY <1>u, <2>1, <2>2 DEF connVars
  <2>3. CASE KeyHandled(k, down)
    BY <1>s, <2>1, <2>3, KeyHandling
  <2> QED BY <1>4, <2>2, <2>3, KeyCases
<1>5. CASE CheckForTrappedKeys
  <2>1. open
    BY <1>5 DEF CheckForTrappedKeys
  <2> QED BY <1>5, <1>s, <2>1, TrappedHandler
<1>6. CASE Close
  BY <1>6 DEF Close
<1>7. CASE UNCHANGED vars
  BY <1>7, <1>u DEF vars, viewVars, connVars
<1> QED BY <1>1, <1>2, <1>3, <1>4, <1>5, <1>6, <1>7 DEF Next

\* Every step keeps an excuse for each modifier the teacher does not hold.
LEMMA ExcusedStep == TypeOK /\ Excused /\ [Next]_vars => Excused'
<1> SUFFICES ASSUME TypeOK, Excused, [Next]_vars, open' PROVE Excused'
  BY DEF Excused
<1> DEFINE Safe == /\ mods \ held \subseteq strayed \cup Pending
                   /\ viewOnly => Pending \subseteq strayed
                   /\ ~focus \/ (viewOnly /\ initDone) => mods \cup Pending \subseteq strayed
                   /\ trapped # <<>> => windows
                   /\ trapped # <<>> /\ trapped[Len(trapped)] => "Super" \in held \cup strayed
<1>t. trapped \in Seq(BOOLEAN) /\ mods \subseteq Modifiers
  BY DEF TypeOK
<1>o. open
  BY DEF Next, Fire, Connect, Disconnect, FirstImage, Key, CheckForTrappedKeys, ToggleViewOnly,
         FocusOut, FocusIn, Close, viewVars, vars
<1>s. Safe
  BY <1>o DEF Excused
<1> SUFFICES Safe'
  BY DEF Excused
<1>1. CASE UNCHANGED <<viewVars, mods, trapped, held, strayed>>
  BY <1>1, <1>s DEF viewVars, Pending
<1>2. CASE ToggleViewOnly
  BY <1>2, <1>s DEF ToggleViewOnly, SetViewOnly, Pending
<1>3. CASE FocusOut \/ FocusIn
  BY <1>3, <1>s DEF FocusOut, FocusIn, SetViewOnly, Pending
<1>4. CASE FirstImage
  BY <1>4, <1>s DEF FirstImage, Pending
<1>5. ASSUME NEW k \in Keyboard, NEW down \in BOOLEAN, Key(k, down) PROVE Safe'
  <2>0. /\ held' = IF down THEN held \cup {k} ELSE held \ {k}
        /\ UNCHANGED <<windows, open, focus, viewOnly, initDone>>
    BY <1>5, KeyCases DEF viewVars
  <2>1. CASE ~focus /\ UNCHANGED <<mods, trapped, strayed>>
    BY <2>0, <2>1, <1>s DEF Pending
  <2>2. CASE /\ Trapped(k) /\ trapped' = Append(trapped, down) /\ focus
             /\ UNCHANGED <<mods, strayed>>
    <3>1. trapped' # <<>> /\ trapped'[Len(trapped')] = down
      BY <2>2, <1>t
    <3>2. k = "Super" /\ windows /\ ~viewOnly
      BY <2>2 DEF Trapped
    <3> QED BY <2>0, <2>2, <3>1, <3>2, <1>s DEF Pending
  <2>3. CASE viewOnly /\ initDone /\ UNCHANGED <<mods, trapped, strayed>>
    BY <2>0, <2>3, <1>s DEF Pending
  <2>4. CASE KeyHandled(k, down)
    <3>1. /\ UNCHANGED trapped /\ Pending' = Pending /\ focus
          /\ ~(viewOnly /\ initDone) /\ ~Trapped(k)
          /\ strayed' = strayed \cap (mods' \cup Pending)
      BY <2>4 DEF KeyHandled, Recover, Pending, Eaten
    <3>2. \/ down /\ mods' = {}
          \/ down /\ mods' = mods \cup ({k} \cap Modifiers)
          \/ ~down /\ (mods' = {} \/ mods' = mods \ {k})
      BY <2>4 DEF KeyHandled, HandleCtrlAltDel, HandlePress, HandleRelease
    <3>3. (mods \ held)' \subseteq strayed' \cup Pending'
      BY <2>0, <3>1, <3>2, <1>s
    <3>4. viewOnly' => Pending' \subseteq strayed'
      BY <2>0, <3>1, <1>s
    <3>5. trapped' # <<>> => windows'
      BY <2>0, <3>1, <1>s
    <3>6. trapped' # <<>> /\ trapped'[Len(trapped')] => "Super" \in held' \cup strayed'
      <4> SUFFICES ASSUME trapped # <<>>, trapped[Len(trapped)]
                   PROVE  "Super" \in held' \cup strayed'
        BY <3>1
      <4>1. "Super" \in held \cup strayed /\ windows /\ Pending = {"Super"}
        BY <1>s DEF Pending
      <4>2. CASE k # "Super" \/ down
        BY <2>0, <3>1, <4>1, <4>2
      <4>3. CASE k = "Super" /\ ~down
        <5>1. viewOnly
          BY <3>1, <4>1, <4>3 DEF Trapped
        <5> QED BY <3>1, <4>1, <5>1, <1>s
      <4> QED BY <4>2, <4>3
    <3> QED BY <2>0, <3>1, <3>3, <3>4, <3>5, <3>6
  <2> QED BY <1>5, <1>o, <2>1, <2>2, <2>3, <2>4, KeyCases DEF Eaten
<1>6. CASE CheckForTrappedKeys
  <2>1. /\ trapped # <<>> /\ Pending = {"Super"} /\ trapped' = <<>> /\ Pending' = {}
        /\ mods' = IF trapped[Len(trapped)] THEN mods \cup {"Super"} ELSE mods \ {"Super"}
        /\ strayed' = strayed \cap (mods' \cup {"Super"})
        /\ UNCHANGED <<viewOnly, initDone, focus, held, windows>>
    BY <1>6 DEF CheckForTrappedKeys, Pending, Recover, viewVars
  <2>2. (mods \ held)' \subseteq strayed' \cup Pending'
    BY <2>1, <1>s
  <2>3. ~focus' \/ (viewOnly' /\ initDone') => (mods \cup Pending)' \subseteq strayed'
    BY <2>1, <1>s
  <2> QED BY <2>1, <2>2, <2>3
<1>7. CASE Close
  BY <1>7 DEF Close
<1> QED BY <1>1, <1>2, <1>3, <1>4, <1>5, <1>6, <1>7
        DEF Next, vars, Fire, Connect, Disconnect, viewVars

\* The types, what m_mods stands for, and why a modifier may be left behind
\* (VncView.cpp:182-230, 307-508; SystemKeyTrapper.cpp:80-244).
THEOREM ViewInvariant == Spec => [](TypeOK /\ Known /\ Excused)
<1>1. Init => TypeOK
  <2> SUFFICES ASSUME Init PROVE TypeOK
    OBVIOUS
  <2>1. Flags /\ intact \in BOOLEAN
    BY Zenon DEF Init, Flags
  <2>2. <<>> \in Seq(BOOLEAN) /\ <<>> \in Seq(KeyEvents)
    OBVIOUS
  <2> QED BY <2>1, <2>2 DEF Init, TypeOK, Flags
<1>2. Init => Known /\ Excused
  <2> SUFFICES ASSUME Init PROVE Known /\ Excused
    OBVIOUS
  <2>1. InTheEnd = {}
    BY AfterNothing DEF Init, InTheEnd
  <2> QED BY <2>1 DEF Init, Known, Excused, Pending
<1> QED BY <1>1, <1>2, ViewTypesStep, KnownStep, ExcusedStep, PTL DEF Spec

\* m_mods are the modifiers that are down at the computer once the queue is fired,
\* so unpressModifiers() misses none (VncView.cpp:217-230, 463-508).
THEOREM ModifiersStayKnown == Spec => []ModifiersAreKnown
<1>1. Known => ModifiersAreKnown
  BY DEF Known, ModifiersAreKnown
<1> QED BY <1>1, ViewInvariant, PTL

\* Only a modifier that was down when the view lost the keyboard is left behind
\* (VncView.cpp:188-195).
THEOREM NothingElseIsStuck == Spec => []StuckOnlyIfLeft
<1>1. Known /\ Excused => StuckOnlyIfLeft
  BY DEF Known, Excused, StuckOnlyIfLeft
<1> QED BY <1>1, ViewInvariant, PTL

\* Nothing is sent by a view that is view only and stays so: not a key, not a
\* focus change, not a lost connection (VncView.cpp:137-146, 784-788).
THEOREM ViewOnlyStaysSilent == Spec => ViewOnlyIsSilent
<1>1. TypeOK /\ [Next]_vars
        => [viewOnly /\ viewOnly' /\ initDone /\ trapped = <<>> /\ open'
              => Len(queue') <= Len(queue)]_vars
  <2> SUFFICES ASSUME TypeOK, [Next]_vars, viewOnly, initDone, trapped = <<>>, open'
               PROVE  Len(queue') <= Len(queue)
    BY DEF vars
  <2>1. queue \in Seq(KeyEvents) /\ Len(queue) \in Nat
    BY DEF TypeOK
  <2>2. CASE Fire
    <3>1. queue # <<>> /\ queue' = Tail(queue)
      BY <2>2 DEF Fire
    <3> QED BY <2>1, <3>1
  <2>3. CASE Disconnect
    <3>1. PICK n \in 0..Len(queue) : queue' = SubSeq(queue, n + 1, Len(queue))
      BY <2>3 DEF Disconnect
    <3> QED BY <2>1, <3>1
  <2>4. ASSUME NEW k \in Keyboard, NEW down \in BOOLEAN, Key(k, down)
        PROVE  queue' = queue
    <3>1. Eaten(down) /\ ~Trapped(k)
      BY DEF Eaten, Trapped
    <3> QED BY <2>4, <3>1 DEF Key, connVars
  <2>5. ~CheckForTrappedKeys /\ ~Close
    BY DEF CheckForTrappedKeys, Close
  <2>6. CASE Connect \/ FirstImage \/ ToggleViewOnly \/ FocusOut \/ FocusIn \/ UNCHANGED vars
    <3>1. queue' = queue
      BY <2>6 DEF Connect, FirstImage, ToggleViewOnly, FocusOut, FocusIn, connVars, vars
    <3> QED BY <2>1, <3>1
  <2> QED BY <2>1, <2>2, <2>3, <2>4, <2>5, <2>6 DEF Next
<1> QED BY <1>1, ViewInvariant, PTL DEF Spec, ViewOnlyIsSilent
=============================================================================
