--------------------------- MODULE ConnectionsProofs ---------------------------
(* Proofs about Connections, for every choice of addresses, options and ids. *)
EXTENDS Connections, WellFoundedInduction, TLAPS

(* What the holder of runtimeMu has established at each of its steps. *)
HolderInv ==
    /\ op.at = "idle" => op = Idle
    /\ op.at \in {"redial", "dial", "mark", "unmark"} => op.id \in DOMAIN conns
    /\ op.at \in {"dial", "mark"} =>
          /\ op.resolved \in Dialled
          /\ op.resolved.par = conns[op.id].par
          /\ op.resolved.global => conns[op.id].par.mech = "none"
    /\ op.at = "redial" => ~conns[op.id].online
    /\ op.at = "mark" => op.id \in DOMAIN client
    /\ op.at = "unmark" => op.id \notin DOMAIN client
    /\ op.at = "restore" => \A id \in DOMAIN conns : ~conns[id].online

(* The inductive invariant. *)
IInv ==
    /\ TypeOK
    /\ FileAgrees
    /\ OneDefaultIn(conns)
    /\ NextIDFresh
    /\ ActiveIsOpen
    /\ HolderInv
    /\ OnlineIffOpen
    /\ ClientMatchesProfile

--------------------------------------------------------------------------------
(* Positions and ids have a first. *)
LEMMA LeastElement ==
    ASSUME NEW S \in SUBSET Nat, S # {}
    PROVE  \E m \in S : \A n \in S : m <= n
<1> DEFINE R == {ss \in Nat \X Nat : ss[1] < ss[2]}
<1>1. IsWellFoundedOn(R, Nat)
  BY NatLessThanWellFounded DEF OpToRel
<1> HIDE DEF R
<1>2. PICK m \in S : \A n \in S : ~(<<n, m>> \in R)
  BY <1>1, WFMin, Zenon
<1>3. \A n \in S : ~(n < m)
  BY <1>2 DEF R
<1> QED BY <1>3

(* What a save writes is a document, with every record at its id. *)
LEMMA WrittenType ==
    ASSUME NEW c, c \in [DOMAIN c -> Profile], DOMAIN c \subseteq Ids
    PROVE  /\ Written(c) \in Documents
           /\ DOMAIN Written(c) = DOMAIN c
           /\ \A i \in DOMAIN c : /\ Written(c)[i].id = i
                                 /\ Written(c)[i].par = c[i].par
                                 /\ Written(c)[i].isDefault = c[i].isDefault
<1>1. \A i \in DOMAIN c : [id |-> i, par |-> c[i].par, isDefault |-> c[i].isDefault] \in Record
  BY DEF Profile, Record
<1>2. Written(c) \in [DOMAIN c -> Record]
  BY <1>1 DEF Written
<1>3. Written(c) \in Documents
  BY <1>2 DEF Documents
<1> QED BY <1>3 DEF Written

(* No two records of a document end up under one id. *)
LEMMA RepairedApart ==
    ASSUME NEW doc \in Documents, NEW ids \in RepairedIds(doc)
    PROVE  /\ ids \in [DOMAIN doc -> Ids] /\ DOMAIN doc \subseteq Ids
           /\ doc \in [DOMAIN doc -> Record]
           /\ \A j, k \in DOMAIN doc : ids[j] = ids[k] => j = k
<1>1. ids \in [DOMAIN doc -> Ids] /\ DOMAIN doc \subseteq Ids /\ doc \in [DOMAIN doc -> Record]
  BY DEF RepairedIds, Documents
<1>2. ASSUME NEW j \in DOMAIN doc, NEW k \in DOMAIN doc, j < k
      PROVE  ids[j] # ids[k]
  <2> DEFINE taken == {ids[i] : i \in {i \in DOMAIN doc : i < k}}
  <2>1. ids[j] \in taken
    BY <1>2
  <2>2. \/ doc[k].id \notin taken \cup {0} /\ ids[k] = doc[k].id
        \/ NextAfter(taken, ids[k])
    BY DEF RepairedIds
  <2> HIDE DEF taken
  <2>3. ids[j] \in Int /\ ids[k] \in Int
    BY <1>1 DEF Ids
  <2> QED BY <2>1, <2>2, <2>3 DEF NextAfter
<1>3. \A j, k \in DOMAIN doc : j < k \/ k < j \/ j = k
  BY <1>1 DEF Ids
<1> QED BY <1>1, <1>2, <1>3

(* What a profile is made of is what it holds. *)
LEMMA ProfileFields ==
    ASSUME NEW p, NEW b \in BOOLEAN, NEW q,
           q = [par |-> p, isDefault |-> b, online |-> FALSE]
    PROVE  q.par = p /\ q.isDefault = b /\ ~q.online /\ (p \in Params => q \in Profile)
BY DEF Profile

(* The profiles a load makes of a document, record by record. *)
LEMMA LoadedRecords ==
    ASSUME NEW doc \in Documents, NEW ids \in RepairedIds(doc)
    PROVE  /\ DOMAIN Loaded(doc, ids) = {ids[k] : k \in DOMAIN doc}
           /\ \A k \in DOMAIN doc : Loaded(doc, ids)[ids[k]].par = doc[k].par
           /\ \A k \in DOMAIN doc :
                 Loaded(doc, ids)[ids[k]].isDefault = BecomesDefault(doc, ids, k)
           /\ \A k \in DOMAIN doc : ~Loaded(doc, ids)[ids[k]].online
           /\ \A k \in DOMAIN doc : Loaded(doc, ids)[ids[k]] \in Profile
<1>1. ASSUME NEW k \in DOMAIN doc
      PROVE  (CHOOSE j \in DOMAIN doc : ids[j] = ids[k]) = k
  BY RepairedApart
<1>2. DOMAIN Loaded(doc, ids) = {ids[k] : k \in DOMAIN doc}
  BY DEF Loaded
<1>3. ASSUME NEW k \in DOMAIN doc
      PROVE  Loaded(doc, ids)[ids[k]] =
                [par |-> doc[k].par, isDefault |-> BecomesDefault(doc, ids, k),
                 online |-> FALSE]
  BY <1>1 DEF Loaded
<1>4. ASSUME NEW k \in DOMAIN doc
      PROVE  doc[k].par \in Params /\ BecomesDefault(doc, ids, k) \in BOOLEAN
  BY RepairedApart DEF Record, BecomesDefault
<1>5. ASSUME NEW k \in DOMAIN doc
      PROVE  /\ Loaded(doc, ids)[ids[k]].par = doc[k].par
             /\ Loaded(doc, ids)[ids[k]].isDefault = BecomesDefault(doc, ids, k)
             /\ ~Loaded(doc, ids)[ids[k]].online
             /\ Loaded(doc, ids)[ids[k]] \in Profile
  <2> DEFINE q == Loaded(doc, ids)[ids[k]]
             b == BecomesDefault(doc, ids, k)
  <2>1. q = [par |-> doc[k].par, isDefault |-> b, online |-> FALSE]
    BY <1>3
  <2>2. doc[k].par \in Params /\ b \in BOOLEAN
    BY <1>4
  <2> HIDE DEF q, b
  <2>3. q.par = doc[k].par /\ q.isDefault = b /\ ~q.online /\ q \in Profile
    BY <2>1, <2>2, ProfileFields, Zenon
  <2> QED BY <2>3 DEF q, b
<1> QED BY <1>2, <1>5

(* A load makes one of the records the default, whatever the document says. *)
LEMMA LoadedDefault ==
    ASSUME NEW doc \in Documents, NEW ids \in RepairedIds(doc)
    PROVE  /\ \A j, k \in DOMAIN doc :
                 BecomesDefault(doc, ids, j) /\ BecomesDefault(doc, ids, k) => j = k
           /\ DOMAIN doc # {} => \E k \in DOMAIN doc : BecomesDefault(doc, ids, k)
<1>1. /\ ids \in [DOMAIN doc -> Ids] /\ DOMAIN doc \subseteq Ids
      /\ \A j, k \in DOMAIN doc : ids[j] = ids[k] => j = k
  BY RepairedApart
<1> DEFINE flagged == {k \in DOMAIN doc : doc[k].isDefault}
<1>2. flagged \subseteq Nat
  BY <1>1 DEF Ids
<1>3. \A j, k \in DOMAIN doc :
         BecomesDefault(doc, ids, j) /\ BecomesDefault(doc, ids, k) => j = k
  <2> SUFFICES ASSUME NEW j \in DOMAIN doc, NEW k \in DOMAIN doc,
                      BecomesDefault(doc, ids, j), BecomesDefault(doc, ids, k)
               PROVE  j = k
    OBVIOUS
  <2>1. j \in Int /\ k \in Int /\ ids[j] \in Int /\ ids[k] \in Int
    BY <1>1 DEF Ids
  <2>2. (j <= k /\ k <= j) \/ (ids[j] <= ids[k] /\ ids[k] <= ids[j])
    BY DEF BecomesDefault
  <2> QED BY <1>1, <2>1, <2>2
<1>4. CASE flagged # {}
  <2>1. PICK first \in flagged : \A k \in flagged : first <= k
    BY <1>2, <1>4, LeastElement
  <2>2. BecomesDefault(doc, ids, first)
    BY <2>1 DEF BecomesDefault
  <2> QED BY <1>3, <2>1, <2>2
<1>5. CASE flagged = {} /\ DOMAIN doc # {}
  <2> DEFINE used == {ids[k] : k \in DOMAIN doc}
  <2>1. used \subseteq Nat /\ used # {}
    BY <1>1, <1>5 DEF Ids
  <2>2. PICK low \in used : \A i \in used : low <= i
    BY <2>1, LeastElement
  <2>3. PICK k \in DOMAIN doc : ids[k] = low
    OBVIOUS
  <2>4. BecomesDefault(doc, ids, k)
    BY <1>5, <2>2, <2>3 DEF BecomesDefault
  <2> QED BY <1>3, <2>4
<1> QED BY <1>3, <1>4, <1>5

(* Any document loads as profiles of the right type, offline, with one default. *)
LEMMA LoadsFacts ==
    ASSUME NEW doc \in Documents, NEW m \in Loads(doc)
    PROVE  /\ m \in [DOMAIN m -> Profile] /\ DOMAIN m \subseteq Ids
           /\ OneDefaultIn(m)
           /\ \A i \in DOMAIN m : ~m[i].online
<1>1. PICK ids \in RepairedIds(doc) : m = Loaded(doc, ids)
  BY DEF Loads
<1>2. DOMAIN m = {ids[k] : k \in DOMAIN doc}
  BY <1>1, LoadedRecords
<1>3. ids \in [DOMAIN doc -> Ids]
  BY RepairedApart
<1>4. \A k \in DOMAIN doc : m[ids[k]].isDefault = BecomesDefault(doc, ids, k)
  BY <1>1, LoadedRecords, Zenon
<1>5. \A k \in DOMAIN doc : ~m[ids[k]].online /\ m[ids[k]] \in Profile
  BY <1>1, LoadedRecords, Zenon
<1>6. m \in [DOMAIN m -> Profile]
  <2>1. m = [i \in DOMAIN m |-> m[i]]
    BY <1>1 DEF Loaded
  <2>2. \A i \in DOMAIN m : m[i] \in Profile
    BY <1>2, <1>5
  <2> QED BY <2>1, <2>2
<1>7. DOMAIN m \subseteq Ids
  BY <1>2, <1>3
<1>8. OneDefaultIn(m)
  <2>2. \A i, j \in DOMAIN m : m[i].isDefault /\ m[j].isDefault => i = j
    BY <1>2, <1>4, LoadedDefault
  <2>3. DOMAIN m # {} => \E i \in DOMAIN m : m[i].isDefault
    <3>1. SUFFICES ASSUME DOMAIN m # {} PROVE \E i \in DOMAIN m : m[i].isDefault
      OBVIOUS
    <3>2. PICK k \in DOMAIN doc : BecomesDefault(doc, ids, k)
      BY <1>2, <3>1, LoadedDefault
    <3> QED BY <1>2, <1>4, <3>2
  <2> QED BY <2>2, <2>3 DEF OneDefaultIn
<1>9. \A i \in DOMAIN m : ~m[i].online
  BY <1>2, <1>5
<1> QED BY <1>6, <1>7, <1>8, <1>9

(* A document with every record at its id, and one default, loads as it is. *)
LEMMA NothingToRepair ==
    ASSUME NEW c, c \in [DOMAIN c -> Profile], DOMAIN c \subseteq Ids, OneDefaultIn(c),
           NEW doc \in Documents, NEW ids \in RepairedIds(doc), DOMAIN doc = DOMAIN c,
           \A i \in DOMAIN c : doc[i].par = c[i].par /\ doc[i].isDefault = c[i].isDefault,
           \A i \in DOMAIN c : ids[i] = i
    PROVE  Written(Loaded(doc, ids)) = Written(c)
<1>1. DOMAIN Loaded(doc, ids) = {ids[k] : k \in DOMAIN doc}
  BY LoadedRecords
<1>2. DOMAIN Loaded(doc, ids) = DOMAIN c
  BY <1>1
<1>3. ASSUME NEW k \in DOMAIN doc
      PROVE  /\ Loaded(doc, ids)[ids[k]].par = doc[k].par
             /\ Loaded(doc, ids)[ids[k]].isDefault = BecomesDefault(doc, ids, k)
  BY LoadedRecords, Zenon
<1>4. ASSUME NEW k \in DOMAIN c
      PROVE  BecomesDefault(doc, ids, k) = c[k].isDefault
  <2>1. PICK d \in DOMAIN c : c[d].isDefault
    BY DEF OneDefaultIn
  <2>2. c[k].isDefault => BecomesDefault(doc, ids, k)
    BY DEF BecomesDefault, OneDefaultIn, Ids
  <2>3. BecomesDefault(doc, ids, k) => c[k].isDefault
    BY <2>1 DEF BecomesDefault
  <2>4. c[k].isDefault \in BOOLEAN /\ BecomesDefault(doc, ids, k) \in BOOLEAN
    BY DEF Profile, BecomesDefault
  <2> QED BY <2>2, <2>3, <2>4
<1>5. ASSUME NEW k \in DOMAIN c
      PROVE  Loaded(doc, ids)[k].par = c[k].par
             /\ Loaded(doc, ids)[k].isDefault = c[k].isDefault
  <2>1. Loaded(doc, ids)[ids[k]] = Loaded(doc, ids)[k] /\ k \in DOMAIN doc
    OBVIOUS
  <2>2. doc[k].par = c[k].par
    OBVIOUS
  <2> QED BY <1>3, <1>4, <2>1, <2>2, Zenon
<1>6. \A k \in DOMAIN c :
         [id |-> k, par |-> Loaded(doc, ids)[k].par, isDefault |-> Loaded(doc, ids)[k].isDefault]
         = [id |-> k, par |-> c[k].par, isDefault |-> c[k].isDefault]
  BY <1>5, Zenon
<1> QED BY <1>2, <1>6 DEF Written

(* A file that was saved loads as the profiles that were saved. *)
LEMMA WrittenLoads ==
    ASSUME NEW c, c \in [DOMAIN c -> Profile], DOMAIN c \subseteq Ids, OneDefaultIn(c)
    PROVE  \E m \in Loads(Written(c)) : Written(m) = Written(c)
<1> DEFINE doc == Written(c)
           ids == [k \in DOMAIN c |-> k]
<1>1. /\ doc \in Documents /\ DOMAIN doc = DOMAIN c
      /\ \A i \in DOMAIN c : /\ doc[i].id = i /\ doc[i].par = c[i].par
                            /\ doc[i].isDefault = c[i].isDefault
  BY WrittenType
<1> HIDE DEF doc
<1>2. ids \in RepairedIds(doc)
  <2>1. ids \in [DOMAIN doc -> Ids]
    BY <1>1
  <2>2. ASSUME NEW k \in DOMAIN doc
        PROVE  doc[k].id \notin {ids[j] : j \in {j \in DOMAIN doc : j < k}} \cup {0}
               /\ ids[k] = doc[k].id
    BY <1>1 DEF Ids
  <2> QED BY <2>1, <2>2 DEF RepairedIds
<1>3. \A k \in DOMAIN c : ids[k] = k
  OBVIOUS
<1> HIDE DEF ids
<1>4. Written(Loaded(doc, ids)) = Written(c)
  BY <1>1, <1>2, <1>3, NothingToRepair
<1> QED BY <1>2, <1>4 DEF doc, Loads

(* SetACL on its way in leaves a document a document. *)
LEMMA PreparedType ==
    ASSUME NEW input \in Documents
    PROVE  Prepare(input) \in Documents
<1>1. PICK D \in SUBSET Ids : input \in [D -> Record]
  BY DEF Documents
<1>2. \A i \in D : Prepare(input)[i] \in Record
  BY <1>1, MechanismsAssumption DEF Prepare, PreparedMech, Record, Params
<1>3. Prepare(input) \in [D -> Record]
  BY <1>1, <1>2 DEF Prepare
<1> QED BY <1>3 DEF Documents

(* A save, or a failed save of what differs in status alone, leaves a file that
   loads as the profiles in memory. *)
LEMMA SaveAgrees ==
    ASSUME NEW saved \in BOOLEAN, FileAgrees, Save(saved),
           conns' \in [DOMAIN conns' -> Profile], DOMAIN conns' \subseteq Ids,
           OneDefaultIn(conns'), saved \/ Written(conns') = Written(conns)
    PROVE  FileAgrees'
<1>1. CASE saved
  BY <1>1, WrittenLoads DEF FileAgrees, Save
<1>2. CASE ~saved
  BY <1>2 DEF FileAgrees, Save
<1> QED BY <1>1, <1>2

(* A save writes a document. *)
LEMMA SaveType ==
    ASSUME NEW saved \in BOOLEAN, TypeOK, Save(saved),
           conns' \in [DOMAIN conns' -> Profile], DOMAIN conns' \subseteq Ids
    PROVE  file' \in Documents /\ unread' \in BOOLEAN
BY WrittenType DEF Save, TypeOK

(* Closing one client keeps the active connection among the open ones. *)
LEMMA RemoveEffect ==
    ASSUME TypeOK, NEW id, Remove(id)
    PROVE  /\ DOMAIN client' = DOMAIN client \ {id}
           /\ \A i \in DOMAIN client' : client'[i] = client[i]
           /\ client' \in [DOMAIN client' -> Dialled]
           /\ DOMAIN client' \subseteq Ids
           /\ activeID' \in Ids \cup {0}
           /\ ActiveIsOpen => ActiveIsOpen'
BY DEF TypeOK, Remove, Without, ActiveIsOpen, Ids

(* A profile with another status, and one with other parameters too. *)
LEMMA ProfileUpdate ==
    ASSUME NEW q \in Profile, NEW p \in Params, NEW b \in BOOLEAN
    PROVE  /\ [q EXCEPT !.online = b] \in Profile
           /\ [par |-> p, isDefault |-> q.isDefault, online |-> b] \in Profile
BY DEF Profile

(* The global key pair is only ever stamped on a profile without a mechanism. *)
LEMMA ResolveFacts ==
    ASSUME NEW p \in Params, globalKeys \in BOOLEAN
    PROVE  /\ Resolve(p) \in Dialled
           /\ Resolve(p).par = p
           /\ Resolve(p).global => p.mech = "none"
BY DEF Resolve, Dialled

(* A step that changes nothing keeps the invariant. *)
LEMMA StutterPreserves ==
    ASSUME IInv, UNCHANGED vars
    PROVE  IInv'
BY DEF IInv, vars, TypeOK, HolderInv, FileAgrees, OneDefaultIn, NextIDFresh, ActiveIsOpen,
       OnlineIffOpen, ClientMatchesProfile

(* A new profile takes a fresh id, is offline, and is the default if it is the first. *)
LEMMA AddPreserves ==
    ASSUME IInv, NEW p \in Params, NEW saved \in BOOLEAN, AddConnection(p, saved)
    PROVE  IInv'
<1> USE DEF IInv, TypeOK, Profile, Dialled, Op, Ids, HolderInv, AddConnection
<1>1. TypeOK'
  <2>1. CASE saved
    <3> DEFINE new == [par |-> p, isDefault |-> DOMAIN conns = {}, online |-> FALSE]
    <3>1. new \in Profile
      OBVIOUS
    <3>2. /\ conns' \in [DOMAIN conns' -> Profile]
          /\ DOMAIN conns' \subseteq Ids
      BY <2>1, <3>1 DEF With
    <3>3. file' \in Documents /\ unread' \in BOOLEAN
      BY <3>2, SaveType
    <3>4. nextID' \in 1..(MaxID + 1)
      BY <2>1, MaxIDAssumption
    <3> QED BY <3>2, <3>3, <3>4
  <2>2. CASE ~saved
    BY <2>2 DEF Save
  <2> QED BY <2>1, <2>2
<1>3. OneDefaultIn(conns)'
  <2>1. CASE DOMAIN conns = {} /\ saved
    <3>1. DOMAIN conns' = {nextID} /\ conns'[nextID].isDefault
      BY <2>1 DEF With
    <3> QED BY <3>1 DEF OneDefaultIn
  <2>3. CASE ~saved
    BY <2>3 DEF OneDefaultIn
  <2>2. CASE DOMAIN conns # {} /\ saved
    <3>1. /\ DOMAIN conns' = DOMAIN conns \cup {nextID}
          /\ nextID \notin DOMAIN conns
          /\ \A i \in DOMAIN conns : conns'[i] = conns[i]
      BY <2>2 DEF With, NextIDFresh
    <3>2. conns'[nextID].isDefault = (DOMAIN conns = {})
      BY <2>2, <3>1 DEF With
    <3>3. ~conns'[nextID].isDefault
      BY <2>2, <3>2
    <3> QED BY <2>2, <3>1, <3>3 DEF OneDefaultIn
  <2> QED BY <2>1, <2>2, <2>3
<1>2. FileAgrees'
  <2>1. conns' \in [DOMAIN conns' -> Profile] /\ DOMAIN conns' \subseteq Ids /\ Save(saved)
    BY <1>1
  <2>2. saved \/ Written(conns') = Written(conns)
    OBVIOUS
  <2> QED BY <1>3, <2>1, <2>2, SaveAgrees
<1>4. NextIDFresh'
  BY DEF NextIDFresh, With
<1>5. ActiveIsOpen'
  BY DEF ActiveIsOpen
<1>6. HolderInv'
  BY DEF NextIDFresh, With, Idle
<1>7. OnlineIffOpen'
  BY DEF OnlineIffOpen, With, NextIDFresh
<1>8. ClientMatchesProfile'
  BY DEF ClientMatchesProfile, With, NextIDFresh
<1> QED BY <1>1, <1>2, <1>3, <1>4, <1>5, <1>6, <1>7, <1>8

(* The default moves whole, in memory and file, or not at all. *)
LEMMA SetDefaultPreserves ==
    ASSUME IInv, NEW id \in DOMAIN conns, NEW saved \in BOOLEAN,
           SetDefaultConnection(id, saved)
    PROVE  IInv'
<1> USE DEF IInv, TypeOK, Profile, Dialled, Op, Ids, HolderInv, SetDefaultConnection
<1>1. CASE ~saved
  <2>1. UNCHANGED vars
    BY <1>1 DEF Save, vars
  <2> QED BY <2>1, StutterPreserves
<1>2. CASE saved
  <2>1. /\ DOMAIN conns' = DOMAIN conns
        /\ \A i \in DOMAIN conns : /\ conns'[i].par = conns[i].par
                                   /\ conns'[i].online = conns[i].online
                                   /\ conns'[i].isDefault = (i = id)
    BY <1>2
  <2>2. conns' \in [DOMAIN conns' -> Profile]
    <3>1. \A q \in Profile, b \in BOOLEAN : [q EXCEPT !.isDefault = b] \in Profile
      OBVIOUS
    <3>2. \A i \in DOMAIN conns : conns[i] \in Profile /\ (i = id) \in BOOLEAN
      OBVIOUS
    <3>3. \A i \in DOMAIN conns : [conns[i] EXCEPT !.isDefault = (i = id)] \in Profile
      BY <3>1, <3>2, Zenon
    <3> QED BY <1>2, <3>3
  <2>3. TypeOK'
    BY <1>2, <2>1, <2>2, SaveType
  <2>5. OneDefaultIn(conns)'
    BY <2>1 DEF OneDefaultIn
  <2>4. FileAgrees'
    BY <1>2, <2>3, <2>5, SaveAgrees
  <2>6. NextIDFresh' /\ ActiveIsOpen'
    BY <2>1 DEF NextIDFresh, ActiveIsOpen
  <2>7. HolderInv'
    BY <2>1
  <2>8. OnlineIffOpen' /\ ClientMatchesProfile'
    BY <2>1 DEF OnlineIffOpen, ClientMatchesProfile
  <2> QED BY <2>3, <2>4, <2>5, <2>6, <2>7, <2>8
<1> QED BY <1>1, <1>2

(* A dial starts with what the profile holds. *)
LEMMA ConnectPreserves ==
    ASSUME IInv, NEW id \in DOMAIN conns, Connect(id)
    PROVE  IInv'
<1> USE DEF IInv, TypeOK, Profile, Dialled, Op, Ids, HolderInv, Connect
<1>1. Resolve(conns[id].par) \in Dialled
  BY DEF Resolve
<1>2. op' \in Op
  BY <1>1 DEF Dialling
<1>3. TypeOK'
  BY <1>2
<1>4. HolderInv'
  BY <1>1 DEF Dialling, Resolve
<1>5. FileAgrees' /\ OneDefaultIn(conns)' /\ NextIDFresh' /\ ActiveIsOpen'
  BY DEF FileAgrees, OneDefaultIn, NextIDFresh, ActiveIsOpen
<1>6. OnlineIffOpen' /\ ClientMatchesProfile'
  BY DEF OnlineIffOpen, ClientMatchesProfile, Dialling, Idle
<1> QED BY <1>3, <1>4, <1>5, <1>6

(* A failed dial leaves the holder where it came from, with the client gone. *)
LEMMA DialFailedPreserves ==
    ASSUME IInv, DialFailed
    PROVE  IInv'
<1> USE DEF IInv, TypeOK, Profile, Dialled, Op, Ids, HolderInv, DialFailed
<1>1. TypeOK' /\ HolderInv'
  BY DEF Idle
<1>2. FileAgrees' /\ OneDefaultIn(conns)' /\ NextIDFresh' /\ ActiveIsOpen'
  BY DEF FileAgrees, OneDefaultIn, NextIDFresh, ActiveIsOpen
<1>3. OnlineIffOpen' /\ ClientMatchesProfile'
  BY DEF OnlineIffOpen, ClientMatchesProfile, Idle
<1> QED BY <1>1, <1>2, <1>3

(* A dial that succeeds opens the client it was resolved for. *)
LEMMA DialSucceededPreserves ==
    ASSUME IInv, DialSucceeded
    PROVE  IInv'
<1> USE DEF IInv, TypeOK, Profile, Dialled, Op, Ids, HolderInv, DialSucceeded
<1>1. /\ op.id \in DOMAIN conns
      /\ DOMAIN client' = DOMAIN client \cup {op.id}
      /\ client'[op.id] = op.resolved
      /\ \A i \in DOMAIN client : i # op.id => client'[i] = client[i]
  BY DEF With
<1>2. client' \in [DOMAIN client' -> Dialled]
  BY DEF With
<1>3. op'.at = "mark" /\ op'.id = op.id /\ op'.resolved = op.resolved /\ op' \in Op
  OBVIOUS
<1>4. TypeOK'
  BY <1>1, <1>2, <1>3
<1>5. FileAgrees' /\ OneDefaultIn(conns)' /\ NextIDFresh' /\ ActiveIsOpen'
  BY <1>1 DEF FileAgrees, OneDefaultIn, NextIDFresh, ActiveIsOpen
<1>6. HolderInv'
  BY <1>1, <1>3
<1>7. OnlineIffOpen'
  BY <1>1, <1>3 DEF OnlineIffOpen
<1>8. ClientMatchesProfile'
  BY <1>1, <1>3 DEF ClientMatchesProfile
<1> QED BY <1>4, <1>5, <1>6, <1>7, <1>8

(* The status follows the client that was just opened. *)
LEMMA MarkOnlinePreserves ==
    ASSUME IInv, NEW saved \in BOOLEAN, MarkOnline(saved)
    PROVE  IInv'
<1> USE DEF IInv, TypeOK, Profile, Dialled, Op, Ids, HolderInv, MarkOnline
<1>1. op.id \in DOMAIN conns
  OBVIOUS
<1>2. /\ DOMAIN conns' = DOMAIN conns
      /\ \A i \in DOMAIN conns : /\ conns'[i].par = conns[i].par
                                 /\ conns'[i].isDefault = conns[i].isDefault
                                 /\ i # op.id => conns'[i].online = conns[i].online
      /\ conns'[op.id].online = TRUE
  BY <1>1
<1>3. conns' \in [DOMAIN conns' -> Profile]
  <2>1. [conns[op.id] EXCEPT !.online = TRUE] \in Profile
    BY <1>1, ProfileUpdate
  <2> QED BY <1>1, <2>1
<1>4. Written(conns') = Written(conns)
  BY <1>2 DEF Written
<1>5. file' \in Documents /\ unread' \in BOOLEAN
  BY <1>2, <1>3, SaveType
<1>6. TypeOK'
  BY <1>2, <1>3, <1>5 DEF Idle
<1>8. OneDefaultIn(conns)' /\ NextIDFresh' /\ ActiveIsOpen'
  BY <1>2 DEF OneDefaultIn, NextIDFresh, ActiveIsOpen
<1>7. FileAgrees'
  BY <1>4, <1>6, <1>8, SaveAgrees
<1>9. HolderInv'
  BY DEF Idle
<1>10. OnlineIffOpen' /\ ClientMatchesProfile'
  BY <1>1, <1>2 DEF OnlineIffOpen, ClientMatchesProfile, Idle
<1> QED BY <1>6, <1>7, <1>8, <1>9, <1>10

(* The status follows the client that was just closed. *)
LEMMA MarkOfflinePreserves ==
    ASSUME IInv, NEW saved \in BOOLEAN, MarkOffline(saved)
    PROVE  IInv'
<1> USE DEF IInv, TypeOK, Profile, Dialled, Op, Ids, HolderInv, MarkOffline
<1>1. op.id \in DOMAIN conns
  OBVIOUS
<1>2. /\ DOMAIN conns' = DOMAIN conns
      /\ \A i \in DOMAIN conns : /\ conns'[i].par = conns[i].par
                                 /\ conns'[i].isDefault = conns[i].isDefault
                                 /\ i # op.id => conns'[i].online = conns[i].online
      /\ conns'[op.id].online = FALSE
  BY <1>1
<1>3. conns' \in [DOMAIN conns' -> Profile]
  <2>1. [conns[op.id] EXCEPT !.online = FALSE] \in Profile
    BY <1>1, ProfileUpdate
  <2> QED BY <1>1, <2>1
<1>4. Written(conns') = Written(conns)
  BY <1>2 DEF Written
<1>5. file' \in Documents /\ unread' \in BOOLEAN
  BY <1>2, <1>3, SaveType
<1>6. TypeOK'
  BY <1>2, <1>3, <1>5 DEF Idle
<1>8. OneDefaultIn(conns)' /\ NextIDFresh' /\ ActiveIsOpen'
  BY <1>2 DEF OneDefaultIn, NextIDFresh, ActiveIsOpen
<1>7. FileAgrees'
  BY <1>4, <1>6, <1>8, SaveAgrees
<1>9. HolderInv'
  BY DEF Idle
<1>10. OnlineIffOpen' /\ ClientMatchesProfile'
  BY <1>1, <1>2 DEF OnlineIffOpen, ClientMatchesProfile, Idle
<1> QED BY <1>6, <1>7, <1>8, <1>9, <1>10

(* Closing a client leaves only its status to be set. *)
LEMMA DisconnectPreserves ==
    ASSUME IInv, NEW id \in DOMAIN conns, Disconnect(id)
    PROVE  IInv'
<1> USE DEF IInv, TypeOK, Profile, Dialled, Op, Ids, HolderInv, Disconnect
<1>1. op'.at = "unmark" /\ op'.id = id /\ op' \in Op
  BY DEF At, Idle
<1>2. TypeOK' /\ ActiveIsOpen'
  BY <1>1, RemoveEffect
<1>3. FileAgrees' /\ OneDefaultIn(conns)' /\ NextIDFresh'
  BY DEF FileAgrees, OneDefaultIn, NextIDFresh
<1>4. DOMAIN client' = DOMAIN client \ {id} /\ \A i \in DOMAIN client' : client'[i] = client[i]
  BY RemoveEffect
<1>5. HolderInv'
  BY <1>1, <1>4
<1>6. OnlineIffOpen' /\ ClientMatchesProfile'
  BY <1>1, <1>4 DEF OnlineIffOpen, ClientMatchesProfile, Idle
<1> QED BY <1>2, <1>3, <1>5, <1>6

(* New parameters are stored, or put back, with the client closed when a dial reads them. *)
LEMMA StoreParamsPreserves ==
    ASSUME IInv, op = Idle, NEW id \in DOMAIN conns, NEW p \in Params,
           NEW saved \in BOOLEAN, StoreParams(id, p, saved)
    PROVE  IInv'
<1> USE DEF IInv, TypeOK, Profile, Dialled, Op, Ids, HolderInv, StoreParams
<1>1. CASE ~saved
  <2>1. UNCHANGED vars
    BY <1>1 DEF Save, vars
  <2> QED BY <2>1, StutterPreserves
<1>2. CASE saved
  <2> DEFINE stays == conns[id].online /\ ~(p # conns[id].par)
             new == [par |-> p, isDefault |-> conns[id].isDefault, online |-> stays]
  <2>1. /\ new \in Profile /\ (new.online <=> stays)
        /\ new.par = p /\ new.isDefault = conns[id].isDefault
    BY ProfileUpdate
  <2>2. conns' = [conns EXCEPT ![id] = new]
    BY <1>2
  <2> HIDE DEF new
  <2>3. /\ DOMAIN conns' = DOMAIN conns
        /\ \A i \in DOMAIN conns : i # id => conns'[i] = conns[i]
        /\ conns'[id].par = p
        /\ conns'[id].isDefault = conns[id].isDefault
        /\ conns'[id].online <=> stays
        /\ conns'[id] \in Profile
    BY <2>1, <2>2
  <2>4. conns' \in [DOMAIN conns' -> Profile]
    BY <1>2, <2>3
  <2>5. op' \in Op
    BY DEF At, Idle
  <2>6. TypeOK'
    BY <1>2, <2>3, <2>4, <2>5, SaveType
  <2>8. OneDefaultIn(conns)' /\ NextIDFresh' /\ ActiveIsOpen'
    BY <2>3 DEF OneDefaultIn, NextIDFresh, ActiveIsOpen
  <2>7. FileAgrees'
    BY <1>2, <2>6, <2>8, SaveAgrees
  <2>9. HolderInv'
    BY <1>2, <2>3 DEF At, Idle
  <2>10. OnlineIffOpen'
    BY <1>2, <2>3 DEF OnlineIffOpen, At, Idle
  <2>11. ClientMatchesProfile'
    BY <1>2, <2>3 DEF ClientMatchesProfile, OnlineIffOpen, At, Idle
  <2> QED BY <2>6, <2>7, <2>8, <2>9, <2>10, <2>11
<1> QED BY <1>1, <1>2

(* A redial starts from the stored parameters. *)
LEMMA RedialPreserves ==
    ASSUME IInv, Redial
    PROVE  IInv'
<1> USE DEF IInv, TypeOK, Profile, Dialled, Op, Ids, HolderInv, Redial
<1>1. op.id \in DOMAIN conns /\ Resolve(conns[op.id].par) \in Dialled
  BY DEF Resolve
<1>2. /\ op'.at = "dial" /\ op'.id = op.id
      /\ op'.resolved = Resolve(conns[op.id].par)
      /\ op' \in Op
  BY <1>1 DEF Dialling
<1>3. /\ DOMAIN client' = DOMAIN client \ {op.id}
      /\ \A i \in DOMAIN client' : client'[i] = client[i]
  BY RemoveEffect
<1>4. TypeOK' /\ ActiveIsOpen'
  BY <1>2, RemoveEffect
<1>5. FileAgrees' /\ OneDefaultIn(conns)' /\ NextIDFresh'
  BY DEF FileAgrees, OneDefaultIn, NextIDFresh
<1>6. HolderInv'
  <2>1. /\ op'.resolved.par = conns[op.id].par
        /\ op'.resolved.global => conns[op.id].par.mech = "none"
    BY <1>1, <1>2, ResolveFacts
  <2> QED BY <1>1, <1>2, <2>1
<1>7. OnlineIffOpen'
  BY <1>1, <1>2, <1>3 DEF OnlineIffOpen
<1>8. ClientMatchesProfile'
  BY <1>1, <1>2, <1>3 DEF ClientMatchesProfile
<1> QED BY <1>4, <1>5, <1>6, <1>7, <1>8

(* A deleted profile leaves no client, and is never the default among others. *)
LEMMA DeletePreserves ==
    ASSUME IInv, NEW id \in DOMAIN conns, NEW saved \in BOOLEAN, DeleteConnection(id, saved)
    PROVE  IInv'
<1> USE DEF IInv, TypeOK, Profile, Dialled, Op, Ids, HolderInv, DeleteConnection
<1>1. CASE ~saved
  <2>1. UNCHANGED vars
    BY <1>1 DEF Save, vars
  <2> QED BY <2>1, StutterPreserves
<1>2. CASE saved
  <2>1. /\ DOMAIN conns' = DOMAIN conns \ {id}
        /\ \A i \in DOMAIN conns' : conns'[i] = conns[i]
        /\ conns' \in [DOMAIN conns' -> Profile]
    BY <1>2 DEF Without
  <2>2. /\ DOMAIN client' = DOMAIN client \ {id}
        /\ \A i \in DOMAIN client' : client'[i] = client[i]
        /\ client' \in [DOMAIN client' -> Dialled]
        /\ activeID' \in Ids \cup {0}
        /\ ActiveIsOpen'
    <3>1. CASE conns[id].online
      BY <1>2, <3>1, RemoveEffect
    <3>2. CASE ~conns[id].online
      <4>1. UNCHANGED <<client, activeID>> /\ id \notin DOMAIN client
        BY <1>2, <3>2 DEF OnlineIffOpen, Idle
      <4>2. client' = client /\ activeID' = activeID
        BY <4>1
      <4>3. ActiveIsOpen'
        BY <4>2 DEF ActiveIsOpen
      <4>4. DOMAIN client' = DOMAIN client \ {id}
        BY <4>1, <4>2
      <4>5. /\ client' \in [DOMAIN client' -> Dialled]
            /\ activeID' \in Ids \cup {0}
            /\ \A i \in DOMAIN client' : client'[i] = client[i]
        BY <4>2
      <4> QED BY <4>3, <4>4, <4>5
    <3> QED BY <3>1, <3>2
  <2>3. TypeOK'
    BY <1>2, <2>1, <2>2, SaveType
  <2>5. OneDefaultIn(conns)'
    BY <2>1 DEF OneDefaultIn
  <2>4. FileAgrees'
    BY <1>2, <2>3, <2>5, SaveAgrees
  <2>6. NextIDFresh'
    BY <2>1 DEF NextIDFresh
  <2>7. HolderInv'
    BY DEF Idle
  <2>8. OnlineIffOpen' /\ ClientMatchesProfile'
    BY <2>1, <2>2 DEF OnlineIffOpen, ClientMatchesProfile, Idle
  <2> QED BY <2>2, <2>3, <2>4, <2>5, <2>6, <2>7, <2>8
<1> QED BY <1>1, <1>2

(* Reload and ReplaceConnections put what a document loads as in memory, and
   leave the clients to restoreRuntimeLocked. *)
LEMMA SwapPreserves ==
    ASSUME IInv, NEW doc \in Documents, SwapProfiles(doc),
           file' \in Documents, \E m \in Loads(file') : Written(m) = Written(conns'),
           UNCHANGED <<client, activeID, globalKeys>>
    PROVE  IInv'
<1> USE DEF IInv, TypeOK, Dialled, Op, Ids, HolderInv, SwapProfiles, Load
<1>1. /\ conns' \in [DOMAIN conns' -> Profile] /\ DOMAIN conns' \subseteq Ids
      /\ OneDefaultIn(conns)'
      /\ \A i \in DOMAIN conns' : ~conns'[i].online
  BY LoadsFacts
<1>2. op'.at = "restore" /\ op'.id = 0 /\ op' \in Op
  BY DEF At, Idle
<1>3. nextID' \in 1..(MaxID + 1) /\ NextIDFresh'
  BY <1>1 DEF NextIDFresh, NextAfter
<1>4. reconnectReload' \in BOOLEAN
  BY DEF ShouldReconnect
<1>5. TypeOK'
  BY <1>1, <1>2, <1>3, <1>4
<1>6. FileAgrees'
  BY DEF FileAgrees
<1>7. ActiveIsOpen'
  BY DEF ActiveIsOpen
<1>8. HolderInv'
  BY <1>1, <1>2
<1>9. OnlineIffOpen' /\ ClientMatchesProfile'
  BY <1>2 DEF OnlineIffOpen, ClientMatchesProfile
<1> QED BY <1>1, <1>3, <1>5, <1>6, <1>7, <1>8, <1>9

(* A reload takes the profiles of the file and goes on to close every client,
   or leaves all of it alone. *)
LEMMA ReloadPreserves ==
    ASSUME IInv, NEW read \in BOOLEAN, Reload(read)
    PROVE  IInv'
<1>1. CASE read
  <2>1. SwapProfiles(file) /\ file' = file /\ file \in Documents
        /\ UNCHANGED <<client, activeID, globalKeys>>
    BY <1>1 DEF Reload, IInv, TypeOK
  <2>2. \E m \in Loads(file) : m = conns'
    BY <2>1 DEF SwapProfiles, Load
  <2> QED BY <2>1, <2>2, SwapPreserves
<1>2. CASE ~read
  <2>1. UNCHANGED vars
    BY <1>2 DEF Reload, vars
  <2> QED BY <2>1, StutterPreserves
<1> QED BY <1>1, <1>2

(* An import is stored in memory and file alike, whatever it says of ids and
   defaults, and its clients are to be closed. *)
LEMMA ReplacePreserves ==
    ASSUME IInv, NEW input \in Documents, NEW saved \in BOOLEAN,
           ReplaceConnections(input, saved)
    PROVE  IInv'
<1>1. CASE saved
  <2>1. SwapProfiles(Prepare(input)) /\ file' = Written(conns')
        /\ UNCHANGED <<client, activeID, globalKeys>>
    BY <1>1 DEF ReplaceConnections
  <2>2. conns' \in Loads(Prepare(input))
    BY <2>1 DEF SwapProfiles, Load
  <2>3. /\ conns' \in [DOMAIN conns' -> Profile] /\ DOMAIN conns' \subseteq Ids
        /\ OneDefaultIn(conns')
    BY <2>2, PreparedType, LoadsFacts
  <2>4. file' \in Documents /\ \E m \in Loads(file') : Written(m) = Written(conns')
    BY <2>1, <2>3, WrittenType, WrittenLoads
  <2> QED BY <2>1, <2>4, PreparedType, SwapPreserves
<1>2. CASE ~saved
  <2>1. UNCHANGED vars
    BY <1>2 DEF ReplaceConnections, vars
  <2> QED BY <2>1, StutterPreserves
<1> QED BY <1>1, <1>2

(* The restore dials the default or ends. *)
LEMMA RestorePreserves ==
    ASSUME IInv, RestoreRuntime
    PROVE  IInv'
<1> USE DEF IInv, TypeOK, Profile, Dialled, Op, Ids, HolderInv, RestoreRuntime, CloseAll
<1>1. /\ DOMAIN client' = {} /\ client' \in [DOMAIN client' -> Dialled]
      /\ activeID' = 0
  BY DEF EmptyMap
<1>2. \A i \in DOMAIN conns : ~conns[i].online
  OBVIOUS
<1>3. \/ op' = Idle
      \/ \E id \in DOMAIN conns : op' = Dialling(id, TRUE)
  OBVIOUS
<1>4. op' \in Op /\ HolderInv'
  <2>1. CASE op' = Idle
    BY <2>1 DEF Idle
  <2>2. CASE \E id \in DOMAIN conns : op' = Dialling(id, TRUE)
    <3>1. PICK id \in DOMAIN conns : op' = Dialling(id, TRUE)
      BY <2>2
    <3>2. Resolve(conns[id].par) \in Dialled
      BY DEF Resolve
    <3> QED BY <3>1, <3>2 DEF Dialling, Resolve
  <2> QED BY <1>3, <2>1, <2>2
<1>5. op'.at \in {"idle", "dial"}
  BY <1>3 DEF Idle, Dialling
<1>6. TypeOK'
  BY <1>1, <1>4
<1>7. FileAgrees' /\ OneDefaultIn(conns)' /\ NextIDFresh' /\ ActiveIsOpen'
  BY <1>1 DEF FileAgrees, OneDefaultIn, NextIDFresh, ActiveIsOpen
<1>8. OnlineIffOpen' /\ ClientMatchesProfile'
  BY <1>1, <1>2, <1>5 DEF OnlineIffOpen, ClientMatchesProfile
<1> QED BY <1>4, <1>6, <1>7, <1>8

(* The settings are no part of the invariant beyond their type. *)
LEMMA ChangeGlobalKeysPreserves ==
    ASSUME IInv, ChangeGlobalKeys
    PROVE  IInv'
BY DEF IInv, ChangeGlobalKeys, TypeOK, HolderInv, FileAgrees, OneDefaultIn, NextIDFresh,
       ActiveIsOpen, OnlineIffOpen, ClientMatchesProfile

(* A launch loads the file, or goes on without profiles, with nothing open. *)
LEMMA RestartPreserves ==
    ASSUME IInv, NEW read \in BOOLEAN, Restart(read)
    PROVE  IInv'
<1> USE DEF IInv, TypeOK, Dialled, Op, Ids, HolderInv, Restart, CloseAll
<1>1. /\ conns' \in [DOMAIN conns' -> Profile] /\ DOMAIN conns' \subseteq Ids
      /\ OneDefaultIn(conns')
      /\ \A i \in DOMAIN conns' : ~conns'[i].online
      /\ FileAgrees' /\ unread' \in BOOLEAN
      /\ nextID' \in 1..(MaxID + 1) /\ NextIDFresh'
  <2>1. CASE read
    <3>1. conns' \in Loads(file) /\ unread' = FALSE /\ file' = file
      BY <2>1 DEF Load
    <3>2. nextID' \in 1..(MaxID + 1) /\ NextAfter(DOMAIN conns', nextID')
      BY <2>1 DEF Load
    <3>3. FileAgrees'
      BY <3>1 DEF FileAgrees
    <3>4. NextIDFresh'
      BY <3>2 DEF NextIDFresh, NextAfter
    <3> QED BY <3>1, <3>2, <3>3, <3>4, LoadsFacts
  <2>2. CASE ~read
    <3>1. DOMAIN conns' = {} /\ conns' \in [DOMAIN conns' -> Profile] /\ unread' = TRUE
      BY <2>2 DEF EmptyMap
    <3>2. nextID' \in 1..(MaxID + 1)
      BY <2>2, MaxIDAssumption
    <3> QED BY <3>1, <3>2 DEF FileAgrees, OneDefaultIn, NextIDFresh
  <2> QED BY <2>1, <2>2
<1>2. /\ DOMAIN client' = {} /\ client' \in [DOMAIN client' -> Dialled]
      /\ activeID' = 0
  BY DEF EmptyMap
<1>3. TypeOK' /\ HolderInv'
  BY <1>1, <1>2 DEF Idle
<1>4. ActiveIsOpen'
  BY <1>2 DEF ActiveIsOpen
<1>5. OnlineIffOpen' /\ ClientMatchesProfile'
  BY <1>1, <1>2 DEF OnlineIffOpen, ClientMatchesProfile, Idle
<1> QED BY <1>1, <1>3, <1>4, <1>5

--------------------------------------------------------------------------------
(* The invariant holds before the file is read. *)
LEMMA InitInv == Init => IInv
<1> SUFFICES ASSUME Init PROVE IInv
  OBVIOUS
<1> USE DEF Init
<1>1. DOMAIN conns = {} /\ DOMAIN client = {}
  BY DEF EmptyMap
<1>2. TypeOK
  <2>1. \A T : EmptyMap \in [{} -> T]
    BY DEF EmptyMap
  <2>2. op \in Op
    BY DEF Op, Idle
  <2>3. nextID \in 1..(MaxID + 1)
    BY MaxIDAssumption
  <2> QED BY <1>1, <2>1, <2>2, <2>3 DEF TypeOK
<1>3. FileAgrees
  BY DEF FileAgrees
<1>4. OneDefaultIn(conns) /\ NextIDFresh /\ ActiveIsOpen
  BY <1>1 DEF OneDefaultIn, NextIDFresh, ActiveIsOpen
<1>5. HolderInv
  BY DEF HolderInv, Idle
<1>6. OnlineIffOpen /\ ClientMatchesProfile
  BY <1>1 DEF OnlineIffOpen, ClientMatchesProfile
<1> QED BY <1>2, <1>3, <1>4, <1>5, <1>6 DEF IInv

(* Every step keeps it. *)
LEMMA NextInv == IInv /\ [Next]_vars => IInv'
<1> SUFFICES ASSUME IInv, [Next]_vars PROVE IInv'
  OBVIOUS
<1>1. CASE UNCHANGED vars
  BY <1>1, StutterPreserves
<1>2. CASE HolderStep
  BY <1>2, DialFailedPreserves, DialSucceededPreserves, RedialPreserves, RestorePreserves,
     MarkOnlinePreserves, MarkOfflinePreserves DEF HolderStep
<1>3. CASE Call
  <2>1. ASSUME NEW id \in DOMAIN conns, NEW saved \in BOOLEAN, NEW p \in Params,
               UpdateConnection(id, p, saved)
        PROVE  IInv'
    BY <2>1, StoreParamsPreserves DEF UpdateConnection
  <2>2. ASSUME NEW id \in DOMAIN conns, NEW saved \in BOOLEAN, NEW o \in Options,
               SetOption(id, o, saved)
        PROVE  IInv'
    <3>1. [conns[id].par EXCEPT !.opt = o] \in Params
      BY DEF IInv, TypeOK, Profile, Params
    <3> QED BY <2>2, <3>1, StoreParamsPreserves DEF SetOption
  <2> QED BY <1>3, <2>1, <2>2, AddPreserves, SetDefaultPreserves, ConnectPreserves,
             DisconnectPreserves, DeletePreserves DEF Call, ConnectDefault
<1>4. CASE ConfigurationCall
  BY <1>4, ReloadPreserves, ReplacePreserves, ChangeGlobalKeysPreserves DEF ConfigurationCall
<1>5. CASE \E read \in BOOLEAN : Restart(read)
  BY <1>5, RestartPreserves
<1> QED BY <1>1, <1>2, <1>3, <1>4, <1>5 DEF Next

(* It holds in every reachable state. *)
LEMMA InductiveInv == Spec => []IInv
BY InitInv, NextInv, PTL DEF Spec

(* Every variable of the connection service keeps its type. *)
THEOREM TypeCorrect == Spec => []TypeOK
<1>1. IInv => TypeOK
  BY DEF IInv
<1> QED BY <1>1, InductiveInv, PTL

(* The status of a profile tells whether its client is open, whatever
   operations, failed dials, failed saves and restarts came before. *)
THEOREM StatusTellsTheTruth == Spec => []OnlineIffOpen
<1>1. IInv => OnlineIffOpen
  BY DEF IInv
<1> QED BY <1>1, InductiveInv, PTL

(* An edit of a profile never leaves a client dialled with the old parameters. *)
THEOREM NoStaleClient == Spec => []ClientMatchesProfile
<1>1. IInv => ClientMatchesProfile
  BY DEF IInv
<1> QED BY <1>1, InductiveInv, PTL

(* A restart that can read the file finds exactly the profiles that were in
   memory, but for a launch that could neither read nor write the file. *)
THEOREM RestartLosesNothing == Spec => []FileAgrees
<1>1. IInv => FileAgrees
  BY DEF IInv
<1> QED BY <1>1, InductiveInv, PTL

(* There is exactly one default, unless there is no profile, whatever document
   was loaded or imported. *)
THEOREM DefaultUnique == Spec => []OneDefault
<1>1. IInv => OneDefault
  BY DEF IInv, OneDefault
<1> QED BY <1>1, InductiveInv, PTL

(* No profile is ever added under an id in use. *)
THEOREM IdsNeverCollide == Spec => []NextIDFresh
<1>1. IInv => NextIDFresh
  BY DEF IInv
<1> QED BY <1>1, InductiveInv, PTL

(* The connection the collector samples is an open one. *)
THEOREM ActiveConnectionOpen == Spec => []ActiveIsOpen
<1>1. IInv => ActiveIsOpen
  BY DEF IInv
<1> QED BY <1>1, InductiveInv, PTL

(* A reconnect owed by a reload or an import is written off only once a
   profile is back online, when none is left, or when the process ends. *)
THEOREM ReconnectNotForgotten == Spec => ReconnectOwed
<1> DEFINE Settled == \/ \E read \in BOOLEAN : Restart(read)
                      \/ DOMAIN conns = {}
                      \/ \E id \in DOMAIN conns' : conns'[id].online /\ id \in DOMAIN client'
<1>1. ASSUME IInv, Next, reconnectReload, ~reconnectReload'
      PROVE  Settled
  <2>1. CASE HolderStep
    <3>1. ASSUME NEW saved \in BOOLEAN, MarkOnline(saved)
          PROVE  Settled
      <4>1. op.id \in DOMAIN conns /\ op.id \in DOMAIN client
        BY <1>1, <3>1 DEF IInv, HolderInv, MarkOnline
      <4>2. op.id \in DOMAIN conns' /\ conns'[op.id].online /\ op.id \in DOMAIN client'
        BY <1>1, <3>1, <4>1 DEF IInv, TypeOK, Profile, MarkOnline
      <4> QED BY <4>2
    <3>2. CASE RestoreRuntime
      BY <1>1, <3>2 DEF RestoreRuntime, IInv, OneDefaultIn
    <3> QED BY <1>1, <2>1, <3>1, <3>2
            DEF HolderStep, DialFailed, DialSucceeded, Redial, MarkOffline
  <2>2. CASE Call
    BY <1>1, <2>2 DEF Call, ConnectDefault, Connect, Disconnect, AddConnection, DeleteConnection,
       SetDefaultConnection, UpdateConnection, SetOption, StoreParams
  <2>3. CASE ConfigurationCall
    BY <1>1, <2>3 DEF ConfigurationCall, ChangeGlobalKeys, Reload, ReplaceConnections,
       SwapProfiles, ShouldReconnect
  <2> QED BY <1>1, <2>1, <2>2, <2>3 DEF Next
<1>2. IInv /\ [Next]_vars => [reconnectReload /\ ~reconnectReload' => Settled]_vars
  BY <1>1
<1> QED BY <1>2, InductiveInv, PTL DEF Spec, ReconnectOwed
================================================================================
