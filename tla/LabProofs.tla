------------------------------- MODULE LabProofs -------------------------------
(***************************************************************************)
(* What every lab that keeps the promise of Lab has: proved here once, and *)
(* of LabLifecycle through the refinement in LabLifecycleProofs.           *)
(***************************************************************************)
EXTENDS Lab, TLAPS

(* The first lab is empty.                                                 *)
LEMMA LabInit == Init => LabTypeOK /\ OneRole /\ OneName
BY DEF Init, LabTypeOK, OneRole, OneName, Tracked

(* How a step moves a guest between the roles it may have.                 *)
LEMMA LabRoles ==
  ASSUME None \notin Guest, LabTypeOK, OneRole, Next
  PROVE  LabTypeOK' /\ OneRole' /\ Unbuilt' \subseteq Unbuilt /\ Forward
<1> DEFINE kept == LabTypeOK' /\ OneRole' /\ Unbuilt' \subseteq Unbuilt /\ Forward
<1>1. ASSUME NEW v \in VM, NEW g \in Guest, Build(v, g) PROVE kept
  <2>1. Tracked' = Tracked \cup {g}
    BY <1>1 DEF Build, LabTypeOK, Tracked
  <2>2. \A u \in VM : tracked[u] # g
    BY <1>1 DEF Build, Unbuilt, Tracked
  <2>3. QED
    BY <1>1, <2>1, <2>2 DEF Build, LabTypeOK, OneRole, Unbuilt, Forward
<1>2. ASSUME NEW g \in Guest, Abandon(g) PROVE kept
  BY <1>2 DEF Abandon, LabTypeOK, OneRole, Unbuilt, Forward, Tracked
<1>3. ASSUME NEW v \in VM, Remove(v) PROVE kept
  <2>1. Tracked' = Tracked \ {tracked[v]}
    BY <1>3 DEF Remove, LabTypeOK, OneRole, Tracked
  <2>2. tracked[v] \in Tracked /\ tracked[v] \in Guest
    BY <1>3 DEF Remove, LabTypeOK, Tracked
  <2>3. QED
    BY <1>3, <2>1, <2>2 DEF Remove, LabTypeOK, OneRole, Unbuilt, Forward
<1>4. ASSUME NEW lost \in SUBSET VM, LoseTrack(lost) PROVE kept
  <2>1. ASSUME NEW v \in VM
        PROVE  tracked'[v] = (IF v \in lost THEN None ELSE tracked[v])
    BY <1>4 DEF LoseTrack
  <2>2. Tracked' \subseteq Tracked /\ Tracked \subseteq Guest
    BY <2>1, <1>4 DEF LabTypeOK, Tracked
  <2>3. Tracked' \cup strays' = Tracked \cup strays
    BY <1>4, <2>1 DEF LoseTrack, Tracked
  <2>4. ASSUME NEW v \in VM, tracked'[v] # None, tracked'[v] \in strays' PROVE FALSE
    <3>1. v \notin lost /\ tracked[v] = tracked'[v] /\ tracked[v] \in Tracked
      BY <2>1, <2>4 DEF Tracked
    <3>2. PICK w \in lost : tracked[w] = tracked[v]
      BY <1>4, <2>4, <3>1 DEF LoseTrack, OneRole
    <3>3. QED
      BY <2>4, <3>1, <3>2 DEF OneRole
  <2>5. LabTypeOK'
    BY <1>4, <2>1, <2>2, <2>3 DEF LoseTrack, LabTypeOK
  <2>6. strays' \subseteq strays \cup Tracked
    BY <2>3
  <2>7. OneRole'
    <3>1. \A v, w \in VM : tracked'[v] = tracked'[w] /\ tracked'[v] # None => v = w
      BY <2>1 DEF OneRole
    <3>2. Tracked' \cap strays' = {}
      BY <2>4 DEF Tracked
    <3>3. Tracked' \cap past' = {} /\ strays' \cap past' = {}
      BY <1>4, <2>2, <2>6 DEF LoseTrack, OneRole
    <3>4. \A v \in outdated' : tracked'[v] = None
      BY <1>4, <2>1 DEF LoseTrack, OneRole, LabTypeOK
    <3>5. booting' \subseteq Tracked' \cup strays'
      BY <1>4, <2>3 DEF LoseTrack, OneRole
    <3>6. QED
      BY <3>1, <3>2, <3>3, <3>4, <3>5 DEF OneRole
  <2>8. QED
    BY <1>4, <2>3, <2>5, <2>7 DEF LoseTrack, Unbuilt, Forward
<1>5. ASSUME NEW g \in Guest, Boot(g) PROVE kept
  BY <1>5 DEF Boot, LabTypeOK, OneRole, Unbuilt, Forward, Tracked
<1>6. ASSUME NEW n \in ArcName, Deregister(n) PROVE kept
  BY <1>6 DEF Deregister, LabTypeOK, OneRole, Unbuilt, Forward, Tracked
<1>7. ASSUME NEW v \in VM, NEW g \in Guest, RemoveWrong(v, g) PROVE kept
  <2> DEFINE owners == {w \in VM : tracked[w] = g}
  <2>1. /\ v \in outdated /\ g \in Tracked \cup strays
        /\ past' = past \cup {g} /\ booting' = booting \ {g} /\ strays' = strays \ {g}
        /\ tracked' = [w \in VM |-> IF w \in owners THEN None ELSE tracked[w]]
        /\ outdated' \in {outdated \cup owners, (outdated \ {v}) \cup owners}
    BY <1>7 DEF RemoveWrong
  <2>2. Tracked' = Tracked \ {g} /\ Tracked \subseteq Guest
    BY <2>1 DEF LabTypeOK, Tracked
  <2>3. LabTypeOK'
    BY <1>7, <2>1 DEF RemoveWrong, LabTypeOK
  <2>4. OneRole'
    <3>1. \A w \in VM : tracked'[w] = IF tracked[w] = g THEN None ELSE tracked[w]
      BY <2>1
    <3>2. \A u, w \in VM : tracked'[u] = tracked'[w] /\ tracked'[u] # None => u = w
      BY <3>1 DEF OneRole
    <3>3. Tracked' \cap (strays' \cup past') = {} /\ strays' \cap past' = {}
      BY <2>1, <2>2 DEF OneRole
    <3>4. \A w \in outdated' : tracked'[w] = None
      BY <2>1, <3>1 DEF OneRole, LabTypeOK
    <3>5. booting' \subseteq Tracked' \cup strays'
      BY <2>1, <2>2 DEF OneRole
    <3>6. QED
      BY <3>2, <3>3, <3>4, <3>5 DEF OneRole
  <2>5. QED
    BY <2>1, <2>2, <2>3, <2>4 DEF Unbuilt, Forward
<1>8. QED
  BY <1>1, <1>2, <1>3, <1>4, <1>5, <1>6, <1>7 DEF Next

(* Only a guest that was booting enters Azure, and it boots no more.       *)
LEMMA LabNames ==
  ASSUME None \notin Guest, LabTypeOK, OneRole, OneName, Next
  PROVE  OneName'
<1>1. CASE UNCHANGED registry
  <2>1. Unbuilt' \subseteq Unbuilt /\ booting' \ booting \subseteq Unbuilt
    BY LabRoles DEF Forward
  <2>2. QED
    BY <1>1, <2>1 DEF OneName
<1>2. ASSUME NEW g \in Guest, Boot(g), registry' # registry PROVE OneName'
  <2>1. PICK n \in ArcName : registry[n] = None /\ registry' = [registry EXCEPT ![n] = g]
    BY <1>2 DEF Boot
  <2>2. \A m \in ArcName : registry[m] # g
    BY <1>2 DEF Boot, OneName, LabTypeOK
  <2>3. g \notin Unbuilt /\ Unbuilt' = Unbuilt
    BY <1>2 DEF Boot, OneRole, Unbuilt, Tracked
  <2>4. QED
    BY <1>2, <2>1, <2>2, <2>3 DEF Boot, OneName, LabTypeOK
<1>3. ASSUME NEW n \in ArcName, Deregister(n) PROVE OneName'
  <2>1. Unbuilt' = Unbuilt /\ booting' = booting
    BY <1>3 DEF Deregister, Unbuilt, Tracked
  <2>2. \A m \in ArcName : registry'[m] # None => registry'[m] = registry[m]
    BY <1>3 DEF Deregister, LabTypeOK
  <2>3. QED
    BY <2>1, <2>2 DEF OneName
<1>4. QED
  BY <1>1, <1>2, <1>3 DEF Next, Build, Abandon, Remove, RemoveWrong, LoseTrack

(* A lab that keeps the promise has each guest in one role at a time and   *)
(* under one name in Azure at most.                                        *)
THEOREM PromiseKeepsRoles ==
  ASSUME None \notin Guest
  PROVE  Spec => [](LabTypeOK /\ OneRole /\ OneName)
<1>1. LabTypeOK /\ OneRole /\ OneName /\ [Next]_labVars => (LabTypeOK /\ OneRole /\ OneName)'
  <2>1. LabTypeOK /\ OneRole /\ OneName /\ UNCHANGED labVars => (LabTypeOK /\ OneRole /\ OneName)'
    BY DEF LabTypeOK, OneRole, OneName, labVars, Tracked, Unbuilt
  <2>2. QED
    BY <2>1, LabRoles, LabNames
<1>2. QED
  BY <1>1, LabInit, PTL DEF Spec

(* And no guest comes back, from the dead or from those lost track of.     *)
THEOREM PromiseForbidsReturn ==
  ASSUME None \notin Guest
  PROVE  Spec => NoReturn
<1>1. LabTypeOK /\ OneRole /\ [Next]_labVars => [Forward]_labVars
  BY LabRoles
<1>2. Spec => [](LabTypeOK /\ OneRole /\ OneName)
  BY PromiseKeepsRoles
<1>3. QED
  BY <1>1, <1>2, PTL DEF Spec, NoReturn
===============================================================================
