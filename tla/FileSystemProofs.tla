-------------------------- MODULE FileSystemProofs --------------------------
(***************************************************************************)
(* Proofs about the file systems: the mount table and the descriptors      *)
(* (Vfs), the walk along a cluster chain (ClusterChain) and the layout of  *)
(* a mounted FAT32 volume (FatVolume).                                     *)
(***************************************************************************)
EXTENDS Vfs, ClusterChain, FatVolume, FiniteSetTheorems, TLAPS

(***************************************************************************)
(* Vfs, for any finite set of tasks, any slots, any number of descriptors  *)
(* and any number of file systems                                          *)
(***************************************************************************)

LEMMA HandlesFinite == IsFiniteSet(Handles)
<1>1. IsFiniteSet(Places)
    BY FS_Interval, MaxFdAssumption DEF Places
<1> QED BY <1>1, TasksAssumption, FS_Product, Zenon DEF Handles

LEMMA RefsToFinite == \A s : IsFiniteSet(RefsTo(s)) /\ Cardinality(RefsTo(s)) \in Nat
<1> TAKE s
<1>1. RefsTo(s) \in SUBSET Handles
    BY Zenon DEF RefsTo
<1> QED BY <1>1, HandlesFinite, FS_Subset, FS_CardinalityType, Zenon

LEMMA HandleFacts ==
    /\ \A t \in Tasks : <<t, Local>> \in Handles
    /\ \A t \in Tasks, d \in Fds : <<t, d>> \in Handles /\ <<t, d>> # <<t, Local>>
    /\ \A t, u \in Tasks, p, q \in Places : <<t, p>> = <<u, q>> <=> t = u /\ p = q
BY MaxFdAssumption DEF Handles, Places, Local, Fds

\* No real reference is the null one.
LEMMA RealRef == \A s \in Slots, f \in Fs : [slot |-> s, fs |-> f] # NoRef
BY NoFsAssumption, Zenon DEF NoRef

LEMMA InitInv == Init => IInv
<1> SUFFICES ASSUME Init PROVE IInv
    BY Zenon
<1>1. TypeOK
    BY Zenon DEF Init, TypeOK, Labels, Refs
<1>2. UsersExact
  <2>1. \A s \in Slots : RefsTo(s) = {}
      BY Zenon DEF Init, RefsTo
  <2> QED BY <2>1, FS_EmptySet, Zenon DEF Init, UsersExact
<1>3. NoDanglingRef /\ OneTransition
    BY Zenon DEF Init, NoDanglingRef, OneTransition, InTransit
<1>4. OneOwner
    BY NoFsAssumption, Zenon DEF Init, OneOwner, Holders, Workers
<1>5. WorkOK
    BY HandleFacts, Zenon DEF Init, WorkOK, InTransit
<1> QED BY <1>1, <1>2, <1>3, <1>4, <1>5, Zenon DEF IInv

\* A step that leaves counts and references alone keeps the counts exact.
LEMMA SameRefs == ASSUME UsersExact, UNCHANGED <<users, ref>> PROVE UsersExact'
<1>1. \A s \in Slots : RefsTo(s)' = RefsTo(s)
    BY Zenon DEF RefsTo
<1> QED BY <1>1, Zenon DEF UsersExact

\* Dropping a reference lowers the count of its slot, and only that one.
LEMMA ReleaseCounts ==
    ASSUME TypeOK, UsersExact, NEW h \in Handles, ref[h] # NoRef, Release(h)
    PROVE  /\ UsersExact'
           /\ users' \in [Slots -> Nat]
           /\ ref' \in [Handles -> Refs]
<1>1. PICK r \in Slots : r = ref[h].slot
    BY Zenon DEF TypeOK, Refs
<1>0. ref' \in [Handles -> Refs]
    BY Zenon DEF TypeOK, Refs, Release
<1>2. RefsTo(r)' = RefsTo(r) \ {h} /\ h \in RefsTo(r)
    BY <1>1, Zenon DEF TypeOK, Release, RefsTo
<1>3. \A s \in Slots : s # r => RefsTo(s)' = RefsTo(s)
    BY <1>1, Zenon DEF TypeOK, Release, RefsTo
<1>4. Cardinality(RefsTo(r) \ {h}) = Cardinality(RefsTo(r)) - 1
    BY <1>2, RefsToFinite, FS_RemoveElement, Zenon
<1>5. Cardinality(RefsTo(r) \ {h}) \in Nat
    BY RefsToFinite, FS_RemoveElement, FS_CardinalityType, Zenon
<1>6. users' = [users EXCEPT ![r] = @ - 1]
    BY <1>1, Zenon DEF Release
<1>7. ASSUME NEW s \in Slots PROVE users'[s] \in Nat /\ users'[s] = Cardinality(RefsTo(s)')
    BY <1>1, <1>2, <1>3, <1>4, <1>5, <1>6, RefsToFinite, Zenon DEF UsersExact, TypeOK
<1>8. users' \in [Slots -> Nat]
    BY <1>6, <1>7, Zenon DEF TypeOK
<1> QED BY <1>0, <1>7, <1>8, Zenon DEF UsersExact

LEMMA MountReserveInv == ASSUME IInv, NEW t \in Tasks, NEW s \in Slots, MountReserve(t, s) PROVE IInv'
<1> USE DEF MountReserve, Goto, slotVars
<1>1. TypeOK'
    BY Zenon DEF IInv, TypeOK, WorkOK, Labels
<1>2. UsersExact'
    BY SameRefs, Zenon DEF IInv
<1>3. NoDanglingRef'
    BY NoFsAssumption, Zenon DEF IInv, TypeOK, NoDanglingRef, OneOwner, Holders, Workers, WorkOK, InTransit, Refs
<1>4. OneOwner'
    BY NoFsAssumption DEF IInv, TypeOK, OneOwner, Holders, Workers, WorkOK, InTransit
<1>5. OneTransition'
    BY DEF IInv, TypeOK, OneTransition, InTransit
<1>6. WorkOK'
    BY NoFsAssumption DEF IInv, TypeOK, OneOwner, Holders, Workers, OneTransition, WorkOK, InTransit
<1> QED BY <1>1, <1>2, <1>3, <1>4, <1>5, <1>6, Zenon DEF IInv

LEMMA FactoryInv == ASSUME IInv, NEW t \in Tasks, NEW f \in Fs, Factory(t, f) PROVE IInv'
<1> USE DEF Factory, Goto, slotVars
<1>1. TypeOK'
    BY Zenon DEF IInv, TypeOK, WorkOK, Labels
<1>2. UsersExact'
    BY SameRefs, Zenon DEF IInv
<1>3. NoDanglingRef'
    BY NoFsAssumption DEF IInv, TypeOK, NoDanglingRef, OneOwner, Holders, Workers, WorkOK, InTransit, Refs
<1>4. OneOwner'
  <2>1. Holders(f) = {} /\ Workers(f) = {}
      BY Zenon DEF IInv, OneOwner
  <2>2. \A g \in Fs : Holders(g)' = Holders(g)
      BY Zenon DEF Holders
  <2>3. Workers(f)' = {t}
      BY <2>1, Zenon DEF IInv, TypeOK, Workers
  <2>4. ASSUME NEW g \in Fs, g # f PROVE Workers(g)' = Workers(g)
    <3>1. owner[t] # g
        BY NoFsAssumption, Zenon DEF IInv, WorkOK
    <3>2. \A u \in Tasks : owner'[u] = g <=> owner[u] = g
        BY <2>4, <3>1, Zenon DEF IInv, TypeOK
    <3> QED BY <3>2, Zenon DEF Workers
  <2>5. life'[f] = "new" /\ \A g \in Fs : g # f => life'[g] = life[g]
      BY Zenon DEF IInv, TypeOK
  <2>6. ASSUME NEW g \in Fs
        PROVE  /\ life'[g] = "free" <=> Holders(g)' \cup Workers(g)' = {}
               /\ \A s1, s2 \in Holders(g)' : s1 = s2
               /\ \A t1, t2 \in Workers(g)' : t1 = t2
               /\ Holders(g)' = {} \/ Workers(g)' = {}
    <3>1. CASE g = f
        BY <2>1, <2>2, <2>3, <2>5, <3>1, Zenon
    <3>2. CASE g # f
        BY <2>2, <2>4, <2>5, <3>2 DEF IInv, OneOwner
    <3> QED BY <3>1, <3>2, Zenon
  <2> QED BY <2>6, Zenon DEF OneOwner
<1>5. OneTransition'
    BY DEF IInv, TypeOK, OneTransition, InTransit
<1>6. WorkOK'
    BY NoFsAssumption DEF IInv, TypeOK, OneOwner, Holders, Workers, OneTransition, WorkOK, InTransit
<1> QED BY <1>1, <1>2, <1>3, <1>4, <1>5, <1>6, Zenon DEF IInv

LEMMA FactoryFailsInv == ASSUME IInv, NEW t \in Tasks, FactoryFails(t) PROVE IInv'
<1> USE DEF FactoryFails, Goto, slotVars
<1>1. TypeOK'
    BY Zenon DEF IInv, TypeOK, WorkOK, Labels
<1>2. UsersExact'
    BY SameRefs, Zenon DEF IInv
<1>3. NoDanglingRef'
    BY NoFsAssumption, Zenon DEF IInv, TypeOK, NoDanglingRef, OneOwner, Holders, Workers, WorkOK, InTransit, Refs
<1>4. OneOwner'
    BY NoFsAssumption DEF IInv, TypeOK, OneOwner, Holders, Workers, WorkOK, InTransit
<1>5. OneTransition'
    BY DEF IInv, TypeOK, OneTransition, InTransit
<1>6. WorkOK'
    BY NoFsAssumption DEF IInv, TypeOK, OneOwner, Holders, Workers, OneTransition, WorkOK, InTransit
<1> QED BY <1>1, <1>2, <1>3, <1>4, <1>5, <1>6, Zenon DEF IInv

LEMMA MountFsInv == ASSUME IInv, NEW t \in Tasks, MountFs(t) PROVE IInv'
<1> USE DEF MountFs, Goto, slotVars
<1>1. TypeOK'
    BY Zenon DEF IInv, TypeOK, WorkOK, Labels
<1>2. UsersExact'
    BY SameRefs, Zenon DEF IInv
<1>3. NoDanglingRef'
    BY NoFsAssumption DEF IInv, TypeOK, NoDanglingRef, OneOwner, Holders, Workers, WorkOK, InTransit, Refs
<1>4. OneOwner'
    BY NoFsAssumption DEF IInv, TypeOK, OneOwner, Holders, Workers, WorkOK, InTransit
<1>5. OneTransition'
    BY DEF IInv, TypeOK, OneTransition, InTransit
<1>6. WorkOK'
    BY NoFsAssumption DEF IInv, TypeOK, OneOwner, Holders, Workers, OneTransition, WorkOK, InTransit
<1> QED BY <1>1, <1>2, <1>3, <1>4, <1>5, <1>6, Zenon DEF IInv

LEMMA MountFsFailsInv == ASSUME IInv, NEW t \in Tasks, MountFsFails(t) PROVE IInv'
<1> USE DEF MountFsFails, Goto, slotVars
<1>1. TypeOK'
    BY Zenon DEF IInv, TypeOK, WorkOK, Labels
<1>2. UsersExact'
    BY SameRefs, Zenon DEF IInv
<1>3. NoDanglingRef'
    BY NoFsAssumption, Zenon DEF IInv, TypeOK, NoDanglingRef, OneOwner, Holders, Workers, WorkOK, InTransit, Refs
<1>4. OneOwner'
    BY NoFsAssumption DEF IInv, TypeOK, OneOwner, Holders, Workers, WorkOK, InTransit
<1>5. OneTransition'
    BY DEF IInv, TypeOK, OneTransition, InTransit
<1>6. WorkOK'
    BY NoFsAssumption DEF IInv, TypeOK, OneOwner, Holders, Workers, OneTransition, WorkOK, InTransit
<1> QED BY <1>1, <1>2, <1>3, <1>4, <1>5, <1>6, Zenon DEF IInv

LEMMA PublishInv == ASSUME IInv, NEW t \in Tasks, Publish(t) PROVE IInv'
<1> USE DEF Publish, Goto, slotVars
<1>1. TypeOK'
    BY Zenon DEF IInv, TypeOK, WorkOK, Labels
<1>2. UsersExact'
    BY SameRefs, Zenon DEF IInv
<1>3. NoDanglingRef'
  <2>1. fs[slot[t]] = NoFs /\ slot[t] \in Slots
      BY Zenon DEF IInv, TypeOK, WorkOK, InTransit
  <2>2. ASSUME NEW h \in Handles, ref[h] # NoRef
        PROVE  ref[h].slot # slot[t] /\ ref[h].slot \in Slots
      BY <2>1, <2>2, NoFsAssumption, Zenon DEF IInv, TypeOK, Refs, NoDanglingRef
  <2> QED BY <2>2, Zenon DEF IInv, TypeOK, NoDanglingRef
<1>4. OneOwner'
  <2>0. owner[t] \in Fs
      BY Zenon DEF IInv, TypeOK, WorkOK
  <2>1. PICK f \in Fs : f = owner[t]
      BY <2>0, Zenon
  <2>2. fs[slot[t]] = NoFs /\ slot[t] \in Slots
      BY Zenon DEF IInv, TypeOK, WorkOK, InTransit
  <2>3. t \in Workers(f) /\ Workers(f) = {t} /\ Holders(f) = {}
      BY <2>1 DEF IInv, OneOwner, Workers
  <2>4. Holders(f)' = {slot[t]} /\ Workers(f)' = {}
      BY <2>1, <2>2, <2>3, NoFsAssumption DEF IInv, TypeOK, Holders, Workers
  <2>5. \A g \in Fs : g # f => Holders(g)' = Holders(g) /\ Workers(g)' = Workers(g)
      BY <2>1, <2>2, NoFsAssumption, Zenon DEF IInv, TypeOK, Holders, Workers
  <2> QED BY <2>3, <2>4, <2>5 DEF IInv, OneOwner
<1>5. OneTransition'
    BY DEF IInv, TypeOK, OneTransition, InTransit
<1>6. WorkOK'
  <2>1. owner[t] # NoFs /\ life[owner[t]] = "mounted" /\ slot[t] \in Slots
      BY Zenon DEF IInv, TypeOK, WorkOK
  <2>2. \A u \in Tasks : u # t /\ pc[u] \in InTransit => slot[u] # slot[t]
      BY Zenon DEF IInv, OneTransition, InTransit
  <2>3. ASSUME NEW u \in Tasks, pc'[u] \in InTransit \ {"finish"} PROVE fs'[slot'[u]] = NoFs
      BY <2>2, <2>3, Zenon DEF IInv, TypeOK, WorkOK
  <2>4. \A s \in Slots : fs'[s] # NoFs => life'[fs'[s]] = "mounted"
      BY <2>1, Zenon DEF IInv, TypeOK, WorkOK
  <2> QED BY <2>3, <2>4 DEF IInv, TypeOK, WorkOK
<1> QED BY <1>1, <1>2, <1>3, <1>4, <1>5, <1>6, Zenon DEF IInv

LEMMA UmountDetachInv == ASSUME IInv, NEW t \in Tasks, NEW s \in Slots, UmountDetach(t, s) PROVE IInv'
<1> USE DEF UmountDetach, Goto, slotVars
<1>1. TypeOK'
    BY Zenon DEF IInv, TypeOK, WorkOK, Labels
<1>2. UsersExact'
    BY SameRefs, Zenon DEF IInv
<1>3. NoDanglingRef'
  <2>1. RefsTo(s) = {}
      BY RefsToFinite, FS_EmptySet, Zenon DEF IInv, UsersExact
  <2>2. \A h \in Handles : ref[h] # NoRef => ref[h].slot # s /\ ref[h].slot \in Slots
      BY <2>1, Zenon DEF IInv, TypeOK, Refs, RefsTo
  <2> QED BY <2>2, Zenon DEF IInv, TypeOK, NoDanglingRef
<1>4. OneOwner'
  <2>1. PICK f \in Fs : f = fs[s]
      BY Zenon DEF IInv, TypeOK
  <2>2. s \in Holders(f) /\ Holders(f) = {s} /\ Workers(f) = {}
      BY <2>1 DEF IInv, OneOwner, Holders
  <2>3. owner[t] = NoFs
      BY Zenon DEF IInv, WorkOK
  <2>4. Holders(f)' = {} /\ Workers(f)' = {t}
      BY <2>1, <2>2, NoFsAssumption DEF IInv, TypeOK, Holders, Workers
  <2>5. \A g \in Fs : g # f => Holders(g)' = Holders(g) /\ Workers(g)' = Workers(g)
      BY <2>1, <2>3, NoFsAssumption, Zenon DEF IInv, TypeOK, Holders, Workers
  <2> QED BY <2>2, <2>4, <2>5 DEF IInv, OneOwner
<1>5. OneTransition'
    BY DEF IInv, TypeOK, OneTransition, InTransit
<1>6. WorkOK'
    BY NoFsAssumption DEF IInv, TypeOK, OneOwner, Holders, Workers, OneTransition, WorkOK, InTransit
<1> QED BY <1>1, <1>2, <1>3, <1>4, <1>5, <1>6, Zenon DEF IInv

LEMMA UnmountFsInv == ASSUME IInv, NEW t \in Tasks, UnmountFs(t) PROVE IInv'
<1> USE DEF UnmountFs, Goto, slotVars
<1>1. TypeOK'
    BY Zenon DEF IInv, TypeOK, WorkOK, Labels
<1>2. UsersExact'
    BY SameRefs, Zenon DEF IInv
<1>3. NoDanglingRef'
    BY NoFsAssumption DEF IInv, TypeOK, NoDanglingRef, OneOwner, Holders, Workers, WorkOK, InTransit, Refs
<1>4. OneOwner'
    BY NoFsAssumption DEF IInv, TypeOK, OneOwner, Holders, Workers, WorkOK, InTransit
<1>5. OneTransition'
    BY DEF IInv, TypeOK, OneTransition, InTransit
<1>6. WorkOK'
    BY NoFsAssumption DEF IInv, TypeOK, OneOwner, Holders, Workers, OneTransition, WorkOK, InTransit
<1> QED BY <1>1, <1>2, <1>3, <1>4, <1>5, <1>6, Zenon DEF IInv

LEMMA DestroyInv == ASSUME IInv, NEW t \in Tasks, Destroy(t) PROVE IInv'
<1> USE DEF Destroy, Goto, slotVars
<1>1. TypeOK'
    BY Zenon DEF IInv, TypeOK, WorkOK, Labels
<1>2. UsersExact'
    BY SameRefs, Zenon DEF IInv
<1>3. NoDanglingRef'
    BY NoFsAssumption DEF IInv, TypeOK, NoDanglingRef, OneOwner, Holders, Workers, WorkOK, InTransit, Refs
<1>4. OneOwner'
    BY NoFsAssumption DEF IInv, TypeOK, OneOwner, Holders, Workers, WorkOK, InTransit
<1>5. OneTransition'
    BY DEF IInv, TypeOK, OneTransition, InTransit
<1>6. WorkOK'
    BY NoFsAssumption DEF IInv, TypeOK, OneOwner, Holders, Workers, OneTransition, WorkOK, InTransit
<1> QED BY <1>1, <1>2, <1>3, <1>4, <1>5, <1>6, Zenon DEF IInv

LEMMA FinishTransitionInv == ASSUME IInv, NEW t \in Tasks, FinishTransition(t) PROVE IInv'
<1> USE DEF FinishTransition, Goto, slotVars
<1>1. TypeOK'
    BY Zenon DEF IInv, TypeOK, WorkOK, Labels
<1>2. UsersExact'
    BY SameRefs, Zenon DEF IInv
<1>3. NoDanglingRef'
    BY NoFsAssumption, Zenon DEF IInv, TypeOK, NoDanglingRef, OneOwner, Holders, Workers, WorkOK, InTransit, Refs
<1>4. OneOwner'
    BY NoFsAssumption DEF IInv, TypeOK, OneOwner, Holders, Workers, WorkOK, InTransit
<1>5. OneTransition'
    BY DEF IInv, TypeOK, OneTransition, InTransit
<1>6. WorkOK'
    BY NoFsAssumption DEF IInv, TypeOK, OneOwner, Holders, Workers, OneTransition, WorkOK, InTransit
<1> QED BY <1>1, <1>2, <1>3, <1>4, <1>5, <1>6, Zenon DEF IInv

LEMMA OpenFileInv == ASSUME IInv, NEW t \in Tasks, OpenFile(t) PROVE IInv'
<1> USE DEF OpenFile, Goto, slotVars
<1>1. TypeOK'
    BY Zenon DEF IInv, TypeOK, WorkOK, Labels
<1>2. UsersExact'
    BY SameRefs, Zenon DEF IInv
<1>3. NoDanglingRef'
    BY NoFsAssumption, Zenon DEF IInv, TypeOK, NoDanglingRef, OneOwner, Holders, Workers, WorkOK, InTransit, Refs
<1>4. OneOwner'
    BY NoFsAssumption DEF IInv, TypeOK, OneOwner, Holders, Workers, WorkOK, InTransit
<1>5. OneTransition'
    BY DEF IInv, TypeOK, OneTransition, InTransit
<1>6. WorkOK'
    BY NoFsAssumption DEF IInv, TypeOK, OneOwner, Holders, Workers, OneTransition, WorkOK, InTransit
<1> QED BY <1>1, <1>2, <1>3, <1>4, <1>5, <1>6, Zenon DEF IInv

LEMMA ExitInv == ASSUME IInv, NEW t \in Tasks, Exit(t) PROVE IInv'
<1> USE DEF Exit, Goto, slotVars
<1>1. TypeOK'
    BY Zenon DEF IInv, TypeOK, WorkOK, Labels
<1>2. UsersExact'
    BY SameRefs, Zenon DEF IInv
<1>3. NoDanglingRef'
    BY NoFsAssumption, Zenon DEF IInv, TypeOK, NoDanglingRef, OneOwner, Holders, Workers, WorkOK, InTransit, Refs
<1>4. OneOwner'
    BY NoFsAssumption DEF IInv, TypeOK, OneOwner, Holders, Workers, WorkOK, InTransit
<1>5. OneTransition'
    BY DEF IInv, TypeOK, OneTransition, InTransit
<1>6. WorkOK'
    BY NoFsAssumption DEF IInv, TypeOK, OneOwner, Holders, Workers, OneTransition, WorkOK, InTransit
<1> QED BY <1>1, <1>2, <1>3, <1>4, <1>5, <1>6, Zenon DEF IInv

LEMMA ForkInv == ASSUME IInv, NEW t \in Tasks, Fork(t) PROVE IInv'
<1> USE DEF Fork, Goto, slotVars
<1>1. TypeOK'
    BY Zenon DEF IInv, TypeOK, WorkOK, Labels
<1>2. UsersExact'
    BY SameRefs, Zenon DEF IInv
<1>3. NoDanglingRef'
    BY NoFsAssumption, Zenon DEF IInv, TypeOK, NoDanglingRef, OneOwner, Holders, Workers, WorkOK, InTransit, Refs
<1>4. OneOwner'
    BY NoFsAssumption DEF IInv, TypeOK, OneOwner, Holders, Workers, WorkOK, InTransit
<1>5. OneTransition'
    BY DEF IInv, TypeOK, OneTransition, InTransit
<1>6. WorkOK'
    BY NoFsAssumption DEF IInv, TypeOK, OneOwner, Holders, Workers, OneTransition, WorkOK, InTransit
<1> QED BY <1>1, <1>2, <1>3, <1>4, <1>5, <1>6, Zenon DEF IInv

\* A reference is dropped by a task that then goes on at label l.
LEMMA ReleaseInv ==
    ASSUME IInv, NEW t \in Tasks, NEW p \in Places, ref[<<t, p>>] # NoRef, Release(<<t, p>>),
           UNCHANGED <<slot, owner>>,
           \/ p = Local /\ Goto(t, "idle")
           \/ p # Local /\ UNCHANGED pc,
           pc[t] \notin InTransit
    PROVE  IInv'
<1>1. <<t, p>> \in Handles
    BY Zenon DEF Handles
<1>2. /\ UsersExact' /\ users' \in [Slots -> Nat] /\ ref' \in [Handles -> Refs]
      /\ ref' = [ref EXCEPT ![<<t, p>>] = NoRef]
      /\ UNCHANGED <<fs, transitioning, life>>
    BY <1>1, ReleaseCounts, Zenon DEF IInv, Release
<1>3. TypeOK'
    BY <1>2, Zenon DEF IInv, TypeOK, Goto, Labels
<1>4. NoDanglingRef' /\ OneOwner'
    BY <1>1, <1>2 DEF IInv, TypeOK, NoDanglingRef, OneOwner, Holders, Workers
<1>5. OneTransition'
    BY <1>2 DEF IInv, TypeOK, OneTransition, Goto, InTransit
<1>6. WorkOK'
  <2>1. \A u \in Tasks : ref'[<<u, Local>>] = IF u = t /\ p = Local THEN NoRef ELSE ref[<<u, Local>>]
      BY <1>1, <1>2, HandleFacts DEF IInv, TypeOK
  <2> QED BY <1>2, <2>1 DEF IInv, TypeOK, WorkOK, Goto, InTransit
<1> QED BY <1>2, <1>3, <1>4, <1>5, <1>6, Zenon DEF IInv

LEMMA AcquireMountInv == ASSUME IInv, NEW t \in Tasks, NEW s \in Slots, AcquireMount(t, s) PROVE IInv'
<1> DEFINE h == <<t, Local>>
           r == [slot |-> s, fs |-> fs[s]]
<1> USE DEF AcquireMount, Goto
<1>1. h \in Handles /\ r \in Refs /\ r # NoRef /\ r.slot = s /\ r.fs = fs[s] /\ ref[h] = NoRef
    BY HandleFacts, RealRef DEF IInv, TypeOK, Refs, WorkOK
<1>2. ref' = [ref EXCEPT ![h] = r]
    BY Zenon
<1> HIDE DEF h, r
<1>3. TypeOK'
    BY <1>1, <1>2 DEF IInv, TypeOK, Labels
<1>4. UsersExact'
  <2>1. RefsTo(s)' = RefsTo(s) \cup {h} /\ h \notin RefsTo(s)
      BY <1>1, <1>2 DEF IInv, TypeOK, RefsTo
  <2>2. \A q \in Slots : q # s => RefsTo(q)' = RefsTo(q)
      BY <1>1, <1>2 DEF IInv, TypeOK, RefsTo
  <2>3. Cardinality(RefsTo(s) \cup {h}) = Cardinality(RefsTo(s)) + 1
      BY <2>1, RefsToFinite, FS_AddElement, Zenon
  <2> QED BY <2>1, <2>2, <2>3, Zenon DEF IInv, TypeOK, UsersExact
<1>5. NoDanglingRef'
    BY <1>1, <1>2 DEF IInv, TypeOK, NoDanglingRef, WorkOK
<1>6. OneOwner'
    BY DEF IInv, OneOwner, Holders, Workers
<1>7. OneTransition'
    BY DEF IInv, TypeOK, OneTransition, InTransit
<1>8. WorkOK'
  <2>1. \A u \in Tasks : ref'[<<u, Local>>] = IF u = t THEN r ELSE ref[<<u, Local>>]
      BY <1>1, <1>2, HandleFacts DEF IInv, TypeOK, h
  <2> QED BY <1>1, <2>1 DEF IInv, TypeOK, WorkOK, InTransit
<1> QED BY <1>3, <1>4, <1>5, <1>6, <1>7, <1>8, Zenon DEF IInv

\* Table::alloc() moves a reference and counts nothing.
LEMMA AllocFdInv == ASSUME IInv, NEW t \in Tasks, AllocFd(t) PROVE IInv'
<1> USE DEF Goto, slotVars
<1>1. PICK d \in Fds :
        /\ ref[<<t, d>>] = NoRef
        /\ ref' = [ref EXCEPT ![<<t, d>>] = ref[<<t, Local>>], ![<<t, Local>>] = NoRef]
    BY Zenon DEF AllocFd
<1> DEFINE a == <<t, d>>
           b == <<t, Local>>
<1>2. a \in Handles /\ b \in Handles /\ a # b
    BY HandleFacts, Zenon
<1>3. /\ ref[a] = NoRef /\ ref[b] # NoRef
      /\ \A h \in Handles : ref'[h] = IF h = a THEN ref[b] ELSE IF h = b THEN NoRef ELSE ref[h]
      /\ ref' \in [Handles -> Refs]
    BY <1>1, <1>2, Zenon DEF IInv, TypeOK, WorkOK, AllocFd
<1>4. \A u \in Tasks : ref'[<<u, Local>>] = IF u = t THEN NoRef ELSE ref[<<u, Local>>]
    BY <1>2, <1>3, HandleFacts, Zenon
<1> HIDE DEF a, b
<1>5. TypeOK'
    BY <1>3, Zenon DEF IInv, TypeOK, AllocFd, Labels
<1>6. UsersExact'
  <2>1. ASSUME NEW s \in Slots PROVE Cardinality(RefsTo(s)') = Cardinality(RefsTo(s))
    <3>1. CASE ref[b].slot = s
      <4>1. RefsTo(s)' = (RefsTo(s) \ {b}) \cup {a} /\ b \in RefsTo(s) /\ a \notin RefsTo(s) \ {b}
          BY <1>2, <1>3, <3>1 DEF RefsTo
      <4>2. /\ IsFiniteSet(RefsTo(s) \ {b})
            /\ Cardinality(RefsTo(s) \ {b}) = Cardinality(RefsTo(s)) - 1
          BY <4>1, RefsToFinite, FS_RemoveElement, Zenon
      <4>3. Cardinality(RefsTo(s)') = Cardinality(RefsTo(s) \ {b}) + 1
          BY <4>1, <4>2, FS_AddElement, Zenon
      <4> QED BY <4>2, <4>3, RefsToFinite
    <3>2. CASE ref[b].slot # s
      <4>1. RefsTo(s)' = RefsTo(s)
          BY <1>2, <1>3, <3>2, Zenon DEF RefsTo
      <4> QED BY <4>1, Zenon
    <3> QED BY <3>1, <3>2, Zenon
  <2> QED BY <2>1, Zenon DEF IInv, UsersExact, AllocFd
<1>7. NoDanglingRef' /\ OneOwner'
    BY <1>2, <1>3 DEF IInv, NoDanglingRef, OneOwner, Holders, Workers, AllocFd
<1>8. OneTransition'
    BY DEF IInv, TypeOK, OneTransition, InTransit, AllocFd
<1>9. WorkOK'
    BY <1>4, Zenon DEF IInv, TypeOK, WorkOK, InTransit, AllocFd
<1> QED BY <1>5, <1>6, <1>7, <1>8, <1>9, Zenon DEF IInv

LEMMA Inductive == IInv /\ [Next]_vars => IInv'
<1> SUFFICES ASSUME IInv, [Next]_vars PROVE IInv'
    BY Zenon
<1>1. ASSUME NEW t \in Tasks, ReleaseMount(t) \/ CloseFile(t) PROVE IInv'
  <2>1. ref[<<t, Local>>] # NoRef /\ Local \in Places /\ pc[t] \notin InTransit
      BY <1>1, MaxFdAssumption DEF IInv, WorkOK, ReleaseMount, CloseFile, Local, Places, InTransit
  <2> QED BY <1>1, <2>1, ReleaseInv, Zenon DEF ReleaseMount, CloseFile
<1>2. ASSUME NEW t \in Tasks, NEW d \in Fds, CloseFd(t, d) \/ CloseAll(t, d) PROVE IInv'
  <2>1. d \in Places /\ d # Local /\ pc[t] \notin InTransit
      BY <1>2, MaxFdAssumption DEF CloseFd, CloseAll, Local, Places, Fds, InTransit
  <2> QED BY <1>2, <2>1, ReleaseInv, Zenon DEF CloseFd, CloseAll, taskVars
<1>3. CASE UNCHANGED vars
  <2>1. UsersExact'
      BY <1>3, SameRefs, Zenon DEF IInv, vars, slotVars
  <2> QED BY <1>3, <2>1 DEF vars, slotVars, taskVars, IInv, TypeOK, NoDanglingRef, OneOwner,
                            Holders, Workers, OneTransition, WorkOK
<1>4. ASSUME NEW t \in Tasks, Transit(t) PROVE IInv'
    BY <1>4, FactoryInv, FactoryFailsInv, MountFsInv, MountFsFailsInv, PublishInv, UnmountFsInv,
       DestroyInv, FinishTransitionInv, Zenon DEF Transit
<1>5. ASSUME NEW t \in Tasks, Return(t) \/ CloseOnExit(t) \/ Exit(t) PROVE IInv'
    BY <1>1, <1>2, <1>5, OpenFileInv, AllocFdInv, ForkInv, ExitInv, Zenon DEF Return, CloseOnExit
<1> QED BY <1>2, <1>3, <1>4, <1>5, MountReserveInv, UmountDetachInv, AcquireMountInv, Zenon DEF Next

\* The conjunction that carries the induction.
THEOREM Invariance == Spec => []IInv
BY InitInv, Inductive, PTL DEF Spec

\* umount() never takes a file system from a call under way or an open file,
\* for any number of tasks, slots, descriptors and file systems.
THEOREM NoUseAfterUmount == Spec => []NoDanglingRef
BY Invariance, PTL DEF IInv

\* MountSlot::users is the number of references, so the assertions of ~File
\* and ReleaseMount hold and umount() is refused exactly while there are some.
THEOREM ReferencesCounted == Spec => []UsersExact
BY Invariance, PTL DEF IInv

\* No file system is leaked or destroyed twice by mount() and umount(), on
\* their error paths included.
THEOREM FileSystemsOwned == Spec => []OneOwner
BY Invariance, PTL DEF IInv

\* mount() and umount() of one slot never overlap.
THEOREM TransitionsExclusive == Spec => []OneTransition
BY Invariance, PTL DEF IInv

(***************************************************************************)
(* ChainExact for a volume of any number of clusters and any contents of   *)
(* its FAT                                                                 *)
(***************************************************************************)

ChainTypeOK ==
  /\ fat \in [Clusters -> Clusters \cup {Eoc, Bad}]
  /\ walk \in Seq(Clusters)

\* While the walk goes on, its state is what next() has returned: the current
\* cluster is the last one, the checkpoint one of them.
Where ==
  result = "walking" =>
    IF walk = <<>> THEN checkpoint = current
    ELSE /\ current = walk[Len(walk)]
         /\ \E i \in 1 .. Len(walk) : checkpoint = walk[i]

\* Once the walk has come back to a cluster it repeats itself.
Periodic ==
  \A i, j \in 1 .. Len(walk) :
    i < j /\ walk[i] = walk[j] =>
      \A k \in Nat : j + k <= Len(walk) => walk[i + k] = walk[j + k]

ChainIInv == ChainTypeOK /\ Where /\ Periodic /\ ChainExact

\* A walk that met a cluster twice has been where its last link leads.
LEMMA Repeats ==
  ASSUME ChainTypeOK, Linked, Periodic, ~Distinct
  PROVE  /\ walk # <<>> /\ fat[walk[Len(walk)]] \in Clusters
         /\ \E i \in 1 .. Len(walk) : fat[walk[Len(walk)]] = walk[i]
<1> DEFINE l == Len(walk)
<1>1. l \in Nat /\ walk \in [1 .. l -> Clusters]
  BY DEF ChainTypeOK
<1>2. PICK i \in 1 .. l, j \in 1 .. l : i < j /\ walk[i] = walk[j]
  <2>1. PICK a \in 1 .. l, b \in 1 .. l : a # b /\ walk[a] = walk[b]
    BY Zenon DEF Distinct
  <2>2. CASE a < b
    BY <2>1, <2>2, Zenon
  <2>3. CASE b < a
    BY <2>1, <2>3, Zenon
  <2> QED BY <1>1, <2>1, <2>2, <2>3
<1> HIDE DEF l
<1>3. PICK k \in Nat : j + k = l /\ i + k \in 1 .. l - 1
  <2>1. l - j \in Nat /\ j + (l - j) = l /\ i + (l - j) \in 1 .. l - 1
    BY <1>1, <1>2
  <2> QED BY <2>1, Zenon
<1> DEFINE n == i + k
<1>4. walk[n] = walk[l]
  <2>1. walk[i + k] = walk[j + k]
    BY <1>1, <1>2, <1>3 DEF Periodic, l
  <2> QED BY <1>3, <2>1, Zenon
<1>5. n + 1 \in 1 .. l /\ walk[n + 1] = fat[walk[n]]
  BY <1>1, <1>3 DEF Linked, l
<1>6. fat[walk[l]] = walk[n + 1]
  BY <1>4, <1>5, Zenon
<1>7. walk # <<>>
  BY <1>1, <1>2 DEF l
<1> HIDE DEF n
<1>8. walk[n + 1] \in Clusters
  BY <1>1, <1>5, Zenon
<1> QED BY <1>5, <1>6, <1>7, <1>8, Zenon DEF l

\* A walk as long as the volume has clusters has been everywhere: the limit of
\* visited_ refuses no cluster that was not returned before.
LEMMA EverywhereVisited ==
  ASSUME ChainTypeOK, Linked, Periodic, Len(walk) = Count,
         fat[walk[Count]] \in Clusters
  PROVE  \E i \in 1 .. Count : fat[walk[Count]] = walk[i]
<1> DEFINE c == fat[walk[Count]]
<1>1. Count \in Nat /\ walk \in [1 .. Count -> Clusters]
  BY ClusterChainAssumption DEF ChainTypeOK
<1>2. CASE ~Distinct
  BY <1>2, Repeats, Zenon
<1>3. CASE Distinct
  <2> SUFFICES ASSUME \A i \in 1 .. Count : walk[i] # c PROVE FALSE
    BY Zenon
  <2> DEFINE T == Clusters \ {c}
             S == 1 .. Count
  <2>1. walk \in [S -> T]
    BY <1>1, Zenon
  <2>2. IsFiniteSet(S) /\ Cardinality(S) = Count
    <3>1. 1 \in Int /\ Count \in Int /\ (1 > Count => Count = 0) /\ Count - 1 + 1 = Count
      BY <1>1
    <3>2. IsFiniteSet(S) /\ Cardinality(S) = IF 1 > Count THEN 0 ELSE Count - 1 + 1
      BY <3>1, FS_Interval, Zenon
    <3> QED BY <3>1, <3>2, Zenon
  <2>3. IsFiniteSet(Clusters) /\ Cardinality(Clusters) = Count
    <3> DEFINE m == Count + 1
    <3>1. 2 \in Int /\ m \in Int /\ (2 > m => Count = 0) /\ m - 2 + 1 = Count
      BY <1>1
    <3>2. Clusters = 2 .. m
      BY Zenon DEF Clusters
    <3> HIDE DEF m
    <3>3. IsFiniteSet(2 .. m) /\ Cardinality(2 .. m) = IF 2 > m THEN 0 ELSE m - 2 + 1
      BY <3>1, FS_Interval, Zenon
    <3> QED BY <3>1, <3>2, <3>3, Zenon
  <2>4. IsFiniteSet(T) /\ Cardinality(T) = Count - 1
    BY <2>3, FS_RemoveElement, Zenon
  <2>5. \E a, b \in S : a # b /\ walk[a] = walk[b]
    <3>1. Cardinality(T) < Cardinality(S)
      BY <1>1, <2>2, <2>4
    <3> HIDE DEF S, T
    <3> QED BY <2>1, <2>2, <2>4, <3>1, FS_PigeonHole, Zenon
  <2> QED BY <1>3, <2>5, Zenon DEF Distinct
<1> QED BY <1>2, <1>3, Zenon

-----------------------------------------------------------------------------
(* The steps.                                                              *)

\* A cluster linked from the last one extends the walk (the end of next()).
LEMMA Extend ==
  ASSUME ChainIInv, result = "walking", NEW c \in Clusters, Len(walk) < Count,
         walk # <<>> => c = fat[walk[Len(walk)]],
         fat' = fat, walk' = Append(walk, c), current' = c, result' = result,
         IF walk = <<>> THEN checkpoint' = c
         ELSE checkpoint' \in {checkpoint, c}
  PROVE  ChainIInv'
<1> USE DEF ChainIInv
<1> DEFINE l == Len(walk)
<1>1. /\ l \in Nat /\ walk \in [1 .. l -> Clusters]
      /\ walk' \in Seq(Clusters) /\ Len(walk') = l + 1 /\ walk' # <<>>
      /\ walk'[l + 1] = c /\ \A i \in 1 .. l : walk'[i] = walk[i]
      /\ walk = <<>> <=> l = 0
  BY DEF ChainTypeOK
<1> HIDE DEF l
<1>2. ChainTypeOK'
  BY <1>1, Zenon DEF ChainTypeOK, Clusters
<1>3. Where'
  <2>1. \E i \in 1 .. l + 1 : checkpoint' = walk'[i]
    <3>1. CASE checkpoint' = c
      BY <1>1, <3>1
    <3>2. CASE checkpoint' # c
      <4>1. walk # <<>> /\ checkpoint' = checkpoint
        BY <3>2, Zenon
      <4>2. PICK i \in 1 .. l : checkpoint = walk[i]
        BY <4>1, Zenon DEF Where, l
      <4>3. i \in 1 .. l + 1
        BY <1>1
      <4> QED BY <1>1, <4>1, <4>2, <4>3, Zenon
    <3> QED BY <3>1, <3>2, Zenon
  <2> QED BY <1>1, <2>1, Zenon DEF Where
<1>4. \A i \in 1 .. l : walk'[i + 1] = fat[walk'[i]]
  <2> TAKE i \in 1 .. l
  <2>1. CASE i = l
    BY <1>1, <2>1 DEF l
  <2>2. CASE i # l
    <3>1. i \in 1 .. l - 1 /\ i + 1 \in 1 .. l
      BY <1>1, <2>2
    <3> QED BY <1>1, <3>1, Zenon DEF ChainExact, Linked, l
  <2> QED BY <2>1, <2>2, Zenon
<1>5. Periodic'
  <2> SUFFICES ASSUME NEW i \in 1 .. l + 1, NEW j \in 1 .. l + 1,
                      i < j, walk'[i] = walk'[j], NEW k \in Nat, j + k <= l + 1
               PROVE  walk'[i + k] = walk'[j + k]
    BY <1>1 DEF Periodic
  <2>1. CASE k = 0
    BY <1>1, <2>1
  <2>2. CASE k # 0
    <3>1. /\ i \in 1 .. l /\ j \in 1 .. l /\ k - 1 \in Nat /\ j + (k - 1) <= l
          /\ i + (k - 1) \in 1 .. l - 1 /\ j + (k - 1) \in 1 .. l
      BY <1>1, <2>2
    <3>2. walk[i] = walk[j]
      BY <1>1, <3>1, Zenon
    <3>3. walk[i + (k - 1)] = walk[j + (k - 1)]
      BY <3>1, <3>2, Zenon DEF Periodic, l
    <3>4. walk'[i + (k - 1)] = walk'[j + (k - 1)]
      BY <1>1, <3>1, <3>3
    <3> DEFINE a == i + (k - 1)
               b == j + (k - 1)
    <3>5. a \in 1 .. l /\ b \in 1 .. l /\ a + 1 = i + k /\ b + 1 = j + k
      BY <1>1, <3>1
    <3> HIDE DEF a, b
    <3>6. walk'[a + 1] = fat[walk'[a]] /\ walk'[b + 1] = fat[walk'[b]]
      BY <1>4, <3>5, Zenon
    <3>7. walk'[a] = walk'[b]
      BY <3>4, Zenon DEF a, b
    <3> QED BY <3>5, <3>6, <3>7, Zenon
  <2> QED BY <2>1, <2>2, Zenon
<1>6. ChainExact'
  <2>1. l + 1 <= Count
    BY <1>1, ClusterChainAssumption DEF l
  <2>2. Linked'
    BY <1>1, <1>4 DEF Linked
  <2> QED BY <1>1, <2>1, <2>2, Zenon DEF ChainExact
<1> QED BY <1>2, <1>3, <1>5, <1>6, Zenon

\* A walk that ends has its answer, and leaves what it returned as it is.
LEMMA Stop ==
  ASSUME ChainIInv, result = "walking", fat' = fat, walk' = walk,
         \/ /\ result' = "finished" /\ walk # <<>>
            /\ fat[walk[Len(walk)]] = Eoc
         \/ /\ result' = "BadFs"
            /\ \/ walk = <<>> /\ ~valid_cluster(current')
               \/ walk # <<>> /\ fat[walk[Len(walk)]] \notin Clusters \cup {Eoc}
               \/ walk # <<>> /\ \E i \in 1 .. Len(walk) : fat[walk[Len(walk)]] = walk[i]
  PROVE  ChainIInv'
<1> USE DEF ChainIInv
<1>1. ChainTypeOK' /\ Where' /\ Periodic'
  BY DEF ChainTypeOK, Where, Periodic, Clusters
<1>2. Linked /\ Linked' /\ Len(walk') <= Count
  BY Zenon DEF ChainExact, Linked
<1>3. CASE result' = "finished"
  <2>1. Eoc \notin Clusters
    BY ClusterChainAssumption DEF Clusters
  <2>2. Distinct
    BY <1>2, <1>3, <2>1, Repeats, Zenon
  <2>3. Distinct'
    BY <2>2, Zenon DEF Distinct
  <2> QED BY <1>1, <1>2, <1>3, <2>3, Zenon DEF ChainExact
<1>4. CASE result' = "BadFs"
  BY <1>1, <1>2, <1>4, Zenon DEF ChainExact, valid_cluster, Clusters
<1> QED BY <1>3, <1>4, Zenon

\* The first cluster of a chain is the one its entry names (next()).
LEMMA FirstIInv ==
  ASSUME ChainIInv, First
  PROVE  ChainIInv'
<1>1. /\ result = "walking" /\ walk = <<>> /\ fat' = fat /\ checkpoint' = checkpoint
      /\ checkpoint = current /\ Visit(current)
  BY Zenon DEF First, ChainIInv, Where
<1>2. Len(walk) = 0 /\ 0 < Count
  BY <1>1, ClusterChainAssumption
<1>3. CASE valid_cluster(current)
  BY <1>1, <1>2, <1>3, Extend, Zenon DEF Visit, valid_cluster
<1>4. CASE ~valid_cluster(current)
  <2>1. result' = "BadFs" /\ current' = current /\ walk' = walk
    BY <1>1, <1>4, Zenon DEF Visit
  <2> QED BY <1>1, <1>4, <2>1, Stop, Zenon
<1> QED BY <1>3, <1>4, Zenon

\* A link that next() follows is new to the walk, or the walk has been in every
\* cluster and visited_ stops it.
LEMMA LinkIInv ==
  ASSUME ChainIInv, Link
  PROVE  ChainIInv'
<1> DEFINE c == fat[current]
           l == Len(walk)
<1>1. /\ result = "walking" /\ walk # <<>> /\ fat' = fat /\ c \in Clusters
      /\ checkpoint' \in {checkpoint, c} /\ Visit(c)
  BY Zenon DEF Link, valid_cluster
<1>2. current = walk[l] /\ c = fat[walk[l]]
  BY <1>1, Zenon DEF ChainIInv, Where
<1>3. l \in Nat /\ l <= Count /\ Count \in Nat
  BY ClusterChainAssumption DEF ChainIInv, ChainTypeOK, ChainExact
<1> HIDE DEF c
<1>4. CASE l < Count
  BY <1>1, <1>2, <1>4, Extend, Zenon DEF Visit, valid_cluster
<1>5. CASE l = Count
  <2>1. result' = "BadFs" /\ current' = current /\ walk' = walk
    BY <1>1, <1>3, <1>5 DEF Visit
  <2>2. \E i \in 1 .. l : fat[walk[l]] = walk[i]
    BY <1>1, <1>2, <1>5, EverywhereVisited, Zenon DEF ChainIInv, ChainExact
  <2> QED BY <1>1, <2>1, <2>2, Stop, Zenon
<1> QED BY <1>3, <1>4, <1>5

\* The walk answers what the chain is, whatever the FAT of a volume of any size
\* holds, with a single remembered cluster (ClusterChain::next).
THEOREM ChainCorrect == ChainSpec => []ChainExact
<1>1. ChainInit => ChainIInv
  <2> SUFFICES ASSUME ChainInit PROVE ChainIInv
    BY Zenon
  <2>1. Len(walk) = 0 /\ walk = <<>> /\ walk \in Seq(Clusters) /\ result = "walking"
    BY DEF ChainInit
  <2> QED BY <2>1, ClusterChainAssumption
          DEF ChainInit, ChainIInv, ChainTypeOK, Where, Periodic, ChainExact, Linked
<1>2. ChainIInv /\ [ChainNext]_chainVars => ChainIInv'
  <2> SUFFICES ASSUME ChainIInv, [ChainNext]_chainVars PROVE ChainIInv'
    BY Zenon
  <2>1. CASE First
    BY <2>1, FirstIInv, Zenon
  <2>2. CASE End
    <3>1. current = walk[Len(walk)]
      BY <2>2, Zenon DEF End, ChainIInv, Where
    <3> QED BY <2>2, <3>1, Stop, Zenon DEF End
  <2>3. CASE BadLink
    <3>1. /\ current = walk[Len(walk)]
          /\ \E i \in 1 .. Len(walk) : checkpoint = walk[i]
      BY <2>3, Zenon DEF BadLink, ChainIInv, Where
    <3> QED BY <2>3, <3>1, Stop, Zenon DEF BadLink, valid_cluster
  <2>4. CASE Link
    BY <2>4, LinkIInv, Zenon
  <2>5. CASE UNCHANGED chainVars
    BY <2>5 DEF chainVars, ChainIInv, ChainTypeOK, Where, Periodic, ChainExact, Linked, Distinct,
                valid_cluster, Clusters
  <2> QED BY <2>1, <2>2, <2>3, <2>4, <2>5, Zenon DEF ChainNext
<1>3. ChainIInv => ChainExact
  BY Zenon DEF ChainIInv
<1> QED BY <1>1, <1>2, <1>3, PTL DEF ChainSpec

(***************************************************************************)
(* VolumeFits for devices, partitions and boot sectors of any numbers      *)
(***************************************************************************)

\* What the accepted boot sector bs of a volume says, in plain arithmetic:
\* the FATs and then the clusters fit one after the other, and the FAT has
\* an entry for each cluster.
LEMMA FitsArithmetic ==
  ASSUME NEW total \in Nat, NEW reserved \in Nat, NEW fats \in {1, 2}, NEW fatSize \in Nat,
         NEW perCluster \in {1, 2, 4, 8, 16, 32, 64, 128}, NEW dataStart, NEW count,
         dataStart = reserved + fats * fatSize, dataStart < total,
         count = (total - dataStart) \div perCluster
  PROVE  /\ dataStart \in Nat /\ count \in Nat
         /\ count * perCluster \in Nat
         /\ dataStart + count * perCluster <= total
BY SMT

\* The sector of c's link within a FAT.
LEMMA LinkInFat ==
  ASSUME NEW c \in Nat, NEW fatSize \in Nat, c < fatSize * PerSector
  PROVE  c \div PerSector \in 0 .. fatSize - 1
<1> DEFINE q == c \div PerSector
           r == c % PerSector
<1>1. PerSector \in Nat \ {0}
  BY FatVolumeAssumption, Zenon
<1>2. q \in Nat /\ r \in Nat /\ c = PerSector * q + r
  BY <1>1, SMT
<1> HIDE DEF q, r
<1>3. q < fatSize
  <2> SUFFICES ASSUME q >= fatSize PROVE FALSE
    BY <1>2
  <2>1. PICK d \in Nat : q = fatSize + d
    <3>1. q - fatSize \in Nat /\ q = fatSize + (q - fatSize)
      BY <1>2
    <3> QED BY <3>1, Zenon
  <2>2. PerSector * (fatSize + d) = fatSize * PerSector + PerSector * d /\ PerSector * d \in Nat
    BY <1>1
  <2>3. PerSector * q = fatSize * PerSector + PerSector * d
    BY <2>1, <2>2, Zenon
  <2> QED BY <1>1, <1>2, <2>2, <2>3
<1> QED BY <1>2, <1>3 DEF q

\* The device sectors of the data clusters are one interval, each sector once.
Tiled(D, first, perCluster, count) ==
  /\ \A c \in 2 .. count + 1, s \in 0 .. perCluster - 1 : first + (c - 2) * perCluster + s \in D
  /\ \A x \in D : \E c \in 2 .. count + 1, s \in 0 .. perCluster - 1 : x = first + (c - 2) * perCluster + s

LEMMA DataInterval ==
  ASSUME NEW first \in Nat, NEW perCluster, IsPowerOf2(perCluster), NEW count \in Nat, NEW D,
         Tiled(D, first, perCluster, count)
  PROVE  D = first .. first + count * perCluster - 1
<1> USE DEF Tiled
<1>1. ASSUME NEW x \in D
      PROVE  x \in first .. first + count * perCluster - 1
  <2>1. PICK c \in 2 .. count + 1, s \in 0 .. perCluster - 1 : x = first + (c - 2) * perCluster + s
    BY Zenon
  <2> QED BY ONLY <2>1, first \in Nat, count \in Nat, IsPowerOf2(perCluster), SMT DEF IsPowerOf2
<1>2. ASSUME NEW x \in first .. first + count * perCluster - 1
      PROVE  x \in D
  <2> DEFINE q == (x - first) \div perCluster
             s == (x - first) % perCluster
  <2>1. q \in Nat /\ s \in 0 .. perCluster - 1 /\ x - first = q * perCluster + s /\ q < count
    BY ONLY x \in first .. first + count * perCluster - 1, first \in Nat, count \in Nat,
            IsPowerOf2(perCluster), SMT DEF IsPowerOf2
  <2> HIDE DEF q, s
  <2>2. q + 2 \in 2 .. count + 1 /\ x = first + ((q + 2) - 2) * perCluster + s
    BY ONLY <2>1, x \in first .. first + count * perCluster - 1, first \in Nat, count \in Nat,
            IsPowerOf2(perCluster), SMT DEF IsPowerOf2
  <2>3. first + ((q + 2) - 2) * perCluster + s \in D
    BY <2>1, <2>2, Zenon
  <2> QED BY <2>2, <2>3, Zenon
<1> QED BY <1>1, <1>2, Zenon

\* A mounted volume is what do_init_state made of a boot sector that mount
\* accepted.
VolumeInv ==
  /\ disk \in Disks
  /\ vol = None \/ /\ Accepted(disk, find_partition_start(disk))
                   /\ find_partition_start(disk) # Fails
                   /\ vol = do_init_state(disk.bs, find_partition_start(disk))

LEMMA VolumeInvFits == VolumeInv => VolumeFits
<1> SUFFICES ASSUME VolumeInv, vol # None PROVE VolumeFits
  <2>1. vol = None => VolumeFits
    BY Zenon DEF VolumeFits
  <2> QED BY <2>1, Zenon
<1>1. PICK start, bs, total, reserved, fats, fatSize, perCluster :
        /\ start = find_partition_start(disk) /\ bs = disk.bs /\ total = bs.total
        /\ reserved = bs.reserved /\ fats = bs.fats /\ fatSize = bs.fatSize /\ perCluster = bs.perCluster
  BY Zenon
<1> DEFINE dataStart == reserved + fats * fatSize
           count == (total - dataStart) \div perCluster
<1>2. Accepted(disk, start) /\ start # Fails /\ vol = do_init_state(bs, start)
  BY <1>1, Zenon DEF VolumeInv
<1>3. bs \in BootSectors /\ disk.blocks \in 0 .. Span - 1 /\ disk.table \in Tables
  BY <1>1, FatVolumeAssumption, Zenon DEF VolumeInv, Disks
<1>4. /\ total \in Nat /\ total < Span /\ reserved \in Nat /\ fatSize \in Nat /\ bs.root \in Nat
      /\ Span \in Nat
  BY <1>1, <1>3, FatVolumeAssumption DEF BootSectors, U32
<1>5. start \in Nat
  <2>1. \A x \in Partitions : x[2] \in Nat
    BY FatVolumeAssumption, Zenon
  <2>2. \A k : <<k, 0>>[2] \in Nat
    BY Zenon
  <2>3. \A x \in Tables : x[2] \in Nat
    BY <2>1, <2>2, Zenon DEF Tables
  <2> QED BY <1>1, <1>2, <1>3, <2>3, Zenon DEF find_partition_start
<1>6. /\ perCluster \in {1, 2, 4, 8, 16, 32, 64, 128} /\ fats \in {1, 2} /\ reserved # 0
      /\ dataStart < total /\ start + total <= disk.blocks
      /\ count + 2 <= fatSize * PerSector /\ bs.root >= 2 /\ bs.root < count + 2
  <2>1. bs.fats \in 0 .. 3
    BY <1>3, Zenon DEF BootSectors
  <2> QED BY <1>1, <1>2, <2>1 DEF Accepted, IsPowerOf2
<1> HIDE DEF dataStart, count
<1>7. /\ dataStart \in Nat /\ count \in Nat /\ count * perCluster \in Nat
      /\ dataStart + count * perCluster <= total
  BY <1>4, <1>6, FitsArithmetic DEF dataStart, count
<1>8. start + total < Span /\ disk.blocks \in Nat
  BY <1>3, <1>4, <1>5, <1>6
<1>9. /\ vol.start = start /\ vol.perCluster = perCluster /\ vol.fats = fats /\ vol.fatSize = fatSize
      /\ vol.fatStart = reserved /\ vol.root = bs.root /\ vol.dataStart = dataStart /\ vol.count = count
  <2>1. dataStart % Span = dataStart
    BY <1>4, <1>6, <1>7
  <2>2. (total + Span - dataStart) % Span = total - dataStart
    <3>1. total - dataStart \in 0 .. Span - 1 /\ total + Span - dataStart = (total - dataStart) + Span
      BY <1>4, <1>6, <1>7
    <3>2. \A x \in 0 .. Span - 1 : (x + Span) % Span = x
      BY <1>4
    <3> QED BY <3>1, <3>2, Zenon
  <2> QED BY <1>1, <1>2, <2>1, <2>2, Zenon DEF do_init_state, dataStart, count
<1> DEFINE fat0(i) == start + reserved + i * fatSize
           first == start + dataStart
<1>10. \A i \in FatCopies : i \in {0, 1} /\ fat0(i) \in Nat /\ fat0(i) >= start + 1 /\ fat0(i) + fatSize <= first
  BY <1>4, <1>5, <1>6, <1>9 DEF dataStart, FatCopies
<1>11. ASSUME NEW i \in FatCopies, NEW c \in DataClusters
       PROVE  FatSector(c, i) \in fat0(i) .. fat0(i) + fatSize - 1
  <2>1. c \in Nat /\ c < fatSize * PerSector
    BY <1>6, <1>7, <1>9, <1>4, FatVolumeAssumption DEF DataClusters
  <2>2. PICK k \in 0 .. fatSize - 1 : k = c \div PerSector
    BY <1>4, <2>1, LinkInFat, Zenon
  <2>3. FatSector(c, i) = (fat0(i) + k) % Span
    BY <1>4, <1>5, <1>9, <1>10, <2>2 DEF FatSector
  <2>4. fat0(i) + k < Span /\ fat0(i) + k \in Nat
    BY <1>4, <1>5, <1>6, <1>7, <1>8, <1>10
  <2>5. (fat0(i) + k) % Span = fat0(i) + k
    BY <1>4, <2>4
  <2> HIDE DEF fat0
  <2> QED BY <1>4, <1>10, <2>2, <2>3, <2>5
<1>12. DataSectors = first .. first + count * perCluster - 1
  <2>1. ASSUME NEW c \in DataClusters, NEW s \in 0 .. perCluster - 1
        PROVE  cluster_to_sector(c, s) = first + (c - 2) * perCluster + s
    <3>1. first + (c - 2) * perCluster + s \in first .. first + count * perCluster - 1
      BY <1>5, <1>6, <1>7, <1>9, SMT DEF DataClusters
    <3>2. first + (c - 2) * perCluster + s \in 0 .. Span - 1
      BY <1>4, <1>5, <1>7, <1>8, <3>1
    <3> QED BY <1>4, <1>9, <3>2 DEF cluster_to_sector
  <2>2. IsPowerOf2(perCluster) /\ count \in Nat
    BY <1>6, <1>7, Zenon DEF IsPowerOf2
  <2>3. first \in Nat
    BY <1>5, <1>7
  <2> HIDE DEF first
  <2>4. DataClusters = 2 .. count + 1
    BY <1>9, Zenon DEF DataClusters
  <2>5. \A c \in 2 .. count + 1, s \in 0 .. perCluster - 1 :
          first + (c - 2) * perCluster + s \in DataSectors
    <3> TAKE c \in 2 .. count + 1, s \in 0 .. perCluster - 1
    <3>1. c \in DataClusters /\ s \in 0 .. vol.perCluster - 1
      BY <1>9, <2>4, Zenon
    <3>2. cluster_to_sector(c, s) \in DataSectors
      BY <3>1 DEF DataSectors
    <3> QED BY <2>1, <3>1, <3>2, Zenon
  <2>6. \A x \in DataSectors : \E c \in 2 .. count + 1, s \in 0 .. perCluster - 1 :
          x = first + (c - 2) * perCluster + s
    <3> TAKE x \in DataSectors
    <3>1. PICK c \in DataClusters, s \in 0 .. perCluster - 1 : x = cluster_to_sector(c, s)
      BY <1>9 DEF DataSectors
    <3>2. x = first + (c - 2) * perCluster + s
      BY <2>1, <3>1, Zenon
    <3> QED BY <2>4, <3>2, Zenon
  <2>7. Tiled(DataSectors, first, perCluster, count)
    BY ONLY <2>5, <2>6 DEF Tiled
  <2> QED BY ONLY <2>2, <2>3, <2>7, DataInterval, Zenon
<1> HIDE DEF fat0
<1>13. \A i \in FatCopies : LinkSectors(i) \subseteq fat0(i) .. fat0(i) + fatSize - 1
  BY <1>11, Zenon DEF LinkSectors
<1>14. vol.root \in DataClusters
  BY <1>4, <1>6, <1>7, <1>9 DEF DataClusters
<1>15. Cardinality(DataSectors) = vol.count * vol.perCluster
  <2>1. PICK a, b : a = first /\ b = first + count * perCluster - 1
    BY Zenon
  <2>2. a \in Int /\ b \in Int /\ (a > b => count * perCluster = 0) /\ b - a + 1 = count * perCluster
    BY <1>5, <1>7, <2>1
  <2>3. Cardinality(a .. b) = IF a > b THEN 0 ELSE b - a + 1
    BY <2>2, FS_Interval, Zenon
  <2> QED BY <1>9, <1>12, <2>1, <2>2, <2>3, Zenon
<1>16. \A i \in FatCopies : LinkSectors(i) \cap DataSectors = {}
  <2>1. ASSUME NEW i \in FatCopies, NEW x \in LinkSectors(i), x \in DataSectors PROVE FALSE
    BY <1>4, <1>5, <1>7, <1>10, <1>12, <1>13, <2>1
  <2> QED BY <2>1, Zenon
<1>17. \A i, j \in FatCopies : i # j => LinkSectors(i) \cap LinkSectors(j) = {}
  <2>1. ASSUME NEW i \in FatCopies, NEW j \in FatCopies, i # j, NEW x \in LinkSectors(i), x \in LinkSectors(j) PROVE FALSE
    <3>1. x \in fat0(i) .. fat0(i) + fatSize - 1 /\ x \in fat0(j) .. fat0(j) + fatSize - 1
      BY <1>13, <2>1, Zenon
    <3> QED BY <1>4, <1>5, <1>10, <2>1, <3>1 DEF fat0
  <2> QED BY <2>1, Zenon
<1>18. DataSectors \subseteq (start + 1) .. (start + total - 1)
  BY <1>4, <1>5, <1>6, <1>7, <1>12 DEF dataStart
<1>19. \A i \in FatCopies : LinkSectors(i) \subseteq (start + 1) .. (start + total - 1)
  BY <1>4, <1>5, <1>6, <1>7, <1>10, <1>13
<1>20. vol.start + disk.bs.total <= disk.blocks /\ vol.start = start /\ disk.bs.total = total
  BY <1>1, <1>6, <1>9, Zenon
<1> QED BY <1>14, <1>15, <1>16, <1>17, <1>18, <1>19, <1>20, Zenon DEF VolumeFits

\* Whatever a device, its partition table and its boot sector say: on a volume
\* that FatInfo::mount accepts, the sector numbers of read_entry, write_entry
\* and cluster_to_sector stay on the device and in the volume, do not wrap, and
\* those of different clusters and FAT copies never meet.
THEOREM VolumeCorrect == VolumeSpec => []VolumeFits
<1>1. VolumeInit => VolumeInv
  BY Zenon DEF VolumeInit, VolumeInv
<1>2. VolumeInv /\ [VolumeNext]_volumeVars => VolumeInv'
  <2> SUFFICES ASSUME VolumeInv, [VolumeNext]_volumeVars PROVE VolumeInv'
    BY Zenon
  <2>1. CASE Mount
    BY <2>1, Zenon DEF Mount, VolumeInv
  <2>2. CASE Unmount
    BY <2>2, Zenon DEF Unmount, VolumeInv
  <2>3. CASE UNCHANGED volumeVars
    BY <2>3, Zenon DEF volumeVars, VolumeInv
  <2> QED BY <2>1, <2>2, <2>3, Zenon DEF VolumeNext
<1> QED BY <1>1, <1>2, VolumeInvFits, PTL DEF VolumeSpec
=============================================================================
