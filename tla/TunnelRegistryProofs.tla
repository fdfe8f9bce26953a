------------------------ MODULE TunnelRegistryProofs ------------------------
(***************************************************************************)
(* Proofs about TunnelRegistry, for any sets of sessions, subdomains, keys *)
(* and admin calls, any limits and any number of threads.                  *)
(***************************************************************************)
EXTENDS TunnelRegistry, FiniteSetTheorems, TLAPS

\* A step of the next-state relation is one of these.
LEMMA StepCases ==
    ASSUME Next
    PROVE  \/ \E s \in Sessions :
                 \/ HandshakeFails(s) \/ AllocateFails(s) \/ CheckGlobal(s) \/ CheckKey(s)
                 \/ CheckFree(s) \/ Reject(s) \/ SetupFails(s) \/ SendAck(s) \/ EndLoop(s)
                 \/ AbortLoop(s) \/ WriterFails(s)
           \/ \E s \in Sessions, d \in Subdomains, k \in Keys \cup {NoKey}, isTcp \in BOOLEAN :
                 Allocate(s, d, k, isTcp)
           \/ \E s \in Sessions : Insert(s) \/ BindListener(s) \/ CloseHandle(s)
           \/ \E s \in Sessions : RemoveListener(s) \/ Unmap(s)
           \/ \E a \in AdminCalls, d \in Subdomains : AdminFind(a, d)
           \/ \E a \in AdminCalls : AdminRemove(a)
           \/ UNCHANGED vars
  BY DEF Next, SessionStep, RegisterStep, CleanupStep, AdminStep, Terminated

-----------------------------------------------------------------------------
(***************************************************************************)
(* Types.  A session past the allocation has a subdomain and an admin call *)
(* past its search has a target: without that nothing is known of the      *)
(* entry that Insert, Unmap or AdminRemove writes.                         *)
(***************************************************************************)
Allocated(s) == pc[s] \notin {"connecting", "refused"}

Named ==
    /\ \A s \in Sessions : Allocated(s) => subdomain[s] \in Subdomains
    /\ \A a \in AdminCalls : admin[a] # "idle" => target[a] \in Subdomains

LEMMA TypeInit == Init => TypeOK /\ Named
  BY DEF Init, TypeOK, Named, Allocated, SessionPcs, Registering, CleaningUp

LEMMA TypeNext ==
    ASSUME TypeOK, Named, [Next]_vars
    PROVE  TypeOK' /\ Named'
  <1> USE DEF SessionPcs, Registering, CleaningUp, Allocated, sessionVars, adminVars
  <1>1. CASE UNCHANGED vars
    BY <1>1 DEF vars, TypeOK, Named
  <1>2. ASSUME NEW s \in Sessions, NEW to \in SessionPcs, Move(s, to),
               to # "refused" => pc[s] \notin {"connecting", "refused"}
        PROVE  TypeOK' /\ Named'
    BY <1>2 DEF Move, Goto, TypeOK, Named
  <1>3. ASSUME NEW s \in Sessions,
               \/ HandshakeFails(s) \/ AllocateFails(s) \/ CheckGlobal(s) \/ CheckKey(s)
               \/ CheckFree(s) \/ Reject(s) \/ SetupFails(s) \/ SendAck(s) \/ EndLoop(s)
               \/ AbortLoop(s) \/ WriterFails(s)
        PROVE  TypeOK' /\ Named'
    BY <1>2, <1>3 DEF HandshakeFails, AllocateFails, CheckGlobal, CheckKey, CheckFree,
         Reject, SetupFails, SendAck, EndLoop, AbortLoop, WriterFails
  <1>4. ASSUME NEW s \in Sessions, NEW d \in Subdomains, NEW k \in Keys \cup {NoKey},
               NEW isTcp \in BOOLEAN, Allocate(s, d, k, isTcp)
        PROVE  TypeOK' /\ Named'
    BY <1>4 DEF Allocate, Goto, TypeOK, Named
  <1>5. ASSUME NEW s \in Sessions, Insert(s) PROVE TypeOK' /\ Named'
    BY <1>5 DEF Insert, Goto, TypeOK, Named
  <1>6. ASSUME NEW s \in Sessions, BindListener(s) \/ CloseHandle(s) \/ RemoveListener(s)
        PROVE  TypeOK' /\ Named'
    BY <1>6 DEF BindListener, CloseHandle, RemoveListener, Goto, TypeOK, Named
  <1>7. ASSUME NEW s \in Sessions, Unmap(s) PROVE TypeOK' /\ Named'
    BY <1>7 DEF Unmap, Goto, TypeOK, Named
  <1>8. ASSUME NEW a \in AdminCalls, NEW d \in Subdomains, AdminFind(a, d)
        PROVE  TypeOK' /\ Named'
    BY <1>8 DEF AdminFind, TypeOK, Named
  <1>9. ASSUME NEW a \in AdminCalls, AdminRemove(a) PROVE TypeOK' /\ Named'
    BY <1>9, NoSessionFresh DEF AdminRemove, TypeOK, Named
  <1> QED BY <1>1, <1>3, <1>4, <1>5, <1>6, <1>7, <1>8, <1>9, StepCases

\* Every reachable state is well typed, and whoever writes an entry of the map
\* has a subdomain to write it under.
THEOREM TypeCorrect == Spec => [](TypeOK /\ Named)
  BY TypeInit, TypeNext, PTL DEF Spec

-----------------------------------------------------------------------------
(***************************************************************************)
(* MapSound.  The strengthening: a listener is only bound between the      *)
(* insert and the cleanup, so it stays away once it has been removed.      *)
(***************************************************************************)
Unlistened ==
    \A s \in Sessions :
        pc[s] \in {"unlistened", "awaiting_writer", "done"} => s \notin listeners

Reachable ==
    \A d \in Subdomains :
        tunnels[d] # NoSession => Registered(tunnels[d]) /\ subdomain[tunnels[d]] = d

Gone ==
    \A s \in Sessions, d \in Subdomains :
        pc[s] \in {"awaiting_writer", "done"} => tunnels[d] # s

MapInv == Unlistened /\ Reachable /\ Gone

LEMMA MapNext ==
    ASSUME TypeOK, Named, MapInv, [Next]_vars
    PROVE  MapInv'
  <1> USE DEF SessionPcs, Registering, CleaningUp, Allocated, Registered, sessionVars,
              adminVars
  <1>1. CASE UNCHANGED vars
    BY <1>1 DEF vars, MapInv, Unlistened, Reachable, Gone
  <1>2. ASSUME NEW s \in Sessions, NEW to \in SessionPcs, Move(s, to),
               Registered(s) => to \notin {"connecting", "refused"} \cup Registering,
               to \in {"unlistened", "awaiting_writer", "done"} => pc[s] = "awaiting_writer"
        PROVE  MapInv'
    BY <1>2 DEF Move, Goto, TypeOK, MapInv, Unlistened, Reachable, Gone
  <1>3. ASSUME NEW s \in Sessions,
               \/ HandshakeFails(s) \/ AllocateFails(s) \/ CheckGlobal(s) \/ CheckKey(s)
               \/ CheckFree(s) \/ Reject(s) \/ SetupFails(s) \/ SendAck(s) \/ EndLoop(s)
               \/ AbortLoop(s) \/ WriterFails(s)
        PROVE  MapInv'
    BY <1>2, <1>3 DEF HandshakeFails, AllocateFails, CheckGlobal, CheckKey, CheckFree,
         Reject, SetupFails, SendAck, EndLoop, AbortLoop, WriterFails
  <1>4. ASSUME NEW s \in Sessions, NEW d \in Subdomains, NEW k \in Keys \cup {NoKey},
               NEW isTcp \in BOOLEAN, Allocate(s, d, k, isTcp)
        PROVE  MapInv'
    BY <1>4 DEF Allocate, Goto, TypeOK, MapInv, Unlistened, Reachable, Gone
  <1>5. ASSUME NEW s \in Sessions, Insert(s) PROVE MapInv'
    BY <1>5 DEF Insert, Goto, TypeOK, Named, MapInv, Unlistened, Reachable, Gone
  <1>6. ASSUME NEW s \in Sessions, BindListener(s) \/ CloseHandle(s) \/ RemoveListener(s)
        PROVE  MapInv'
    BY <1>6 DEF BindListener, CloseHandle, RemoveListener, Goto, TypeOK, MapInv,
         Unlistened, Reachable, Gone
  <1>7. ASSUME NEW s \in Sessions, Unmap(s) PROVE MapInv'
    BY <1>7, NoSessionFresh
    DEF Unmap, Goto, TypeOK, Named, MapInv, Unlistened, Reachable, Gone
  <1>8. ASSUME NEW a \in AdminCalls, NEW d \in Subdomains, AdminFind(a, d)
        PROVE  MapInv'
    BY <1>8 DEF AdminFind, MapInv, Unlistened, Reachable, Gone
  <1>9. ASSUME NEW a \in AdminCalls, AdminRemove(a) PROVE MapInv'
    BY <1>9, NoSessionFresh
    DEF AdminRemove, TypeOK, Named, MapInv, Unlistened, Reachable, Gone
  <1> QED BY <1>1, <1>3, <1>4, <1>5, <1>6, <1>7, <1>8, <1>9, StepCases

\* A subdomain always leads to a session that registered it, and neither the map
\* nor a listener leads to a session that has cleaned up, however registrations,
\* cleanups and admin calls interleave.
THEOREM MapStaysSound == Spec => []MapSound
  <1>1. Init => MapInv
    BY DEF Init, MapInv, Unlistened, Reachable, Gone
  <1>2. TypeOK /\ MapInv => MapSound
    BY DEF MapInv, Unlistened, Reachable, Gone, MapSound, Mapped
  <1> QED BY <1>1, <1>2, MapNext, TypeCorrect, PTL DEF Spec

-----------------------------------------------------------------------------
(***************************************************************************)
(* LostOnlyToRival is inductive once the map is sound and admin calls are  *)
(* tied to the tunnel they were asked for: a session that has registered   *)
(* keeps its subdomain, so a rival remains a rival.                        *)
(***************************************************************************)
Rivalled(s) == \E v \in Sessions \ {s} : Registered(v) /\ subdomain[v] = subdomain[s]

LEMMA RivalsStay ==
    ASSUME TypeOK, [Next]_vars, NEW v \in Sessions, Registered(v)
    PROVE  Registered(v)' /\ subdomain'[v] = subdomain[v]
  <1> USE DEF Registered, Registering, sessionVars, adminVars, TypeOK
  <1>1. CASE UNCHANGED vars
    BY <1>1 DEF vars
  <1>2. ASSUME NEW s \in Sessions,
               \/ HandshakeFails(s) \/ AllocateFails(s) \/ CheckGlobal(s) \/ CheckKey(s)
               \/ CheckFree(s) \/ Reject(s) \/ SetupFails(s) \/ SendAck(s) \/ EndLoop(s)
               \/ AbortLoop(s) \/ WriterFails(s)
        PROVE  Registered(v)' /\ subdomain'[v] = subdomain[v]
    BY <1>2 DEF HandshakeFails, AllocateFails, CheckGlobal, CheckKey, CheckFree, Reject,
         SetupFails, SendAck, EndLoop, AbortLoop, WriterFails, Move, Goto
  <1>3. ASSUME NEW s \in Sessions, NEW d \in Subdomains, NEW k \in Keys \cup {NoKey},
               NEW isTcp \in BOOLEAN, Allocate(s, d, k, isTcp)
        PROVE  Registered(v)' /\ subdomain'[v] = subdomain[v]
    BY <1>3 DEF Allocate, Goto
  <1>4. ASSUME NEW s \in Sessions,
               \/ Insert(s) \/ BindListener(s) \/ CloseHandle(s)
               \/ RemoveListener(s) \/ Unmap(s)
        PROVE  Registered(v)' /\ subdomain'[v] = subdomain[v]
    BY <1>4 DEF Insert, BindListener, CloseHandle, RemoveListener, Unmap, Goto
  <1>5. CASE \E a \in AdminCalls : AdminRemove(a) \/ \E d \in Subdomains : AdminFind(a, d)
    BY <1>5 DEF AdminRemove, AdminFind
  <1> HIDE DEF Registered, Registering, sessionVars, adminVars, TypeOK
  <1> QED BY <1>1, <1>2, <1>3, <1>4, <1>5, StepCases

\* What an admin call was asked for is a tunnel that was registered under the key it found.
AskedOK ==
    \A a \in AdminCalls :
        IF admin[a] = "idle" THEN asked[a] = NoSession
        ELSE /\ asked[a] \in Sessions /\ Registered(asked[a])
             /\ subdomain[asked[a]] = target[a]

LEMMA AskedNext ==
    ASSUME TypeOK, Named, MapInv, AskedOK, [Next]_vars
    PROVE  AskedOK'
  <1>1. ASSUME UNCHANGED adminVars PROVE AskedOK'
    BY <1>1, RivalsStay DEF AskedOK, adminVars
  <1>2. ASSUME NEW a \in AdminCalls, NEW d \in Subdomains, AdminFind(a, d) PROVE AskedOK'
    <2>1. tunnels[d] \in Sessions /\ Registered(tunnels[d]) /\ subdomain[tunnels[d]] = d
      BY <1>2 DEF AdminFind, Mapped, TypeOK, MapInv, Reachable
    <2>2. UNCHANGED <<pc, subdomain>>
      BY <1>2 DEF AdminFind, sessionVars
    <2> QED BY <1>2, <2>1, <2>2 DEF AdminFind, TypeOK, AskedOK, Registered
  <1>3. ASSUME NEW a \in AdminCalls, AdminRemove(a) PROVE AskedOK'
    BY <1>3 DEF AdminRemove, TypeOK, AskedOK, Registered, sessionVars
  <1>4. \/ UNCHANGED adminVars
        \/ \E a \in AdminCalls, d \in Subdomains : AdminFind(a, d)
        \/ \E a \in AdminCalls : AdminRemove(a)
    BY StepCases
    DEF vars, adminVars, HandshakeFails, AllocateFails, CheckGlobal, CheckKey, CheckFree,
        Reject, SetupFails, SendAck, EndLoop, AbortLoop, WriterFails, Move, Goto, Allocate,
        Insert, BindListener, CloseHandle, RemoveListener, Unmap
  <1> QED BY <1>1, <1>2, <1>3, <1>4

\* The admin call that was given the id of s has closed it.
Disconnected(s) == s \in closed /\ \E a \in AdminCalls : asked[a] = s

LEMMA DisconnectedStays ==
    ASSUME TypeOK, AskedOK, [Next]_vars, NEW s \in Sessions, Disconnected(s)
    PROVE  Disconnected(s)'
  <1>1. closed \subseteq closed'
    BY StepCases, NoSessionFresh
    DEF vars, HandshakeFails, AllocateFails, CheckGlobal, CheckKey, CheckFree, Reject,
        SetupFails, SendAck, EndLoop, AbortLoop, WriterFails, Move, Allocate, Insert,
        BindListener, CloseHandle, RemoveListener, Unmap, AdminFind, AdminRemove, TypeOK
  <1>2. PICK a \in AdminCalls : asked[a] = s
    BY DEF Disconnected
  <1>3. admin[a] # "idle"
    BY <1>2, NoSessionFresh DEF AskedOK
  <1>4. asked'[a] = s
    BY <1>2, <1>3, StepCases
    DEF vars, adminVars, HandshakeFails, AllocateFails, CheckGlobal, CheckKey, CheckFree,
        Reject, SetupFails, SendAck, EndLoop, AbortLoop, WriterFails, Move, Goto, Allocate,
        Insert, BindListener, CloseHandle, RemoveListener, Unmap, AdminFind, AdminRemove, TypeOK
  <1> QED BY <1>1, <1>4 DEF Disconnected

LEMMA LostNext ==
    ASSUME TypeOK, Named, AskedOK, LostOnlyToRival, [Next]_vars
    PROVE  LostOnlyToRival'
  <1> SUFFICES ASSUME NEW s \in Sessions, Active(s)', tunnels'[subdomain'[s]] # s
               PROVE  Disconnected(s)' \/ Rivalled(s)'
    BY DEF LostOnlyToRival, Rivalled, Disconnected
  <1>2. ASSUME Registered(s), Rivalled(s) PROVE Rivalled(s)'
    BY <1>2, RivalsStay DEF Rivalled
  <1>3. Active(s) => Registered(s)
    BY DEF Active, Registered, Registering
  <1>4. CASE Active(s) /\ tunnels[subdomain[s]] # s
    <2>1. Disconnected(s) \/ Rivalled(s)
      BY <1>4 DEF LostOnlyToRival, Rivalled, Disconnected
    <2> QED BY <1>2, <1>3, <1>4, <2>1, DisconnectedStays
  <1>5. CASE ~ Active(s)
    <2>1. Insert(s)
      BY <1>5, StepCases
      DEF Active, vars, HandshakeFails, AllocateFails, CheckGlobal, CheckKey, CheckFree,
          Reject, SetupFails, SendAck, EndLoop, AbortLoop, WriterFails, Move, Goto,
          Allocate, Insert, BindListener, CloseHandle, RemoveListener, Unmap, AdminFind,
          AdminRemove, sessionVars, TypeOK
    <2> QED BY <2>1 DEF Insert, TypeOK, Named, Allocated
  <1>6. CASE Active(s) /\ tunnels[subdomain[s]] = s
    <2>1. Registered(s)' /\ subdomain'[s] = subdomain[s]
      BY <1>3, <1>6, RivalsStay
    <2>2. \/ \E v \in Sessions : Insert(v) \/ Unmap(v)
          \/ \E a \in AdminCalls : AdminRemove(a)
      BY <1>6, <2>1, StepCases
      DEF vars, HandshakeFails, AllocateFails, CheckGlobal, CheckKey, CheckFree, Reject,
          SetupFails, SendAck, EndLoop, AbortLoop, WriterFails, Move, Allocate,
          BindListener, CloseHandle, RemoveListener, AdminFind
    <2>3. ASSUME NEW v \in Sessions, Insert(v) \/ Unmap(v) PROVE Rivalled(s)'
      <3>1. v # s /\ Registered(v)' /\ subdomain'[v] = subdomain'[s]
        BY <1>6, <2>1, <2>3
        DEF Insert, Unmap, Goto, Active, Registered, Registering, TypeOK, Named, Allocated
      <3> QED BY <3>1 DEF Rivalled
    <2>4. ASSUME NEW a \in AdminCalls, AdminRemove(a) PROVE Disconnected(s)' \/ Rivalled(s)'
      <3>1. s \in closed' /\ target[a] = subdomain[s]
        BY <1>6, <2>1, <2>4, NoSessionFresh DEF AdminRemove, TypeOK, Named
      <3>2. CASE asked[a] = s
        BY <2>4, <3>1, <3>2 DEF AdminRemove, Disconnected
      <3>3. CASE asked[a] # s
        <4>1. asked[a] \in Sessions /\ Registered(asked[a]) /\ subdomain[asked[a]] = subdomain[s]
          BY <2>4, <3>1 DEF AdminRemove, AskedOK
        <4> QED BY <1>2, <1>3, <1>6, <3>3, <4>1 DEF Rivalled
      <3> QED BY <3>2, <3>3
    <2> QED BY <2>2, <2>3, <2>4
  <1> QED BY <1>4, <1>5, <1>6

\* A tunnel that is being served disappears from the map only because an admin call that
\* was given its id closed it, or because another session registered its subdomain:
\* nothing else in the server takes a live tunnel's name away.
THEOREM LossHasARival == Spec => []LostOnlyToRival
  <1>1. Init => MapInv /\ AskedOK /\ LostOnlyToRival
    BY DEF Init, MapInv, Unlistened, Reachable, Gone, AskedOK, LostOnlyToRival, Active
  <1> QED BY <1>1, MapNext, AskedNext, LostNext, TypeCorrect, PTL DEF Spec

-----------------------------------------------------------------------------
(***************************************************************************)
(* LimitsOvershoot.  A session that passed a check and has not inserted    *)
(* yet counts as if it had; all such sessions hold a thread.               *)
(***************************************************************************)
Admitted       == {s \in Sessions : pc[s] \in {"global_ok", "key_ok", "free"}}
AdmittedFor(k) == {s \in Sessions : pc[s] \in {"key_ok", "free"} /\ key[s] = k}

ThreadBound == Cardinality(BusySessions) <= Threads

GlobalBound ==
    MaxTunnels > 0 => Cardinality(Mapped) + Cardinality(Admitted) <= MaxTunnels + Threads - 1

KeyBound ==
    \A k \in Keys : MaxPerKey > 0 =>
        Cardinality(MappedFor(k)) + Cardinality(AdmittedFor(k)) <= MaxPerKey + Threads - 1

LimitInv == ThreadBound /\ GlobalBound /\ KeyBound

\* The sets that are counted are finite.
LEMMA Counted ==
    /\ IsFiniteSet(BusySessions) /\ Cardinality(BusySessions) \in Nat
    /\ IsFiniteSet(BusyAdmins) /\ Cardinality(BusyAdmins) \in Nat
    /\ IsFiniteSet(Mapped) /\ Cardinality(Mapped) \in Nat
    /\ IsFiniteSet(Admitted) /\ Cardinality(Admitted) \in Nat
    /\ \A k : IsFiniteSet(MappedFor(k)) /\ Cardinality(MappedFor(k)) \in Nat
    /\ \A k : IsFiniteSet(AdmittedFor(k)) /\ Cardinality(AdmittedFor(k)) \in Nat
  <1>1. /\ BusySessions \in SUBSET Sessions /\ Admitted \in SUBSET Sessions
        /\ BusyAdmins \in SUBSET AdminCalls
        /\ Mapped \in SUBSET Subdomains
        /\ \A k : MappedFor(k) \in SUBSET Subdomains /\ AdmittedFor(k) \in SUBSET Sessions
    BY DEF BusySessions, BusyAdmins, Mapped, MappedFor, Admitted, AdmittedFor
  <1>2. /\ \A S \in SUBSET Sessions : IsFiniteSet(S) /\ Cardinality(S) \in Nat
        /\ \A S \in SUBSET AdminCalls : IsFiniteSet(S) /\ Cardinality(S) \in Nat
        /\ \A S \in SUBSET Subdomains : IsFiniteSet(S) /\ Cardinality(S) \in Nat
    BY SessionsFinite, SubdomainsFinite, AdminCallsFinite, FS_Subset, FS_CardinalityType
  <1> QED BY <1>1, <1>2

\* Whoever passed a check and has not inserted is busy.
LEMMA AdmittedBusy ==
    /\ Cardinality(Admitted) <= Cardinality(BusySessions)
    /\ \A k : Cardinality(AdmittedFor(k)) <= Cardinality(BusySessions)
  <1>1. Admitted \in SUBSET BusySessions /\ \A k : AdmittedFor(k) \in SUBSET BusySessions
    BY DEF Admitted, AdmittedFor, BusySessions, Registering
  <1> QED BY <1>1, Counted, FS_Subset

\* No count grows but by Allocate, EndLoop, the two checks and the insert.
Shrinks ==
    /\ Mapped' \subseteq Mapped
    /\ Admitted' \subseteq Admitted
    /\ \A k \in Keys : MappedFor(k)' \subseteq MappedFor(k)
    /\ \A k \in Keys : AdmittedFor(k)' \subseteq AdmittedFor(k)

LEMMA BoundsShrink ==
    ASSUME GlobalBound, KeyBound, Shrinks
    PROVE  GlobalBound' /\ KeyBound'
  <1> USE LimitsNat, ThreadsPos
  <1>1. /\ Cardinality(Mapped') <= Cardinality(Mapped)
        /\ Cardinality(Admitted') <= Cardinality(Admitted)
        /\ Cardinality(Mapped') \in Nat /\ Cardinality(Admitted') \in Nat
    BY Counted, FS_Subset, FS_CardinalityType DEF Shrinks
  <1>2. ASSUME NEW k \in Keys
        PROVE  /\ Cardinality(MappedFor(k)') <= Cardinality(MappedFor(k))
               /\ Cardinality(AdmittedFor(k)') <= Cardinality(AdmittedFor(k))
               /\ Cardinality(MappedFor(k)') \in Nat /\ Cardinality(AdmittedFor(k)') \in Nat
    BY Counted, FS_Subset, FS_CardinalityType DEF Shrinks
  <1>3. GlobalBound'
    BY <1>1, Counted DEF GlobalBound
  <1>4. KeyBound'
    BY <1>2, Counted DEF KeyBound
  <1> QED BY <1>3, <1>4


\* What a mapped session presented at its connect does not change.
LEMMA ShrinkingSteps ==
    ASSUME TypeOK, Named, MapInv, [Next]_vars,
           \A s \in Sessions : ~ CheckGlobal(s) /\ ~ CheckKey(s) /\ ~ Insert(s)
    PROVE  Shrinks
  <1> USE DEF Mapped, MappedFor, Admitted, AdmittedFor, Shrinks, sessionVars, adminVars
  <1>1. CASE UNCHANGED vars
    BY <1>1 DEF vars
  <1>2. ASSUME NEW s \in Sessions,
               \/ HandshakeFails(s) \/ AllocateFails(s)
               \/ CheckFree(s) \/ Reject(s) \/ SetupFails(s) \/ SendAck(s) \/ EndLoop(s)
               \/ AbortLoop(s) \/ WriterFails(s)
        PROVE  Shrinks
    BY <1>2 DEF HandshakeFails, AllocateFails, CheckFree, Reject, SetupFails, SendAck,
         EndLoop, AbortLoop, WriterFails, Move, Goto, TypeOK
  <1>3. ASSUME NEW s \in Sessions, NEW d \in Subdomains, NEW k \in Keys \cup {NoKey},
               NEW isTcp \in BOOLEAN, Allocate(s, d, k, isTcp)
        PROVE  Shrinks
    <2>1. \A e \in Mapped : tunnels[e] # s
      BY <1>3 DEF Allocate, MapInv, Reachable, Registered
    <2> QED BY <1>3, <2>1 DEF Allocate, Goto, TypeOK
  <1>4. ASSUME NEW s \in Sessions, BindListener(s) \/ CloseHandle(s) \/ RemoveListener(s)
        PROVE  Shrinks
    BY <1>4 DEF BindListener, CloseHandle, RemoveListener, Goto, TypeOK
  <1>5. ASSUME NEW s \in Sessions, Unmap(s) PROVE Shrinks
    BY <1>5 DEF Unmap, Goto, TypeOK
  <1>6. ASSUME NEW a \in AdminCalls, NEW d \in Subdomains, AdminFind(a, d) PROVE Shrinks
    BY <1>6 DEF AdminFind
  <1>7. ASSUME NEW a \in AdminCalls, AdminRemove(a) PROVE Shrinks
    BY <1>7 DEF AdminRemove, TypeOK
  <1> HIDE DEF Mapped, MappedFor, Admitted, AdmittedFor, Shrinks, sessionVars, adminVars
  <1> QED BY <1>1, <1>2, <1>3, <1>4, <1>5, <1>6, <1>7, StepCases

\* A session takes up a thread only when there is one.
LEMMA ThreadNext ==
    ASSUME TypeOK, ThreadBound, [Next]_vars
    PROVE  ThreadBound'
  <1> USE ThreadsPos
  <1>1. ASSUME BusySessions' \subseteq BusySessions PROVE ThreadBound'
    <2>1. /\ Cardinality(BusySessions') <= Cardinality(BusySessions)
          /\ Cardinality(BusySessions') \in Nat
      BY <1>1, Counted, FS_Subset, FS_CardinalityType
    <2> QED BY <2>1, Counted DEF ThreadBound
  <1>2. ASSUME NEW s \in Sessions, ThreadFree, BusySessions' = BusySessions \cup {s}
        PROVE  ThreadBound'
    <2>1. \/ Cardinality(BusySessions') = Cardinality(BusySessions)
          \/ Cardinality(BusySessions') = Cardinality(BusySessions) + 1
      BY <1>2, Counted, FS_AddElement
    <2>2. Cardinality(BusySessions') \in Nat
      BY <1>2, Counted, FS_AddElement, FS_CardinalityType
    <2> QED BY <1>2, <2>1, <2>2, Counted DEF ThreadFree, ThreadBound
  <1> USE DEF BusySessions, Registering, CleaningUp, Goto, sessionVars, adminVars
  <1>3. CASE UNCHANGED vars
    BY <1>1, <1>3 DEF vars
  <1>4. ASSUME NEW s \in Sessions, EndLoop(s) PROVE ThreadBound'
    BY <1>2, <1>4 DEF EndLoop, Move, TypeOK
  <1>5. ASSUME NEW s \in Sessions, NEW d \in Subdomains, NEW k \in Keys \cup {NoKey},
               NEW isTcp \in BOOLEAN, Allocate(s, d, k, isTcp)
        PROVE  ThreadBound'
    BY <1>2, <1>5 DEF Allocate, TypeOK
  <1>6. ASSUME NEW s \in Sessions,
               \/ HandshakeFails(s) \/ AllocateFails(s) \/ CheckGlobal(s) \/ CheckKey(s)
               \/ CheckFree(s) \/ Reject(s) \/ SetupFails(s) \/ SendAck(s)
               \/ AbortLoop(s) \/ WriterFails(s)
        PROVE  ThreadBound'
    BY <1>1, <1>6 DEF HandshakeFails, AllocateFails, CheckGlobal, CheckKey, CheckFree,
         Reject, SetupFails, SendAck, AbortLoop, WriterFails, Move, TypeOK
  <1>7. ASSUME NEW s \in Sessions, Insert(s) \/ BindListener(s) \/ CloseHandle(s)
                                     \/ RemoveListener(s) \/ Unmap(s)
        PROVE  ThreadBound'
    BY <1>1, <1>7 DEF Insert, BindListener, CloseHandle, RemoveListener, Unmap, TypeOK
  <1>8. CASE \E a \in AdminCalls : AdminRemove(a) \/ \E d \in Subdomains : AdminFind(a, d)
    BY <1>1, <1>8 DEF AdminRemove, AdminFind
  <1> HIDE DEF BusySessions, Registering, CleaningUp, Goto, sessionVars, adminVars
  <1> QED BY <1>3, <1>4, <1>5, <1>6, <1>7, <1>8, StepCases

\* Passing the check of all tunnels.
LEMMA GlobalCheck ==
    ASSUME TypeOK, LimitInv, NEW s \in Sessions, CheckGlobal(s), ThreadBound'
    PROVE  GlobalBound' /\ KeyBound'
  <1> USE LimitsNat, ThreadsPos
  <1>1. /\ Mapped' = Mapped
        /\ \A k : MappedFor(k)' = MappedFor(k) /\ AdmittedFor(k)' = AdmittedFor(k)
        /\ MaxTunnels > 0 => Cardinality(Mapped) < MaxTunnels
        /\ Admitted' \subseteq BusySessions
    BY DEF CheckGlobal, Move, Goto, Mapped, MappedFor, Admitted, AdmittedFor, BusySessions,
         Registering, TypeOK
  <1>2. Cardinality(Admitted') <= Cardinality(BusySessions) /\ Cardinality(Admitted') \in Nat
    BY <1>1, Counted, FS_Subset, FS_CardinalityType
  <1>3. GlobalBound'
    BY <1>1, <1>2, Counted DEF GlobalBound, LimitInv, ThreadBound
  <1>4. KeyBound'
    BY <1>1 DEF KeyBound, LimitInv
  <1> QED BY <1>3, <1>4

\* Passing the check of the tunnels of one key.
LEMMA KeyCheck ==
    ASSUME TypeOK, LimitInv, NEW s \in Sessions, CheckKey(s)
    PROVE  GlobalBound' /\ KeyBound'
  <1> USE LimitsNat, ThreadsPos
  <1>1. /\ Mapped' = Mapped /\ Admitted' = Admitted
        /\ \A k : MappedFor(k)' = MappedFor(k)
        /\ \A k : k # key[s] => AdmittedFor(k)' = AdmittedFor(k)
        /\ AdmittedFor(key[s])' \subseteq BusySessions
    BY DEF CheckKey, Move, Goto, Mapped, MappedFor, Admitted, AdmittedFor, BusySessions,
         Registering, TypeOK
  <1>2. GlobalBound'
    BY <1>1 DEF GlobalBound, LimitInv
  <1>3. ASSUME NEW k \in Keys, MaxPerKey > 0
        PROVE  Cardinality(MappedFor(k)') + Cardinality(AdmittedFor(k)')
                  <= MaxPerKey + Threads - 1
    <2>1. CASE k # key[s]
      BY <1>1, <1>3, <2>1 DEF LimitInv, KeyBound
    <2>2. CASE k = key[s]
      <3>1. Cardinality(MappedFor(k)) < MaxPerKey
        BY <1>3, <2>2, NoKeyFresh, Counted DEF CheckKey, KeyFull
      <3>2. AdmittedFor(k)' \subseteq BusySessions
        BY <1>1, <2>2 DEF AdmittedFor, CheckKey, Move
      <3>3. /\ Cardinality(AdmittedFor(k)') <= Cardinality(BusySessions)
            /\ Cardinality(AdmittedFor(k)') \in Nat
        BY <3>2, Counted, FS_Subset, FS_CardinalityType
      <3> QED BY <1>1, <3>1, <3>3, Counted DEF LimitInv, ThreadBound
    <2> QED BY <2>1, <2>2
  <1> QED BY <1>2, <1>3 DEF KeyBound

\* The insert turns an admitted session into a mapped one.
LEMMA InsertBound ==
    ASSUME TypeOK, Named, LimitInv, NEW s \in Sessions, Insert(s)
    PROVE  GlobalBound' /\ KeyBound'
  <1> USE LimitsNat, ThreadsPos
  <1> DEFINE d == subdomain[s]
  <1>0. d \in Subdomains /\ tunnels' = [tunnels EXCEPT ![d] = s] /\ UNCHANGED key
        /\ pc[s] = "free" /\ pc' = [pc EXCEPT ![s] = "registered"]
    BY DEF Insert, Goto, Named, Allocated
  <1> HIDE DEF d
  <1>1. /\ Mapped' \subseteq Mapped \cup {d}
        /\ s \in Admitted /\ Admitted' = Admitted \ {s}
        /\ s \in AdmittedFor(key[s])
    BY <1>0 DEF Mapped, Admitted, AdmittedFor, TypeOK
  <1>2. \A k : k # key[s] => /\ MappedFor(k)' \subseteq MappedFor(k)
                             /\ AdmittedFor(k)' \subseteq AdmittedFor(k)
    BY <1>0 DEF Mapped, MappedFor, AdmittedFor, TypeOK
  <1>3. /\ MappedFor(key[s])' \subseteq MappedFor(key[s]) \cup {d}
        /\ AdmittedFor(key[s])' \subseteq AdmittedFor(key[s]) \ {s}
    BY <1>0 DEF Mapped, MappedFor, AdmittedFor, TypeOK
  <1>4. ASSUME NEW A, NEW B, NEW A2, NEW B2, IsFiniteSet(A), IsFiniteSet(B), s \in B,
               A2 \subseteq A \cup {d}, B2 \subseteq B \ {s}
        PROVE  Cardinality(A2) + Cardinality(B2) <= Cardinality(A) + Cardinality(B)
    <2>1. /\ IsFiniteSet(A \cup {d})
          /\ \/ Cardinality(A \cup {d}) = Cardinality(A)
             \/ Cardinality(A \cup {d}) = Cardinality(A) + 1
          /\ Cardinality(A) \in Nat /\ Cardinality(A \cup {d}) \in Nat
      BY <1>4, FS_AddElement, FS_CardinalityType
    <2>2. /\ IsFiniteSet(B \ {s}) /\ Cardinality(B \ {s}) = Cardinality(B) - 1
          /\ Cardinality(B) \in Nat /\ Cardinality(B \ {s}) \in Nat
      BY <1>4, FS_RemoveElement, FS_CardinalityType
    <2>3. /\ Cardinality(A2) <= Cardinality(A \cup {d}) /\ Cardinality(A2) \in Nat
          /\ Cardinality(B2) <= Cardinality(B \ {s}) /\ Cardinality(B2) \in Nat
      BY <1>4, <2>1, <2>2, FS_Subset, FS_CardinalityType
    <2> QED BY <2>1, <2>2, <2>3
  <1>5. Cardinality(Mapped') + Cardinality(Admitted') <= Cardinality(Mapped) + Cardinality(Admitted)
    BY <1>1, <1>4, Counted
  <1>6. IsFiniteSet(Mapped') /\ IsFiniteSet(Admitted')
    BY <1>1, Counted, FS_AddElement, FS_RemoveElement, FS_Subset
  <1>7. GlobalBound'
    BY <1>5, <1>6, Counted, FS_CardinalityType DEF GlobalBound, LimitInv
  <1>8. ASSUME NEW k \in Keys
        PROVE  /\ Cardinality(MappedFor(k)') + Cardinality(AdmittedFor(k)')
                     <= Cardinality(MappedFor(k)) + Cardinality(AdmittedFor(k))
               /\ Cardinality(MappedFor(k)') \in Nat /\ Cardinality(AdmittedFor(k)') \in Nat
    <2>1. CASE k # key[s]
      BY <1>2, <2>1, Counted, FS_Subset, FS_CardinalityType
    <2>2. CASE k = key[s]
      <3>1. /\ MappedFor(k)' \subseteq MappedFor(k) \cup {d}
            /\ AdmittedFor(k)' \subseteq AdmittedFor(k) \ {s} /\ s \in AdmittedFor(k)
        BY <1>0, <1>1, <1>3, <2>2 DEF MappedFor, AdmittedFor
      <3>2. IsFiniteSet(MappedFor(k)') /\ IsFiniteSet(AdmittedFor(k)')
        BY <3>1, Counted, FS_AddElement, FS_RemoveElement, FS_Subset
      <3> QED BY <1>4, <3>1, <3>2, Counted, FS_CardinalityType
    <2> QED BY <2>1, <2>2
  <1>9. KeyBound'
    BY <1>8, Counted DEF KeyBound, LimitInv
  <1> QED BY <1>7, <1>9

\* Both tunnel limits are exceeded by fewer tunnels than the runtime has threads,
\* however many sessions register at once and whatever the limits.
THEOREM LimitsBounded == Spec => []LimitsOvershoot
  <1> USE LimitsNat, ThreadsPos
  <1>1. Init => LimitInv
    <2> SUFFICES ASSUME Init PROVE LimitInv
      OBVIOUS
    <2>1. /\ BusySessions = {} /\ Mapped = {} /\ Admitted = {}
          /\ \A k : MappedFor(k) = {} /\ AdmittedFor(k) = {}
      BY DEF Init, BusySessions, Mapped, MappedFor, Admitted, AdmittedFor, Registering,
           CleaningUp
    <2> QED BY <2>1, FS_EmptySet DEF LimitInv, ThreadBound, GlobalBound, KeyBound
  <1>2. TypeOK /\ Named /\ MapInv /\ LimitInv /\ [Next]_vars => LimitInv'
    <2> SUFFICES ASSUME TypeOK, Named, MapInv, LimitInv, [Next]_vars PROVE LimitInv'
      OBVIOUS
    <2>1. ThreadBound'
      BY ThreadNext DEF LimitInv
    <2>2. CASE \E s \in Sessions : CheckGlobal(s) \/ CheckKey(s) \/ Insert(s)
      BY <2>1, <2>2, GlobalCheck, KeyCheck, InsertBound DEF LimitInv
    <2>3. CASE ~ \E s \in Sessions : CheckGlobal(s) \/ CheckKey(s) \/ Insert(s)
      BY <2>1, <2>3, ShrinkingSteps, BoundsShrink DEF LimitInv
    <2> QED BY <2>2, <2>3
  <1>3. LimitInv => LimitsOvershoot
    BY Counted DEF LimitInv, GlobalBound, KeyBound, LimitsOvershoot
  <1>4. Init => MapInv
    BY DEF Init, MapInv, Unlistened, Reachable, Gone
  <1> QED BY <1>1, <1>2, <1>3, <1>4, MapNext, TypeCorrect, PTL DEF Spec

=============================================================================
