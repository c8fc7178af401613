-------------------------- MODULE KdfGate_proofs --------------------------
(***************************************************************************)
(* Proofs about KdfGate, for any calls and any limit.                       *)
(***************************************************************************)
EXTENDS KdfGate, FiniteSetTheorems, TLAPS

\* The decoy has not asked for a slot before somebody asks for the decoy.
DecoyIsNew == decoy = "none" => at[Decoy] = "new"
GateInv == KdfTypeOK /\ GateHolds /\ DecoyIsNew

Places == {"new", "decoy", "waiting", "woken", "running", "done", "failed"}

LEMMA AskersFinite == IsFiniteSet(Askers)
BY KdfAssumption, FS_AddElement DEF Askers

LEMMA InFinite ==
  ASSUME NEW p PROVE IsFiniteSet(In(p)) /\ Cardinality(In(p)) \in Nat
<1>1. In(p) \subseteq Askers
  BY DEF In
<1> QED BY <1>1, AskersFinite, FS_Subset, FS_CardinalityType

-----------------------------------------------------------------------------
(* The queue: what is in it after somebody joins and after the first leaves. *)

LEMMA JoinedQueue ==
  ASSUME NEW S, NEW q \in Seq(S), NEW x \in S, IsInjective(q), x \notin ToSet(q)
  PROVE  /\ Append(q, x) \in Seq(S) /\ Append(q, x) # <<>>
         /\ ToSet(Append(q, x)) = ToSet(q) \cup {x} /\ IsInjective(Append(q, x))
<1>1. Len(Append(q, x)) = Len(q) + 1 /\ Append(q, x) \in Seq(S)
  OBVIOUS
<1>2. \A i \in 1..Len(q) : Append(q, x)[i] = q[i]
  OBVIOUS
<1>3. Append(q, x)[Len(q) + 1] = x
  OBVIOUS
<1>4. DOMAIN q = 1..Len(q) /\ DOMAIN Append(q, x) = 1..(Len(q) + 1) /\ Len(q) \in Nat
  BY <1>1
<1>5. 1..(Len(q) + 1) = 1..Len(q) \cup {Len(q) + 1}
  BY <1>4
<1>6. ToSet(Append(q, x)) = ToSet(q) \cup {x}
  BY <1>2, <1>3, <1>4, <1>5 DEF ToSet
<1>7. IsInjective(Append(q, x))
  BY <1>2, <1>3, <1>4, <1>5 DEF ToSet, IsInjective
<1> QED BY <1>1, <1>6, <1>7

LEMMA LeftQueue ==
  ASSUME NEW S, NEW q \in Seq(S), q # <<>>, IsInjective(q)
  PROVE  /\ Head(q) \in ToSet(q) /\ Head(q) \in S /\ Tail(q) \in Seq(S)
         /\ ToSet(Tail(q)) = ToSet(q) \ {Head(q)} /\ IsInjective(Tail(q))
<1>1. Len(q) \in Nat \ {0} /\ DOMAIN q = 1..Len(q)
  OBVIOUS
<1>2. Head(q) = q[1] /\ Tail(q) \in Seq(S) /\ Len(Tail(q)) = Len(q) - 1
  BY <1>1
<1>3. DOMAIN Tail(q) = 1..(Len(q) - 1)
  BY <1>2
<1>4. \A i \in 1..(Len(q) - 1) : Tail(q)[i] = q[i + 1] /\ i + 1 \in 1..Len(q)
  BY <1>1, <1>2
<1>5. \A i \in 1..Len(q) : i # 1 => i - 1 \in 1..(Len(q) - 1) /\ Tail(q)[i - 1] = q[i]
  BY <1>1, <1>4
<1>6. Head(q) \in ToSet(q) /\ Head(q) \in S
  BY <1>1, <1>2 DEF ToSet
<1>7. ToSet(Tail(q)) = ToSet(q) \ {Head(q)}
  <2>1. ASSUME NEW x \in ToSet(Tail(q)) PROVE x \in ToSet(q) \ {Head(q)}
    <3>1. PICK i \in 1..(Len(q) - 1) : x = Tail(q)[i]
      BY <1>3 DEF ToSet
    <3>2. x = q[i + 1] /\ i + 1 \in 1..Len(q) /\ i + 1 # 1
      BY <1>4, <3>1
    <3> QED BY <1>1, <1>2, <3>2 DEF ToSet, IsInjective
  <2>2. ASSUME NEW x \in ToSet(q) \ {Head(q)} PROVE x \in ToSet(Tail(q))
    <3>1. PICK i \in 1..Len(q) : x = q[i] /\ i # 1
      BY <1>1, <1>2 DEF ToSet
    <3> QED BY <1>3, <1>5, <3>1 DEF ToSet
  <2> QED BY <2>1, <2>2
<1>8. IsInjective(Tail(q))
  <2> SUFFICES ASSUME NEW i \in 1..(Len(q) - 1), NEW j \in 1..(Len(q) - 1), Tail(q)[i] = Tail(q)[j]
               PROVE  i = j
    BY <1>3 DEF IsInjective
  <2>1. q[i + 1] = q[j + 1] /\ i + 1 \in DOMAIN q /\ j + 1 \in DOMAIN q
    BY <1>1, <1>4
  <2> QED BY <2>1 DEF IsInjective
<1> QED BY <1>2, <1>6, <1>7, <1>8
-----------------------------------------------------------------------------
\* A job at the head of withSlot, over places that differ from today's only for jobs that
\* neither run nor wait nor were woken.
LEMMA Enters ==
  ASSUME KdfTypeOK, GateHolds, NEW j \in Askers, NEW at0 \in [Askers -> Places],
         \A k \in Askers : at0[k] # at[k] => at[k] \notin {"running", "waiting", "woken"}
                                             /\ at0[k] \notin {"running", "waiting", "woken"},
         at[j] \notin {"running", "waiting"},
         EntersWith(j, at0)
  PROVE  /\ running' \in Nat /\ waiting' \in Seq(Askers) /\ at' \in [Askers -> Places]
         /\ GateHolds'
<1> USE KdfAssumption DEF Places
<1>1. running \in Nat /\ waiting \in Seq(Askers) /\ LIMIT \in Nat /\ running <= LIMIT
      /\ at \in [Askers -> Places]
  BY DEF KdfTypeOK, GateHolds
<1>2. j \notin In("running") /\ j \notin In("waiting") /\ In("waiting") = ToSet(waiting)
  BY DEF In, GateHolds
<1>3. CASE running >= LIMIT
  <2>1. waiting' = Append(waiting, j) /\ at' = [at0 EXCEPT ![j] = "waiting"] /\ running' = running
    BY <1>3 DEF EntersWith
  <2>2. In("running")' = In("running") /\ In("waiting")' = In("waiting") \cup {j}
    BY <1>1, <1>2, <2>1 DEF In
  <2>3. waiting' \in Seq(Askers) /\ ToSet(waiting') = ToSet(waiting) \cup {j} /\ IsInjective(waiting')
    BY <1>1, <1>2, <2>1, JoinedQueue DEF GateHolds
  <2>4. Cardinality(In("woken"))' \in Nat
    <3>1. IsFiniteSet(In("woken")')
      BY <2>1, AskersFinite, FS_Subset DEF In
    <3> QED BY <3>1, FS_CardinalityType
  <2>5. running' + Cardinality(In("woken"))' >= LIMIT
    BY <1>1, <1>3, <2>1, <2>4
  <2>6. running' = Cardinality(In("running"))' /\ running' <= LIMIT
    BY <1>1, <2>1, <2>2 DEF GateHolds
  <2>7. at' \in [Askers -> Places]
    BY <2>1
  <2> QED BY <1>1, <1>2, <2>1, <2>2, <2>3, <2>5, <2>6, <2>7 DEF GateHolds
<1>4. CASE ~ (running >= LIMIT)
  <2>1. running' = running + 1 /\ at' = [at0 EXCEPT ![j] = "running"] /\ waiting' = waiting
    BY <1>4 DEF EntersWith
  <2>2. In("running")' = In("running") \cup {j} /\ In("waiting")' = In("waiting")
        /\ In("woken")' = In("woken") \ {j}
    BY <1>1, <1>2, <2>1 DEF In
  <2>3. Cardinality(In("running"))' = Cardinality(In("running")) + 1
    BY <1>2, <2>2, InFinite, FS_AddElement
  <2>4. /\ Cardinality(In("woken")) \in Nat /\ Cardinality(In("woken"))' \in Nat
        /\ Cardinality(In("woken"))' >= Cardinality(In("woken")) - 1
    <3>1. IsFiniteSet(In("woken")) /\ Cardinality(In("woken")) \in Nat
      BY InFinite
    <3>2. IsFiniteSet(In("woken") \ {j})
          /\ Cardinality(In("woken") \ {j}) =
               IF j \in In("woken") THEN Cardinality(In("woken")) - 1 ELSE Cardinality(In("woken"))
      BY <3>1, FS_RemoveElement
    <3>3. Cardinality(In("woken") \ {j}) \in Nat
      BY <3>2, FS_CardinalityType
    <3>4. Cardinality(In("woken"))' = Cardinality(In("woken") \ {j})
      BY <2>2
    <3> QED BY <3>1, <3>2, <3>3, <3>4
  <2>5. waiting' # <<>> => running' + Cardinality(In("woken"))' >= LIMIT
    BY <1>1, <2>1, <2>4 DEF GateHolds
  <2>6. running' = Cardinality(In("running"))' /\ running' <= LIMIT
    BY <1>1, <1>4, <2>1, <2>3 DEF GateHolds
  <2>7. In("waiting")' = ToSet(waiting') /\ IsInjective(waiting')
    BY <1>2, <2>1, <2>2 DEF GateHolds
  <2>8. at' \in [Askers -> Places]
    BY <2>1
  <2> QED BY <1>1, <2>1, <2>5, <2>6, <2>7, <2>8 DEF GateHolds
<1> QED BY <1>3, <1>4

\* The step of a job to a place outside the gate.
LEMMA Outside ==
  ASSUME KdfTypeOK, GateHolds, UNCHANGED <<running, waiting>>, NEW j \in Askers, NEW p,
         p \in {"decoy", "done", "failed"}, at' = [at EXCEPT ![j] = p],
         at[j] \notin {"running", "waiting", "woken"}
  PROVE  GateHolds' /\ at' \in [Askers -> Places]
<1>1. at' \in [Askers -> Places]
  BY DEF KdfTypeOK, Places
<1>2. In("running")' = In("running") /\ In("waiting")' = In("waiting") /\ In("woken")' = In("woken")
  BY DEF KdfTypeOK, In
<1> QED BY <1>1, <1>2 DEF GateHolds

LEMMA GateStep == GateInv /\ [KdfNext]_kdfVars => GateInv'
<1> SUFFICES ASSUME GateInv, [KdfNext]_kdfVars PROVE GateInv'
  OBVIOUS
<1> USE DEF GateInv
<1>0. /\ at \in [Askers -> Places] /\ waiting \in Seq(Askers) /\ running \in Nat /\ LIMIT \in Nat
      /\ MaxFaults \in Nat /\ Decoy \notin Calls /\ Decoy \in Askers
  BY KdfAssumption DEF KdfTypeOK, Places, Decoy, Askers
<1>1. CASE UNCHANGED kdfVars
  BY <1>1 DEF kdfVars, KdfTypeOK, GateHolds, In, DecoyIsNew
<1>2. ASSUME running' \in Nat, waiting' \in Seq(Askers), at' \in [Askers -> Places],
             faults' \in 0..MaxFaults, decoy' \in {"none", "pending", "made", "rejected"}
      PROVE  KdfTypeOK'
  BY <1>2 DEF KdfTypeOK, Places
<1>3. ASSUME NEW j \in Askers, at[j] \notin {"running", "waiting"}, EntersWith(j, at),
             UNCHANGED <<decoy, faults>>, decoy = "none" => j # Decoy
      PROVE  GateInv'
  <2>1. KdfTypeOK' /\ GateHolds'
    BY <1>0, <1>2, <1>3, Enters DEF KdfTypeOK
  <2>2. DecoyIsNew'
    BY <1>0, <1>3 DEF EntersWith, DecoyIsNew
  <2> QED BY <2>1, <2>2
<1>4. ASSUME NEW j \in Askers, NEW p \in {"decoy", "done", "failed"}, at' = [at EXCEPT ![j] = p],
             at[j] \notin {"running", "waiting", "woken"}, UNCHANGED <<running, waiting, decoy, faults>>,
             decoy = "none" => j # Decoy
      PROVE  GateInv'
  <2>1. GateHolds' /\ at' \in [Askers -> Places]
    BY <1>4, Outside
  <2>2. KdfTypeOK'
    BY <1>0, <1>2, <1>4, <2>1 DEF KdfTypeOK
  <2>3. DecoyIsNew'
    BY <1>0, <1>4 DEF DecoyIsNew
  <2> QED BY <2>1, <2>2, <2>3
<1>5. ASSUME NEW j \in Askers, Hashes(j) \/ Unreadable(j) PROVE GateInv'
  <2>1. j # Decoy /\ at[j] = "new"
    BY <1>0, <1>5 DEF Hashes, Unreadable
  <2> QED BY <1>3, <1>4, <1>5, <2>1 DEF Hashes, Unreadable
<1>6. ASSUME NEW j \in Askers, Spend(j) PROVE GateInv'
  <2>1. j # Decoy /\ at[j] = "new"
    BY <1>0, <1>6, KdfAssumption DEF Spend
  <2>2. CASE decoy # "none"
    BY <1>4, <1>6, <2>1, <2>2 DEF Spend
  <2>3. CASE decoy = "none"
    <3> DEFINE at0 == [at EXCEPT ![j] = "decoy"]
    <3>1. decoy' = "pending" /\ EntersWith(Decoy, at0) /\ faults' = faults
      BY <1>6, <2>3 DEF Spend
    <3>2. at0 \in [Askers -> Places] /\ \A k \in Askers : at0[k] # at[k] => k = j /\ at0[k] = "decoy"
      BY <1>0 DEF Places
    <3>3. at[Decoy] = "new"
      BY <2>3 DEF DecoyIsNew
    <3> HIDE DEF at0
    <3>4. running' \in Nat /\ waiting' \in Seq(Askers) /\ at' \in [Askers -> Places] /\ GateHolds'
      BY <1>0, <2>1, <3>1, <3>2, <3>3, Enters
    <3>5. KdfTypeOK'
      BY <1>2, <3>1, <3>4 DEF KdfTypeOK
    <3> QED BY <3>1, <3>4, <3>5 DEF DecoyIsNew
  <2> QED BY <2>2, <2>3
<1>7. ASSUME NEW j \in Askers, Against(j) PROVE GateInv'
  <2>1. at[j] = "decoy" /\ decoy # "none"
    BY <1>7 DEF Against
  <2>2. CASE decoy = "made"
    BY <1>3, <1>7, <2>1, <2>2 DEF Against
  <2>3. CASE decoy # "made"
    BY <1>4, <1>7, <2>1, <2>3 DEF Against
  <2> QED BY <2>2, <2>3
<1>8. ASSUME NEW j \in Askers, Resumes(j) PROVE GateInv'
  <2>1. at[j] = "woken" /\ (decoy = "none" => j # Decoy)
    BY <1>8 DEF Resumes, DecoyIsNew
  <2> QED BY <1>3, <1>8, <2>1 DEF Resumes
<1>9. ASSUME NEW j \in Askers, NEW ok \in BOOLEAN, Frees(j, ok) PROVE GateInv'
  <2> DEFINE out == IF ok THEN "done" ELSE "failed"
             left == [at EXCEPT ![j] = out]
  <2>1. at[j] = "running" /\ running' = running - 1 /\ out \in {"done", "failed"}
    BY <1>9 DEF Frees
  <2>2. faults' \in 0..MaxFaults /\ decoy' \in {"none", "pending", "made", "rejected"}
    BY <1>0, <1>9 DEF Frees, KdfTypeOK
  <2>3. left \in [Askers -> Places] /\ left[j] = out /\ \A k \in Askers \ {j} : left[k] = at[k]
    BY <1>0, <2>1 DEF Places
  <2>4. running = Cardinality(In("running")) /\ j \in In("running") /\ running <= LIMIT
    BY <2>1 DEF In, GateHolds
  <2>5. Cardinality(In("running") \ {j}) = running - 1 /\ running - 1 \in Nat
    <3>1. IsFiniteSet(In("running"))
      BY InFinite
    <3>2. IsFiniteSet(In("running") \ {j}) /\ Cardinality(In("running") \ {j}) = running - 1
      BY <2>4, <3>1, FS_RemoveElement
    <3> QED BY <3>2, FS_CardinalityType
  <2>6. CASE waiting = <<>>
    <3>1. at' = left /\ waiting' = waiting
      BY <1>9, <2>6 DEF Frees
    <3> HIDE DEF left, out
    <3>2. In("running")' = In("running") \ {j} /\ In("waiting")' = In("waiting")
      BY <2>1, <2>3, <3>1 DEF In
    <3>3. running' = Cardinality(In("running"))' /\ running' <= LIMIT
      <4>1. Cardinality(In("running"))' = Cardinality(In("running") \ {j})
        BY <3>2
      <4> QED BY <1>0, <2>1, <2>4, <2>5, <4>1
    <3>4. GateHolds'
      BY <2>6, <3>1, <3>2, <3>3 DEF GateHolds
    <3>5. KdfTypeOK'
      BY <1>0, <1>2, <2>1, <2>2, <2>3, <2>5, <3>1
    <3>6. DecoyIsNew'
      BY <1>0, <1>9, <2>1, <2>3, <3>1 DEF DecoyIsNew, Frees
    <3> QED BY <3>4, <3>5, <3>6
  <2>7. CASE waiting # <<>>
    <3> DEFINE h == Head(waiting)
    <3>1. at' = [left EXCEPT ![h] = "woken"] /\ waiting' = Tail(waiting)
      BY <1>9, <2>7 DEF Frees
    <3>2. /\ h \in ToSet(waiting) /\ h \in Askers /\ waiting' \in Seq(Askers)
          /\ ToSet(waiting') = ToSet(waiting) \ {h} /\ IsInjective(waiting')
      BY <1>0, <2>7, <3>1, LeftQueue DEF GateHolds
    <3>3. at[h] = "waiting" /\ h # j
      BY <2>1, <3>2 DEF GateHolds, In
    <3> HIDE DEF left, out, h
    <3>4. In("running")' = In("running") \ {j} /\ In("waiting")' = In("waiting") \ {h}
          /\ In("woken")' = In("woken") \cup {h} /\ h \notin In("woken")
      BY <2>1, <2>3, <3>1, <3>2, <3>3 DEF In
    <3>5. running' = Cardinality(In("running"))' /\ running' <= LIMIT
      <4>1. Cardinality(In("running"))' = Cardinality(In("running") \ {j})
        BY <3>4
      <4> QED BY <1>0, <2>1, <2>4, <2>5, <4>1
    <3>6. Cardinality(In("woken") \cup {h}) = Cardinality(In("woken")) + 1
          /\ Cardinality(In("woken")) \in Nat
      BY <3>4, InFinite, FS_AddElement
    <3>7. Cardinality(In("woken"))' = Cardinality(In("woken") \cup {h})
      BY <3>4
    <3>8. running' + Cardinality(In("woken"))' >= LIMIT
      BY <1>0, <2>1, <2>7, <3>6, <3>7 DEF GateHolds
    <3>9. GateHolds'
      BY <3>2, <3>4, <3>5, <3>8 DEF GateHolds
    <3>10. at' \in [Askers -> Places]
      BY <2>3, <3>1 DEF Places
    <3>11. KdfTypeOK'
      BY <1>2, <2>1, <2>2, <2>5, <3>2, <3>10
    <3>12. DecoyIsNew'
      BY <1>0, <1>9, <2>1, <2>3, <3>1, <3>3 DEF DecoyIsNew, Frees
    <3> QED BY <3>9, <3>11, <3>12
  <2> QED BY <2>6, <2>7
<1> QED
  BY <1>1, <1>5, <1>6, <1>7, <1>8, <1>9 DEF KdfNext

LEMMA GateInit == KdfInit => GateInv
<1> SUFFICES ASSUME KdfInit PROVE GateInv
  OBVIOUS
<1>1. KdfTypeOK
  BY KdfAssumption DEF KdfInit, KdfTypeOK
<1>2. In("running") = {} /\ In("waiting") = {} /\ ToSet(waiting) = {} /\ IsInjective(waiting)
  BY DEF KdfInit, In, ToSet, IsInjective
<1>3. GateHolds
  <2>1. Cardinality(In("running")) = 0 /\ running = 0 /\ waiting = <<>>
    BY <1>2, FS_EmptySet DEF KdfInit
  <2>2. running <= LIMIT
    BY <2>1, KdfAssumption
  <2> QED BY <1>2, <2>1, <2>2 DEF GateHolds
<1>4. DecoyIsNew
  BY DEF KdfInit, DecoyIsNew, Askers
<1> QED BY <1>1, <1>3, <1>4 DEF GateInv

\* The gate of the password hash, for any number of calls and any limit: the counter is the
\* number of derivations and never passes the limit, nobody waits twice, and no slot stays
\* idle while somebody waits.  (core.ts withSlot)
THEOREM GateIsKept == KdfSpec => []GateHolds
<1>1. GateInv => GateHolds
  BY DEF GateInv
<1> QED BY <1>1, GateInit, GateStep, PTL DEF KdfSpec
=============================================================================
