--------------------------- MODULE PolicyAPIProofs --------------------------
(***************************************************************************)
(* Admission cannot be passed by: for any policies, authors, targets and   *)
(* races, every stored policy has been validated, an index has one policy  *)
(* unless a list was out of date, and a policy indexes what its conditions *)
(* say.                                                                    *)
(***************************************************************************)
EXTENDS PolicyAPI, SequenceTheorems, TLAPS

-----------------------------------------------------------------------------
(* The name of an index. *)

Characters == UNION {Range(t.group) \cup Range(t.version) \cup Range(t.kind) : t \in Targets}

Dashed(ch) == IF ch = "." THEN "-" ELSE ch

\* A dash does not separate.
LEMMA DashSeparatesNot == Separator # "-"
  BY Zenon DEF Separator

\* Sequence r is s1, of length m, with s2, of length k, after it.
Joins(r, S, s1, s2, m, k) ==
  /\ r \in Seq(S) /\ r = s1 \o s2 /\ Len(r) = m + k
  /\ \A n \in 1 .. m : r[n] = s1[n]
  /\ \A n \in 1 .. k : r[m + n] = s2[n]

\* Two sequences joined.
LEMMA Joined ==
  ASSUME NEW S, NEW s1 \in Seq(S), NEW s2 \in Seq(S)
  PROVE  \E r : Joins(r, S, s1, s2, Len(s1), Len(s2))
<1>1. PICK r : r = s1 \o s2
  BY Zenon
<1>2. Len(s1) \in Nat /\ Len(s2) \in Nat
  OBVIOUS
<1>3. /\ r \in Seq(S) /\ Len(r) = Len(s1) + Len(s2)
      /\ \A i \in 1 .. Len(s1) + Len(s2) : r[i] = IF i <= Len(s1) THEN s1[i] ELSE s2[i - Len(s1)]
  BY <1>1, ConcatProperties
<1>4. \A n \in 1 .. Len(s1) : r[n] = s1[n]
  BY <1>2, <1>3
<1>5. ASSUME NEW n \in 1 .. Len(s2) PROVE r[Len(s1) + n] = s2[n]
  <2>1. Len(s1) + n \in 1 .. Len(s1) + Len(s2) /\ ~(Len(s1) + n <= Len(s1)) /\ Len(s1) + n - Len(s1) = n
    BY <1>2
  <2> QED
    BY <1>3, <2>1
<1> QED
  BY <1>1, <1>3, <1>4, <1>5, Zenon DEF Joins

\* Sequence x is the index name of target t, whose names have these lengths.
Spells(x, t, a, b, c) ==
  /\ a \in Nat /\ b \in Nat /\ c \in Nat
  /\ DOMAIN x = 1 .. a + b + c + 2
  /\ \A n \in 1 .. a : x[n] # Separator
  /\ x[a + 1] = Separator
  /\ \A n \in 1 .. b : x[a + 1 + n] = t.version[n] /\ x[a + 1 + n] # Separator
  /\ x[a + b + 2] = Separator
  /\ \A n \in 1 .. c : x[a + b + 2 + n] = t.kind[n] /\ x[a + b + 2 + n] # Separator

\* The characters of an index name, place by place.
LEMMA IndexSpells ==
  ASSUME NEW t \in Targets
  PROVE  Spells(GetSearchIndex(t), t, Len(t.group), Len(t.version), Len(t.kind))
<1>1. PICK a, b, c : a = Len(t.group) /\ b = Len(t.version) /\ c = Len(t.kind)
  BY Zenon
<1>2. PICK S : S = Characters \cup {Separator}
  BY Zenon
<1>3. /\ t.group \in Seq(Characters \ {Separator})
      /\ t.version \in Seq(Characters \ {Separator, "."}) /\ t.kind \in Seq(Characters \ {Separator, "."})
  BY TargetsAreNames, Zenon DEF Characters
<1>4. /\ a \in Nat /\ b \in Nat /\ c \in Nat
      /\ \A n \in 1 .. a : t.group[n] # Separator
      /\ \A n \in 1 .. b : t.version[n] # Separator /\ t.version[n] # "."
      /\ \A n \in 1 .. c : t.kind[n] # Separator /\ t.kind[n] # "."
  BY <1>1, <1>3, ElementOfSeq
<1>5. t.group \in Seq(S) /\ t.version \in Seq(S) /\ t.kind \in Seq(S)
  BY <1>2, <1>3
<1>6. PICK sep : sep = <<Separator>>
  BY Zenon
<1>61. sep \in Seq(S) /\ Len(sep) = 1 /\ sep[1] = Separator
  BY <1>2, <1>6
<1>7. PICK r1 : Joins(r1, S, t.group, sep, a, 1)
  BY <1>1, <1>5, <1>61, Joined, Zenon
<1>71. r1 \in Seq(S) /\ Len(r1) = a + 1
  BY <1>7 DEF Joins
<1>8. PICK r2 : Joins(r2, S, r1, t.version, a + 1, b)
  BY <1>1, <1>5, <1>71, Joined, ZenonT(40)
<1>81. r2 \in Seq(S) /\ Len(r2) = a + 1 + b
  BY <1>8 DEF Joins
<1>9. PICK r3 : Joins(r3, S, r2, sep, a + 1 + b, 1)
  BY <1>61, <1>81, Joined, Zenon
<1>91. r3 \in Seq(S) /\ Len(r3) = a + 1 + b + 1
  BY <1>9 DEF Joins
<1>10. PICK r : Joins(r, S, r3, t.kind, a + 1 + b + 1, c)
  BY <1>1, <1>5, <1>91, Joined, Zenon
<1>11. \A n \in 1 .. a : r[n] = t.group[n]
  <2> TAKE n \in 1 .. a
  <2>1. n \in 1 .. a + 1 /\ n \in 1 .. a + 1 + b /\ n \in 1 .. a + 1 + b + 1
    BY <1>4
  <2> QED
    <3>1. r3[n] = r2[n] /\ r[n] = r3[n]
      BY <2>1, <1>9, <1>10, Zenon DEF Joins
    <3>2. r2[n] = r1[n]
      BY <2>1, <1>8 DEF Joins
    <3>3. r1[n] = t.group[n]
      BY <1>7, Zenon DEF Joins
    <3> QED
      BY <3>1, <3>2, <3>3, ZenonT(40)
<1>12. r[a + 1] = Separator
  <2>1. 1 \in 1 .. 1 /\ a + 1 \in 1 .. a + 1 /\ a + 1 \in 1 .. a + 1 + b /\ a + 1 \in 1 .. a + 1 + b + 1
    BY <1>4
  <2> QED
    <3>1. r3[a + 1] = r2[a + 1] /\ r[a + 1] = r3[a + 1]
      BY <2>1, <1>9, <1>10, Zenon DEF Joins
    <3>2. r2[a + 1] = r1[a + 1]
      BY <2>1, <1>8, ZenonT(40) DEF Joins
    <3>3. r1[a + 1] = sep[1]
      BY <2>1, <1>7 DEF Joins
    <3> QED
      BY <1>61, <3>1, <3>2, <3>3, ZenonT(40)
<1>13. \A n \in 1 .. b : r[a + 1 + n] = t.version[n]
  <2> TAKE n \in 1 .. b
  <2>1. a + 1 + n \in 1 .. a + 1 + b /\ a + 1 + n \in 1 .. a + 1 + b + 1
    BY <1>4
  <2> QED
    BY <2>1, <1>8, <1>9, <1>10, Zenon DEF Joins
<1>14. r[a + b + 2] = Separator
  <2>1. a + 1 + b + 1 \in 1 .. a + 1 + b + 1 /\ 1 \in 1 .. 1 /\ a + 1 + b + 1 = a + b + 2
    BY <1>4
  <2> QED
    BY <2>1, <1>61, <1>9, <1>10, Zenon DEF Joins
<1>15. \A n \in 1 .. c : r[a + b + 2 + n] = t.kind[n]
  <2> TAKE n \in 1 .. c
  <2>1. a + 1 + b + 1 + n = a + b + 2 + n
    BY <1>4
  <2> QED
    BY <2>1, <1>10, ZenonT(40) DEF Joins
<1>16. PICK x : x = GetSearchIndex(t)
  BY ZenonT(40)
<1>17. x = [n \in DOMAIN r |-> Dashed(r[n])]
  BY <1>6, <1>7, <1>8, <1>9, <1>10, <1>16, ZenonT(40) DEF GetSearchIndex, Dashed, Joins
<1>18. DOMAIN r = 1 .. a + b + c + 2
  BY <1>4, <1>10 DEF Joins
<1>19. \A n \in 1 .. a + b + c + 2 : x[n] = Dashed(r[n])
  BY <1>17, <1>18
<1>20. \A n \in 1 .. a : x[n] # Separator
  <2> TAKE n \in 1 .. a
  <2>1. n \in 1 .. a + b + c + 2
    BY <1>4
  <2> QED
    BY <2>1, <1>4, <1>11, <1>19, DashSeparatesNot, ZenonT(40) DEF Dashed
<1>21. x[a + 1] = Separator /\ x[a + b + 2] = Separator
  <2>1. a + 1 \in 1 .. a + b + c + 2 /\ a + b + 2 \in 1 .. a + b + c + 2
    BY <1>4
  <2>2. Dashed(Separator) = Separator
    BY Zenon DEF Dashed, Separator
  <2> QED
    BY <2>1, <2>2, <1>12, <1>14, <1>19, ZenonT(40)
<1>22. \A n \in 1 .. b : x[a + 1 + n] = t.version[n] /\ x[a + 1 + n] # Separator
  <2> TAKE n \in 1 .. b
  <2>1. a + 1 + n \in 1 .. a + b + c + 2
    BY <1>4
  <2> QED
    BY <2>1, <1>4, <1>13, <1>19, ZenonT(40) DEF Dashed
<1>23. \A n \in 1 .. c : x[a + b + 2 + n] = t.kind[n] /\ x[a + b + 2 + n] # Separator
  <2> TAKE n \in 1 .. c
  <2>1. a + b + 2 + n \in 1 .. a + b + c + 2
    BY <1>4
  <2> QED
    BY <2>1, <1>4, <1>15, <1>19, ZenonT(40) DEF Dashed
<1>24. Spells(x, t, a, b, c)
  BY <1>4, <1>17, <1>18, <1>20, <1>21, <1>22, <1>23, Zenon DEF Spells
<1> QED
  BY <1>1, <1>16, <1>24

\* Two targets with one index differ in the dots and dashes of their groups, or not at all.
LEMMA IndexNamesTarget ==
  ASSUME NEW t \in Targets, NEW u \in Targets, GetSearchIndex(t) = GetSearchIndex(u)
  PROVE  t.version = u.version /\ t.kind = u.kind
<1>1. PICK a, b, c : a = Len(t.group) /\ b = Len(t.version) /\ c = Len(t.kind)
  BY Zenon
<1>2. PICK d, e, f : d = Len(u.group) /\ e = Len(u.version) /\ f = Len(u.kind)
  BY Zenon
<1>3. PICK x : x = GetSearchIndex(t)
  OBVIOUS
<1>4. Spells(x, t, a, b, c) /\ Spells(x, u, d, e, f)
  BY <1>1, <1>2, <1>3, IndexSpells, ZenonT(40)
<1>5. /\ a \in Nat /\ b \in Nat /\ c \in Nat /\ d \in Nat /\ e \in Nat /\ f \in Nat
      /\ 1 .. a + b + c + 2 = 1 .. d + e + f + 2
  BY <1>4 DEF Spells
<1>6. a = d
  <2>1. ~(a < d)
    BY <1>4, <1>5 DEF Spells
  <2>2. ~(d < a)
    BY <1>4, <1>5 DEF Spells
  <2> QED
    BY <1>5, <2>1, <2>2
<1>7. b = e
  <2>1. /\ x[a + b + 2] = Separator /\ \A n \in 1 .. b : x[a + 1 + n] # Separator
        /\ x[d + e + 2] = Separator /\ \A n \in 1 .. e : x[d + 1 + n] # Separator
    BY <1>4, Zenon DEF Spells
  <2>2. ~(b < e)
    <3> SUFFICES ASSUME b < e PROVE FALSE
      OBVIOUS
    <3>1. b + 1 \in 1 .. e /\ d + 1 + (b + 1) = a + b + 2
      BY <1>5, <1>6
    <3>2. x[d + 1 + (b + 1)] # Separator
      BY <2>1, <3>1, Zenon
    <3> QED
      BY <2>1, <3>1, <3>2, Zenon
  <2>3. ~(e < b)
    <3> SUFFICES ASSUME e < b PROVE FALSE
      OBVIOUS
    <3>1. e + 1 \in 1 .. b /\ a + 1 + (e + 1) = d + e + 2
      BY <1>5, <1>6
    <3>2. x[a + 1 + (e + 1)] # Separator
      BY <2>1, <3>1, Zenon
    <3> QED
      BY <2>1, <3>1, <3>2, Zenon
  <2> QED
    BY <1>5, <2>2, <2>3
<1>8. c = f
  <2>1. a + b + c + 2 = a + b + f + 2
    BY <1>5, <1>6, <1>7
  <2> QED
    BY <1>5, <2>1
<1>9. /\ t.version \in Seq(Characters \ {Separator, "."}) /\ u.version \in Seq(Characters \ {Separator, "."})
      /\ t.kind \in Seq(Characters \ {Separator, "."}) /\ u.kind \in Seq(Characters \ {Separator, "."})
  BY TargetsAreNames, Zenon DEF Characters
<1>10. \A n \in 1 .. b : t.version[n] = u.version[n]
  BY <1>4, <1>6, <1>7, ZenonT(40) DEF Spells
<1>11. \A n \in 1 .. c : t.kind[n] = u.kind[n]
  BY <1>4, <1>6, <1>7, <1>8, ZenonT(40) DEF Spells
<1>12. t.version = u.version
  BY <1>1, <1>2, <1>7, <1>9, <1>10, SeqEqual, Zenon
<1>13. t.kind = u.kind
  BY <1>1, <1>2, <1>8, <1>9, <1>11, SeqEqual, Zenon
<1> QED
  BY <1>12, <1>13

-----------------------------------------------------------------------------
(* The inductive invariant. *)

\* What a policy can be: what its author writes, for one of the targets.
Objects(p) == [spec : {SpecFor(p, t) : t \in Targets}, fin : BOOLEAN, del : BOOLEAN, ready : BOOLEAN]

\* What a spec is checked for whatever the other policies are.
Validated(spec) == ValidateResourceIndexPolicy(spec, {})

\* No two stored policies have one target.
TargetsDiffer ==
  \A p, q \in Policy : p # q /\ store[p] # Absent /\ store[q] # Absent
                       => store[p].spec.target # store[q].spec.target

\* A write that is not committed is what an author or the controller makes of a policy, and has
\* been validated on the list it was given.
IsWrite(w) ==
  /\ w = [p |-> w.p, by |-> w.by, obj |-> w.obj, listed |-> w.listed, stale |-> w.stale]
  /\ w.p \in Policy /\ w.obj \in Objects(w.p)
  /\ ValidateResourceIndexPolicy(w.obj.spec, w.listed)

\* Inductive: what is stored was a validated write, and as long as no write was committed on an
\* old list, no target is stored twice.
AdmissionInv ==
  /\ draft \in Authors /\ store = [p \in Policy |-> store[p]]
  /\ \A p \in Policy : store[p] # Absent => store[p] \in Objects(p) /\ Validated(store[p].spec)
  /\ \A w \in writes : IsWrite(w)
  /\ raced \/ TargetsDiffer

\* Every stored policy has been validated, alone: its conditions are empty or compile to booleans and
\* pass the check of their tree, its paths parse, and nothing in it is repeated.  The validator runs
\* on writes, and neither a delete, a status update nor a lost race gets round it.
StoredValidated == \A p \in Stored : Validated(store[p].spec)

\* A spec that passes on some list passes alone.
LEMMA PassesAlone ==
  ASSUME NEW spec, NEW listed, ValidateResourceIndexPolicy(spec, listed)
  PROVE  Validated(spec)
  BY DEF ValidateResourceIndexPolicy, Validated, UniqueTarget

\* There is nothing stored or written at first.
LEMMA InitAdmission == Init => AdmissionInv
  BY DEF Init, AdmissionInv, TargetsDiffer

\* An object with its finalizer, its deletion or its status changed is an object of the policy.
LEMMA ObjectsKept ==
  ASSUME NEW p, NEW o \in Objects(p)
  PROVE  /\ [o EXCEPT !.fin = TRUE] \in Objects(p) /\ [o EXCEPT !.fin = FALSE] \in Objects(p)
         /\ [o EXCEPT !.del = TRUE] \in Objects(p) /\ [o EXCEPT !.ready = TRUE] \in Objects(p)
         /\ [o EXCEPT !.del = TRUE].spec = o.spec
         /\ \A t \in Targets : [o EXCEPT !.spec = SpecFor(p, t)] \in Objects(p)
  BY Zenon DEF Objects

\* A write of a policy's object joins the others only after its validation.
LEMMA AdmitStep ==
  ASSUME AdmissionInv, NEW p \in Policy, NEW by, NEW obj \in Objects(p), Admit(p, by, obj)
  PROVE  AdmissionInv'
<1>1. PICK listed : /\ ValidateResourceIndexPolicy(obj.spec, listed)
                    /\ writes' = writes \cup {[p |-> p, by |-> by, obj |-> obj, listed |-> listed,
                                               stale |-> FALSE]}
                    /\ UNCHANGED <<store, draft, raced>>
  BY DEF Admit
<1>2. IsWrite([p |-> p, by |-> by, obj |-> obj, listed |-> listed, stale |-> FALSE])
  BY <1>1 DEF IsWrite
<1>3. \A w \in writes' : IsWrite(w)
  BY <1>1, <1>2, Zenon DEF AdmissionInv
<1>4. (\A w \in writes : IsWrite(w))'
  BY <1>1, <1>3 DEF IsWrite, Objects, SpecFor
<1>5. TargetsDiffer => TargetsDiffer'
  BY <1>1 DEF TargetsDiffer
<1>6. \A q : Objects(q)' = Objects(q)
  BY <1>1 DEF Objects, SpecFor
<1> QED
  BY <1>1, <1>4, <1>5, <1>6, ZenonT(40) DEF AdmissionInv

\* Writes that turn stale are the same writes.
LEMMA SupersedingKeeps ==
  ASSUME AdmissionInv, NEW p, NEW w \in Superseding(p)
  PROVE  IsWrite(w)
<1>1. PICK v \in writes : w = IF v.p = p THEN [v EXCEPT !.stale = TRUE] ELSE v
  BY DEF Superseding
<1>2. IsWrite(v)
  BY DEF AdmissionInv
<1>3. CASE w = v
  BY <1>2, <1>3
<1>4. CASE w = [v EXCEPT !.stale = TRUE]
  <2>1. w = [p |-> v.p, by |-> v.by, obj |-> v.obj, listed |-> v.listed, stale |-> TRUE]
    BY <1>2, <1>4, Zenon DEF IsWrite
  <2>2. w.p = v.p /\ w.by = v.by /\ w.obj = v.obj /\ w.listed = v.listed /\ w.stale = TRUE
    BY <2>1
  <2> QED
    BY <1>2, <2>1, <2>2 DEF IsWrite
<1> QED
  BY <1>1, <1>3, <1>4, Zenon

\* A committed write was validated; on a list that is true it repeats no stored target.
LEMMA CommitStep ==
  ASSUME AdmissionInv, NEW w \in writes, Commit(w)
  PROVE  AdmissionInv'
<1>1. IsWrite(w) /\ draft' = draft
  BY DEF AdmissionInv, Commit
<1>2. \A q : Objects(q)' = Objects(q)
  BY <1>1 DEF Objects, SpecFor
<1>3. CASE w.stale
  <2>1. writes' = writes \ {w} /\ store' = store /\ raced' = raced
    BY <1>3 DEF Commit
  <2>2. (\A v \in writes : IsWrite(v))'
    BY <2>1, <1>1 DEF AdmissionInv, IsWrite, Objects, SpecFor
  <2> QED
    BY <1>1, <1>2, <2>1, <2>2, ZenonT(40) DEF AdmissionInv, TargetsDiffer
<1>4. CASE ~w.stale
  <2> DEFINE o == IF w.obj.del /\ ~w.obj.fin THEN Absent ELSE w.obj
  <2>1. /\ store' = [store EXCEPT ![w.p] = o]
        /\ writes' = Superseding(w.p) \ {[w EXCEPT !.stale = TRUE]}
        /\ raced' = (raced \/ w.listed # Others(w.p))
    BY <1>4 DEF Commit
  <2>2. o = Absent \/ o = w.obj
    OBVIOUS
  <2> HIDE DEF o
  <2>3. \A v \in writes' : IsWrite(v)
    BY <2>1, SupersedingKeeps, ZenonT(40)
  <2>4. (\A v \in writes : IsWrite(v))'
    BY <1>1, <2>3 DEF IsWrite, Objects, SpecFor
  <2>5. \A q \in Policy : store'[q] = IF q = w.p THEN o ELSE store[q]
    BY <2>1 DEF AdmissionInv
  <2>6. store' = [q \in Policy |-> store'[q]]
    BY <2>1 DEF AdmissionInv
  <2>7. Validated(w.obj.spec) /\ w.obj \in Objects(w.p) /\ w.p \in Policy
    BY <1>1, PassesAlone DEF IsWrite
  <2>8. \A q \in Policy : store'[q] # Absent => store'[q] \in Objects(q) /\ Validated(store'[q].spec)
    BY <2>2, <2>5, <2>7, ZenonT(40) DEF AdmissionInv
  <2>9. ASSUME ~raced, w.listed = Others(w.p) PROVE TargetsDiffer'
    <3>1. TargetsDiffer
      BY <2>9 DEF AdmissionInv
    <3>2. UniqueTarget(w.obj.spec, Others(w.p))
      BY <1>1, <2>9, ZenonT(40) DEF IsWrite, ValidateResourceIndexPolicy
    <3>3. ASSUME NEW q \in Policy, q # w.p, store[q] # Absent
          PROVE  store[q].spec.target # w.obj.spec.target
      <4>1. PICK e : e = <<q, store[q].spec.target>>
        BY Zenon
      <4>2. e \in Others(w.p)
        BY <3>3, <4>1 DEF Others
      <4>3. e[2] # w.obj.spec.target
        BY <3>2, <4>2 DEF UniqueTarget
      <4> QED
        BY <4>1, <4>3
    <3> QED
      BY <2>2, <2>5, <3>1, <3>3 DEF TargetsDiffer
  <2>10. raced' \/ TargetsDiffer'
    BY <2>1, <2>9, Zenon
  <2> QED
    BY <1>1, <1>2, <2>4, <2>6, <2>8, <2>10, Zenon DEF AdmissionInv, Validated
<1> QED
  BY <1>3, <1>4

\* A delete marks the policy or removes it, and changes no spec.
LEMMA DeleteStep ==
  ASSUME AdmissionInv, NEW p \in Policy, Delete(p)
  PROVE  AdmissionInv'
<1> DEFINE o == IF store[p].fin THEN [store[p] EXCEPT !.del = TRUE] ELSE Absent
<1>1. /\ store' = [store EXCEPT ![p] = o] /\ writes' = Superseding(p) /\ store[p] # Absent
      /\ UNCHANGED <<draft, raced>>
  BY DEF Delete
<1>2. store[p] \in Objects(p) /\ Validated(store[p].spec)
  BY <1>1 DEF AdmissionInv
<1>3. o = Absent \/ (o \in Objects(p) /\ o.spec = store[p].spec)
  BY <1>2, ObjectsKept, Zenon
<1> HIDE DEF o
<1>4. \A q \in Policy : store'[q] = IF q = p THEN o ELSE store[q]
  BY <1>1 DEF AdmissionInv
<1>5. store' = [q \in Policy |-> store'[q]]
  BY <1>1, ZenonT(40) DEF AdmissionInv
<1>6. \A q : Objects(q)' = Objects(q)
  BY <1>1 DEF Objects, SpecFor
<1>7. \A v \in writes' : IsWrite(v)
  BY <1>1, SupersedingKeeps, Zenon
<1>8. (\A v \in writes : IsWrite(v))'
  BY <1>1, <1>7 DEF IsWrite, Objects, SpecFor
<1>9. \A q \in Policy : store'[q] # Absent => store'[q] \in Objects(q) /\ Validated(store'[q].spec)
  BY <1>2, <1>3, <1>4, Zenon DEF AdmissionInv
<1>10. TargetsDiffer => TargetsDiffer'
  BY <1>1, <1>3, <1>4 DEF TargetsDiffer
<1> QED
  BY <1>1, <1>5, <1>6, <1>8, <1>9, <1>10, ZenonT(40) DEF AdmissionInv, Validated

\* Users and the controller write objects of the policy they write.
LEMMA WriteStep ==
  ASSUME AdmissionInv, NEW p \in Policy,
         Control(p) \/ \E t \in Targets : Create(p, t) \/ Update(p, t)
  PROVE  AdmissionInv'
<1>1. ASSUME NEW t \in Targets, Create(p, t) PROVE AdmissionInv'
  <2>1. [spec |-> SpecFor(p, t), fin |-> FALSE, del |-> FALSE, ready |-> FALSE] \in Objects(p)
    BY DEF Objects
  <2> QED
    BY <1>1, <2>1, AdmitStep, Zenon DEF Create
<1>2. ASSUME NEW t \in Targets, Update(p, t) PROVE AdmissionInv'
  <2>1. store[p] \in Objects(p)
    BY <1>2 DEF Update, AdmissionInv
  <2>2. [store[p] EXCEPT !.spec = SpecFor(p, t)] \in Objects(p)
    BY <2>1, ObjectsKept, Zenon
  <2> QED
    BY <1>2, <2>2, AdmitStep, ZenonT(40) DEF Update
<1>3. ASSUME Control(p) PROVE AdmissionInv'
  <2>1. store[p] \in Objects(p)
    BY <1>3 DEF Control, AdmissionInv
  <2>2. PICK obj : Admit(p, "controller", obj) /\ obj \in Objects(p)
    BY <1>3, <2>1, ObjectsKept, Zenon DEF Control
  <2> QED
    BY <2>2, AdmitStep, ZenonT(40)
<1> QED
  BY <1>1, <1>2, <1>3, Zenon

\* Whatever users, the controller and the API server do, in any order, what is stored has been
\* validated, and targets are repeated only after a write was committed on an old list.
THEOREM AdmissionInvariance == Spec => []AdmissionInv
<1>1. AdmissionInv /\ [Next]_vars => AdmissionInv'
  <2> SUFFICES ASSUME AdmissionInv, [Next]_vars PROVE AdmissionInv'
    OBVIOUS
  <2>1. CASE \E p \in Policy : Control(p) \/ \E t \in Targets : Create(p, t) \/ Update(p, t)
    BY <2>1, WriteStep
  <2>2. CASE \E p \in Policy : Delete(p)
    BY <2>2, DeleteStep
  <2>3. CASE \E w \in writes : Commit(w)
    BY <2>3, CommitStep, ZenonT(40)
  <2>4. CASE UNCHANGED vars
    BY <2>4 DEF vars, AdmissionInv, IsWrite, Objects, SpecFor, TargetsDiffer
  <2> QED
    BY <2>1, <2>2, <2>3, <2>4, ZenonT(40) DEF Next
<1> QED
  BY <1>1, InitAdmission, PTL DEF Spec

\* Every stored policy has passed the validator.
THEOREM AlwaysValidated == Spec => []StoredValidated
<1>1. AdmissionInv => StoredValidated
  BY DEF AdmissionInv, StoredValidated, Stored
<1> QED
  BY <1>1, AdmissionInvariance, PTL

\* Two policies share an index only after a write that was committed on an old list, or with groups
\* that differ in dots and dashes only: an index name gives the version and the kind away.
THEOREM IndexAlwaysOwned == Spec => []IndexOwned
<1>1. AdmissionInv => IndexOwned
  <2> SUFFICES ASSUME AdmissionInv, ~raced, NEW p \in Stored, NEW q \in Stored, p # q,
                      GetSearchIndex(store[p].spec.target) = GetSearchIndex(store[q].spec.target)
               PROVE  SameButForDots(store[p].spec.target, store[q].spec.target)
    BY DEF IndexOwned
  <2>1. PICK t, u : t = store[p].spec.target /\ u = store[q].spec.target
    OBVIOUS
  <2>2. t # u
    BY <2>1 DEF AdmissionInv, TargetsDiffer, Stored
  <2>3. t \in Targets /\ u \in Targets
    BY <2>1 DEF AdmissionInv, Stored, Objects, SpecFor
  <2>4. t.version = u.version /\ t.kind = u.kind
    BY <2>1, <2>3, IndexNamesTarget, Zenon
  <2> QED
    BY <2>1, <2>2, <2>4, ZenonT(40) DEF SameButForDots
<1> QED
  BY <1>1, AdmissionInvariance, PTL

-----------------------------------------------------------------------------
(* What a policy indexes. *)

\* The cached condition of a validated one is left out exactly if the expression is empty.
LEMMA CachedMeans ==
  ASSUME NEW c, Validate(c.expr)
  PROVE  /\ CachedCondition(c).fails = {}
         /\ c.expr = Empty => ~CachedCondition(c).compiles
         /\ c.expr # Empty => CachedCondition(c).compiles /\ CachedCondition(c).holds = c.expr.holds
  BY Zenon DEF CachedCondition, Validate

\* A validated policy that has an expression, or no condition at all, indexes the states that
\* satisfy one of its conditions.
LEMMA IndexesWhatHolds ==
  ASSUME NEW spec, NEW C, spec.conds \in Seq(C),
         \A n \in DOMAIN spec.conds : Validate(spec.conds[n].expr),
         \A n \in DOMAIN spec.conds : spec.conds[n].expr # Empty => spec.conds[n].expr.holds \subseteq States,
         spec.conds = <<>> \/ \E n \in DOMAIN spec.conds : spec.conds[n].expr # Empty
  PROVE  Indexed(spec) = Satisfying(spec)
<1> DEFINE compiled == Compile(Cached(spec))
<1>1. \A s \in States : s \in Indexed(spec) <=>
        compiled = {} \/ \E c \in compiled : s \notin c.fails /\ s \in c.holds
  BY Zenon DEF Indexed, Evaluate, Cached
<1>2. \A c : c \in compiled <=> /\ c.compiles
                                /\ \E n \in DOMAIN spec.conds : c = CachedCondition(spec.conds[n])
  BY DEF Compile, Cached
<1>3. Indexed(spec) \subseteq States
  BY DEF Indexed
<1> HIDE DEF compiled
<1>4. CASE spec.conds = <<>>
  <2>1. compiled = {}
    BY <1>2, <1>4
  <2> QED
    BY <1>1, <1>3, <1>4, <2>1, Zenon DEF Satisfying
<1>5. CASE spec.conds # <<>>
  <2>1. PICK m \in DOMAIN spec.conds : spec.conds[m].expr # Empty
    BY <1>5, Zenon
  <2>2. CachedCondition(spec.conds[m]) \in compiled
    BY <1>2, <2>1, CachedMeans, ZenonT(40)
  <2>3. \A s : s \in Satisfying(spec) <=>
          \E n \in DOMAIN spec.conds : spec.conds[n].expr # Empty /\ s \in spec.conds[n].expr.holds
    BY <1>5, Zenon DEF Satisfying
  <2>4. ASSUME NEW s \in Indexed(spec) PROVE s \in Satisfying(spec)
    <3>1. PICK c \in compiled : s \in c.holds
      BY <1>1, <1>3, <2>2, <2>4, Zenon
    <3>2. PICK n \in DOMAIN spec.conds : c = CachedCondition(spec.conds[n]) /\ c.compiles
      BY <1>2, <3>1, ZenonT(40)
    <3>3. spec.conds[n].expr # Empty /\ c.holds = spec.conds[n].expr.holds
      BY <3>2, CachedMeans, Zenon
    <3> QED
      BY <2>3, <3>1, <3>3, ZenonT(40)
  <2>5. ASSUME NEW s \in Satisfying(spec) PROVE s \in Indexed(spec)
    <3>1. PICK n \in DOMAIN spec.conds : spec.conds[n].expr # Empty /\ s \in spec.conds[n].expr.holds
      BY <2>3, <2>5, Zenon
    <3>2. PICK c : c = CachedCondition(spec.conds[n])
      OBVIOUS
    <3>3. c.compiles /\ c.holds = spec.conds[n].expr.holds /\ c.fails = {}
      BY <3>1, <3>2, CachedMeans, ZenonT(40)
    <3>4. c \in compiled
      BY <1>2, <3>2, <3>3, Zenon
    <3> QED
      BY <1>1, <3>1, <3>3, <3>4, ZenonT(40)
  <2> QED
    BY <2>4, <2>5, Zenon
<1> QED
  BY <1>4, <1>5

\* Every stored policy that has an expression, or no condition, indexes the states that satisfy one
\* of its conditions: admission lets through nothing the PolicyCache drops but empty expressions.
THEOREM AlwaysIndexesSatisfying == Spec => []IndexesSatisfyingSome
<1>1. AdmissionInv => IndexesSatisfyingSome
  <2> SUFFICES ASSUME AdmissionInv, NEW p \in Stored, NEW spec, spec = store[p].spec,
                      spec.conds = <<>> \/ \E n \in DOMAIN spec.conds : spec.conds[n].expr # Empty
               PROVE  Indexed(spec) = Satisfying(spec)
    BY DEF IndexesSatisfyingSome
  <2>1. p \in Policy /\ draft \in Authors /\ store[p] \in Objects(p) /\ Validated(spec)
    BY DEF AdmissionInv, Stored
  <2>2. spec.conds = draft[p].conds
    BY <2>1 DEF Objects, SpecFor
  <2>3. PICK C : C = Range(spec.conds)
    OBVIOUS
  <2>4. spec.conds \in Seq(C)
    BY <2>1, <2>2, <2>3, DraftsAreLists, Zenon
  <2>5. \A c \in C : c.expr # Empty => c.expr.holds \subseteq States
    BY <2>1, <2>2, <2>3, DraftsAreLists, ZenonT(40)
  <2>6. \A n \in DOMAIN spec.conds : spec.conds[n] \in C
    BY <2>3, Zenon DEF Range
  <2>7. \A n \in DOMAIN spec.conds : Validate(spec.conds[n].expr)
    BY <2>1 DEF Validated, ValidateResourceIndexPolicy
  <2> QED
    BY <2>4, <2>5, <2>6, <2>7, IndexesWhatHolds, ZenonT(40)
<1> QED
  BY <1>1, AdmissionInvariance, PTL
=============================================================================
