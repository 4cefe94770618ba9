--------------------------- MODULE KeepAliveProofs ---------------------------
(***************************************************************************)
(* KeepAlive for every FAKE_REFCOUNT larger than the references there are, *)
(* and brackets of any depth.  Neither CountExact nor ClearedOnce is       *)
(* inductive: that end finds the true count again rests on what every      *)
(* bracket around it saved, which Nesting says.                            *)
(***************************************************************************)
EXTENDS KeepAlive, SequenceTheorems, TLAPS

LEMMA PopProperties ==
  ASSUME NEW S, NEW s \in Seq(S), s # <<>>
  PROVE  /\ Pop(s) \in Seq(S)
         /\ Len(s) \in Nat \ {0}
         /\ Top(s) \in S
         /\ Len(Pop(s)) = Len(s) - 1
         /\ \A i \in 1..(Len(s) - 1) : Pop(s)[i] = s[i]
         /\ Len(s) > 1 => Pop(s) # <<>> /\ Top(Pop(s)) = s[Len(s) - 1]
         /\ Len(s) = 1 => Pop(s) = <<>>
<1>1. Len(s) \in Nat \ {0}
  BY EmptySeq, LenProperties
<1> DEFINE n == Len(s) - 1
<1>2. /\ SubSeq(s, 1, n) \in Seq(S)
      /\ Len(SubSeq(s, 1, n)) = n
      /\ \A i \in 1..n : SubSeq(s, 1, n)[i] = s[i]
  <2>1. n \in Int /\ n >= 0 /\ Len(s) = n + 1
    BY <1>1
  <2> HIDE DEF n
  <2>2. SubSeq(s, 1, n) \in Seq(S)
    BY <2>1
  <2>3. Len(SubSeq(s, 1, n)) = n
    BY <2>1
  <2>4. \A i \in 1..n : SubSeq(s, 1, n)[i] = s[i]
    BY <2>1
  <2> QED
    BY <2>2, <2>3, <2>4
<1>3. Top(s) \in S
  BY <1>1, ElementOfSeq DEF Top
<1>4. Len(s) > 1 => Pop(s) # <<>> /\ Top(Pop(s)) = s[Len(s) - 1]
  <2>1. Len(s) > 1 => n \in 1..n /\ n > 0
    BY <1>1
  <2>2. Pop(s) = SubSeq(s, 1, n)
    BY DEF Pop
  <2> HIDE DEF n
  <2>3. Len(s) > 1 => Pop(s) # <<>> /\ Top(Pop(s)) = s[n]
    BY <1>2, <2>1, <2>2, EmptySeq DEF Top
  <2> QED
    BY <2>3 DEF n
<1>5. Len(s) = 1 => Pop(s) = <<>>
  BY <1>1, <1>2, EmptySeq DEF Pop
<1> QED
  BY <1>1, <1>2, <1>3, <1>4, <1>5 DEF Pop

LEMMA PushProperties ==
  ASSUME NEW S, NEW s \in Seq(S), NEW e \in S
  PROVE  /\ Append(s, e) \in Seq(S) /\ Append(s, e) # <<>>
         /\ Len(Append(s, e)) = Len(s) + 1
         /\ Top(Append(s, e)) = e
         /\ \A i \in 1..Len(s) : Append(s, e)[i] = s[i]
  BY AppendProperties DEF Top

LEMMA InitIInv == Init => IInv
<1> SUFFICES ASSUME Init
             PROVE  IInv
  OBVIOUS
<1>1. stray \in BOOLEAN
  BY DEF Init
<1>2. TypeOK
  BY <1>1, KeepAliveAssumption DEF Init, TypeOK
<1>3. ClearedOnce /\ Bookkeeping /\ Nesting /\ Lifetime
  BY DEF Init, ClearedOnce, Bookkeeping, Nesting, Lifetime, Inside
<1> QED
  BY <1>2, <1>3 DEF IInv

LEMMA TopOfAt ==
  ASSUME IInv, Inside
  PROVE  /\ saved # <<>> /\ at # <<>>
         /\ Len(at) \in Nat \ {0} /\ Len(saved) = Len(at)
         /\ \A i \in 1..Len(at) : at[i] \in 0..MaxRefs
         /\ Top(at) \in 0..MaxRefs
         /\ count = FAKE_REFCOUNT + refs - Top(at)
<1>1. saved \in Seq(Int) /\ saved # <<>> /\ at \in Seq(0..MaxRefs) /\ Len(saved) = Len(at)
  BY DEF IInv, TypeOK, Nesting, Inside
<1>2. at # <<>>
  BY <1>1, EmptySeq
<1>3. Len(at) \in Nat \ {0} /\ \A i \in 1..Len(at) : at[i] \in 0..MaxRefs
  BY <1>1, <1>2, EmptySeq, ElementOfSeq
<1> QED
  BY <1>1, <1>2, <1>3, PopProperties DEF IInv, Bookkeeping

\* Between begin and end the count cannot be counted down to 0.
LEMMA CountInside ==
  ASSUME IInv, Inside
  PROVE  refs > 0 => count > 1
<1> QED
  BY TopOfAt, KeepAliveAssumption DEF IInv, TypeOK

\* What end computes: the true count at the end of the outermost bracket, and
\* the count the bracket around it would have had otherwise.
LEMMA EffectiveRefcount ==
  ASSUME IInv, Inside
  PROVE  LET effective == Top(saved) + (count - FAKE_REFCOUNT) IN
         /\ Len(at) = 1 => Top(saved) = at[1] /\ effective = refs
         /\ Len(at) > 1 => /\ effective = FAKE_REFCOUNT + refs - at[Len(at) - 1]
                           /\ effective > 0
<1> DEFINE n == Len(at)
           x == at[n]
           y == at[n - 1]
<1>1. n \in Nat \ {0} /\ Len(saved) = n /\ (\A i \in 1..n : at[i] \in 0..MaxRefs)
  BY TopOfAt
<1>2. count = FAKE_REFCOUNT + refs - x /\ refs \in 0..MaxRefs /\ x \in 0..MaxRefs
  BY TopOfAt DEF IInv, TypeOK, Top
<1>3. Top(saved) = IF n = 1 THEN x ELSE FAKE_REFCOUNT + x - y
  BY <1>1 DEF IInv, Nesting, Top
<1>4. n > 1 => y \in 0..MaxRefs
  BY <1>1
<1>5. n = 1 => x = at[1]
  OBVIOUS
<1> HIDE DEF n, x, y
<1>6. n = 1 => Top(saved) = x /\ Top(saved) + (count - FAKE_REFCOUNT) = refs
  BY <1>1, <1>2, <1>3, KeepAliveAssumption
<1>7. n > 1 => /\ Top(saved) + (count - FAKE_REFCOUNT) = FAKE_REFCOUNT + refs - y
               /\ Top(saved) + (count - FAKE_REFCOUNT) > 0
  BY <1>1, <1>2, <1>3, <1>4, KeepAliveAssumption
<1> QED
  BY <1>5, <1>6, <1>7 DEF n, y

LEMMA NextIInv == IInv /\ [Next]_vars => IInv'
<1> SUFFICES ASSUME IInv, [Next]_vars
             PROVE  IInv'
  OBVIOUS
<1> USE KeepAliveAssumption
<1>1. CASE New
  <2>1. saved = <<>> /\ saved' = saved /\ at' = at
    BY <1>1 DEF New, IInv, Lifetime, Inside
  <2>2. stray' \in BOOLEAN
    BY <1>1 DEF New
  <2>3. TypeOK'
    BY <1>1, <2>1, <2>2 DEF New, IInv, TypeOK
  <2> QED
    BY <1>1, <2>1, <2>3
    DEF New, IInv, ClearedOnce, Bookkeeping, Nesting, Lifetime, Inside
<1>2. CASE Inc
  <2>1. TypeOK' /\ ClearedOnce'
    BY <1>2 DEF Inc, Strays, IInv, TypeOK, ClearedOnce
  <2>2. Nesting'
    BY <1>2 DEF Inc, IInv, Nesting
  <2>3. Bookkeeping'
    <3>1. CASE Inside
      BY <1>2, <3>1, TopOfAt DEF Inc, IInv, TypeOK, Bookkeeping, Inside
    <3>2. CASE ~Inside
      BY <1>2, <3>2 DEF Inc, IInv, TypeOK, Bookkeeping, Inside
    <3> QED
      BY <3>1, <3>2
  <2>4. /\ refs' = refs + 1 /\ refs \in Nat /\ life' = life /\ saved' = saved /\ at' = at
        /\ life \in {"live", "dying", "gone"}
    BY <1>2 DEF Inc, IInv, TypeOK
  <2>5. (stray => stray') /\ (life = "dying" /\ ~Inside => stray')
    <3>1. stray' = (stray \/ (life = "dying" /\ ~Inside /\ refs' > 0))
      BY <1>2 DEF Inc, Strays, Inside
    <3>2. refs' > 0
      BY <2>4
    <3> QED
      BY <3>1, <3>2, Zenon
  <2>6. Lifetime'
    BY <2>4, <2>5 DEF IInv, Lifetime, Inside
  <2> QED
    BY <2>1, <2>2, <2>3, <2>6 DEF IInv
<1>3. CASE Dec
  <2>1. count = 1 => /\ ~Inside /\ refs = 1
                     /\ life = "live" \/ (life \in {"dying", "gone"} /\ stray)
    <3>1. count = 1 => ~Inside
      BY <1>3, CountInside DEF Dec
    <3>2. count = 1 => refs = 1
      BY <3>1 DEF IInv, Bookkeeping
    <3> QED
      BY <1>3, <3>1, <3>2 DEF Dec, IInv, TypeOK, Lifetime
  <2>2. TypeOK' /\ ClearedOnce'
    BY <1>3, <2>1 DEF Dec, Cleared, IInv, TypeOK, ClearedOnce
  <2>3. Nesting'
    BY <1>3 DEF Dec, IInv, Nesting
  <2>4. Bookkeeping'
    <3>1. CASE Inside
      BY <1>3, <3>1, TopOfAt DEF Dec, IInv, TypeOK, Bookkeeping, Inside
    <3>2. CASE ~Inside
      BY <1>3, <3>2 DEF Dec, IInv, TypeOK, Bookkeeping, Inside
    <3> QED
      BY <3>1, <3>2
  <2>5. ~Inside => count = refs
    BY DEF IInv, Bookkeeping
  <2>6. life \in {"live", "dying", "gone"}
    BY <1>3 DEF Dec, IInv, TypeOK, Lifetime
  <2>7. Lifetime'
    BY <1>3, <2>1, <2>5, <2>6 DEF Dec, Cleared, IInv, TypeOK, Lifetime, Inside
  <2> QED
    BY <2>2, <2>3, <2>4, <2>7 DEF IInv
<1>4. CASE refcnt_ka_begin
  <2>1. /\ saved' = Append(saved, count) /\ at' = Append(at, refs)
        /\ count' = FAKE_REFCOUNT
        /\ life \in {"live", "dying"} /\ life' = life /\ refs' = refs /\ stray' = stray
    BY <1>4 DEF refcnt_ka_begin
  <2>2. /\ saved \in Seq(Int) /\ at \in Seq(0..MaxRefs)
        /\ count \in Int /\ refs \in 0..MaxRefs
    BY DEF IInv, TypeOK
  <2>3. /\ saved' \in Seq(Int) /\ saved' # <<>> /\ Len(saved') = Len(saved) + 1
        /\ Top(saved') = count
        /\ \A i \in 1..Len(saved) : saved'[i] = saved[i]
    BY <2>1, <2>2, PushProperties
  <2>4. /\ at' \in Seq(0..MaxRefs) /\ Len(at') = Len(at) + 1
        /\ Top(at') = refs
        /\ \A i \in 1..Len(at) : at'[i] = at[i]
    BY <2>1, <2>2, PushProperties
  <2>5. TypeOK' /\ ClearedOnce'
    BY <2>1, <2>2, <2>3, <2>4 DEF TypeOK, IInv, ClearedOnce
  <2>6. Len(saved) = Len(at) /\ Len(at) \in Nat
    BY <2>2, LenProperties DEF IInv, Nesting
  <2>7. Bookkeeping'
    BY <2>1, <2>2, <2>3, <2>4 DEF Bookkeeping, Inside
  <2>8. Nesting'
    <3> DEFINE n == Len(at)
    <3>1. ASSUME NEW i \in 1..n
          PROVE  saved'[i] = IF i = 1 THEN at'[1] ELSE FAKE_REFCOUNT + at'[i] - at'[i - 1]
      <4>1. saved[i] = IF i = 1 THEN at[1] ELSE FAKE_REFCOUNT + at[i] - at[i - 1]
        BY <2>6 DEF IInv, Nesting
      <4>2. saved'[i] = saved[i] /\ at'[i] = at[i] /\ at'[1] = at[1]
        BY <2>3, <2>4, <2>6
      <4>3. i # 1 => at'[i - 1] = at[i - 1]
        BY <2>4, <2>6
      <4> QED
        BY <4>1, <4>2, <4>3
    <3>2. saved'[n + 1] = count /\ at'[n + 1] = refs
      BY <2>3, <2>4, <2>6 DEF Top
    <3>3. count = IF n = 0 THEN refs ELSE FAKE_REFCOUNT + refs - at'[n]
      <4>1. CASE Inside
        <5>1. n # 0 /\ Top(at) = at'[n]
          BY <4>1, TopOfAt, <2>4, <2>6 DEF Top
        <5> QED
          BY <4>1, <5>1, TopOfAt
      <4>2. CASE ~Inside
        BY <4>2, <2>6, EmptySeq DEF IInv, Bookkeeping, Inside
      <4> QED
        BY <4>1, <4>2
    <3>4. \A i \in 1..Len(saved') : i \in 1..n \/ i = n + 1
      BY <2>3, <2>6
    <3>5. n + 1 = 1 <=> n = 0
      BY <2>6
    <3>6. (n + 1) - 1 = n
      BY <2>6
    <3>7. ASSUME NEW i \in 1..Len(saved')
          PROVE  saved'[i] = IF i = 1 THEN at'[1] ELSE FAKE_REFCOUNT + at'[i] - at'[i - 1]
      <4>1. CASE i \in 1..n
        BY <4>1, <3>1
      <4>2. CASE i = n + 1
        <5>1. i = 1 <=> n = 0
          BY <4>2, <3>5
        <5>2. at'[i - 1] = at'[n]
          BY <4>2, <3>6
        <5>3. saved'[i] = count /\ at'[i] = refs
          BY <4>2, <3>2
        <5> HIDE DEF n
        <5> QED
          BY <3>3, <5>1, <5>2, <5>3
      <4> QED
        BY <4>1, <4>2, <3>4
    <3> QED
      BY <3>7, <2>3, <2>4, <2>6 DEF Nesting
  <2>9. Lifetime'
    <3>1. at'[1] = IF Inside THEN at[1] ELSE refs
      <4>1. CASE Inside
        BY <4>1, TopOfAt, <2>4
      <4>2. CASE ~Inside
        BY <4>2, <2>4, <2>6, EmptySeq DEF Inside, Top
      <4> QED
        BY <4>1, <4>2
    <3> QED
      BY <3>1, <2>1, <2>3 DEF IInv, Lifetime, Inside
  <2> QED
    BY <2>5, <2>7, <2>8, <2>9 DEF IInv
<1>5. CASE refcnt_ka_end
  <2> DEFINE n == Len(at)
             effective == Top(saved) + (count - FAKE_REFCOUNT)
  <2>1. /\ Inside /\ saved' = Pop(saved) /\ at' = Pop(at) /\ refs' = refs
        /\ stray' = (stray \/ (life = "dying" /\ saved' = <<>> /\ refs > 0))
    BY <1>5 DEF refcnt_ka_end, Strays
  <2>2. /\ saved \in Seq(Int) /\ saved # <<>> /\ at \in Seq(0..MaxRefs) /\ at # <<>>
        /\ count \in Int /\ refs \in 0..MaxRefs
        /\ n \in Nat \ {0} /\ Len(saved) = n /\ at[1] \in 0..MaxRefs
    BY <2>1, TopOfAt DEF IInv, TypeOK
  <2>3. /\ saved' \in Seq(Int) /\ Top(saved) \in Int /\ Len(saved') = n - 1
        /\ \A i \in 1..(n - 1) : saved'[i] = saved[i]
        /\ n > 1 => saved' # <<>>
        /\ n = 1 => saved' = <<>>
    BY <2>1, <2>2, PopProperties
  <2>4. /\ at' \in Seq(0..MaxRefs) /\ Len(at') = n - 1
        /\ \A i \in 1..(n - 1) : at'[i] = at[i]
        /\ n > 1 => Top(at') = at[n - 1]
    BY <2>1, <2>2, PopProperties
  <2>5. /\ n = 1 => Top(saved) = at[1] /\ effective = refs
        /\ n > 1 => effective = FAKE_REFCOUNT + refs - at[n - 1] /\ effective > 0
    BY <2>1, EffectiveRefcount
  <2>6. /\ life \in {"live", "dying"}
        /\ (life = "live" => at[1] > 0) /\ (life = "dying" /\ ~stray => at[1] = 0)
        /\ stray \in BOOLEAN
    BY <2>1 DEF IInv, TypeOK, Lifetime
  <2>7. effective \in Int
    BY <2>2, <2>3
  <2>8. Nesting'
    <3>1. \A i \in 1..(n - 1) :
            saved[i] = IF i = 1 THEN at[1] ELSE FAKE_REFCOUNT + at[i] - at[i - 1]
      BY <2>2 DEF IInv, Nesting
    <3>2. ASSUME NEW i \in 1..(n - 1)
          PROVE  saved'[i] = IF i = 1 THEN at'[1] ELSE FAKE_REFCOUNT + at'[i] - at'[i - 1]
      <4>1. 1 \in 1..(n - 1) /\ (i # 1 => i - 1 \in 1..(n - 1))
        BY <2>2
      <4>2. saved'[i] = saved[i] /\ at'[i] = at[i] /\ at'[1] = at[1]
        BY <4>1, <2>3, <2>4
      <4>3. i # 1 => at'[i - 1] = at[i - 1]
        BY <4>1, <2>4
      <4> QED
        BY <3>1, <4>2, <4>3
    <3> QED
      BY <3>2, <2>3, <2>4 DEF Nesting
  <2>9. CASE effective <= 0 /\ Top(saved) > 0
    <3>1. n = 1
      BY <2>2, <2>5, <2>7, <2>9
    <3>2. refs = 0 /\ (life = "live" \/ (life = "dying" /\ stray))
      BY <3>1, <2>2, <2>5, <2>6, <2>9
    <3>3. count' = 0 /\ (life' = "dying" \/ (life' = "twice" /\ stray))
      BY <1>5, <2>7, <2>9, <3>2 DEF refcnt_ka_end, Cleared
    <3>4. saved' = <<>> /\ refs' = 0 /\ stray' = stray
      BY <3>1, <3>2, <2>1, <2>2, <2>3, <2>6
    <3>5. TypeOK' /\ ClearedOnce'
      BY <2>2, <2>3, <2>4, <2>6, <3>3, <3>4, KeepAliveAssumption DEF TypeOK, ClearedOnce
    <3> QED
      BY <2>8, <3>3, <3>4, <3>5 DEF IInv, Bookkeeping, Lifetime, Inside
  <2>10. CASE ~(effective <= 0 /\ Top(saved) > 0)
    <3>1. count' = effective /\ life' = life
      BY <1>5, <2>10 DEF refcnt_ka_end
    <3>2. TypeOK' /\ ClearedOnce'
      BY <2>1, <2>2, <2>3, <2>4, <2>6, <2>7, <3>1 DEF IInv, TypeOK, ClearedOnce
    <3>3. CASE n = 1
      <4>1. life = "live" => refs > 0
        BY <3>3, <2>2, <2>5, <2>6, <2>10
      <4>2. saved' = <<>> /\ count' = refs
        BY <3>1, <3>3, <2>3, <2>5
      <4>3. ~stray' => ~(life = "dying" /\ refs > 0)
        BY <4>2, <2>1
      <4>4. life = "dying" /\ ~stray' => refs = 0
        BY <4>3, <2>2
      <4> QED
        BY <2>1, <2>6, <2>8, <3>1, <3>2, <4>1, <4>2, <4>4
        DEF IInv, Bookkeeping, Lifetime, Inside
    <3>4. CASE n > 1
      <4>1. saved' # <<>> /\ count' = FAKE_REFCOUNT + refs - Top(at')
        BY <3>1, <3>4, <2>3, <2>4, <2>5
      <4>2. at'[1] = at[1] /\ (stray' = stray)
        BY <3>4, <2>1, <2>2, <2>3, <2>4, <2>6
      <4> QED
        BY <2>1, <2>6, <2>8, <3>1, <3>2, <4>1, <4>2
        DEF IInv, Bookkeeping, Lifetime, Inside
    <3> QED
      BY <3>3, <3>4, <2>2
  <2> QED
    BY <2>9, <2>10
<1>6. CASE Free
  BY <1>6 DEF Free, IInv, TypeOK, ClearedOnce, Bookkeeping, Nesting, Lifetime, Inside
<1>7. CASE UNCHANGED vars
  BY <1>7 DEF vars, IInv, TypeOK, ClearedOnce, Bookkeeping, Nesting, Lifetime, Inside, Top
<1> QED
  BY <1>1, <1>2, <1>3, <1>4, <1>5, <1>6, <1>7 DEF Next

\* The inductive invariant holds throughout.
THEOREM SpecIInv == Spec => []IInv
<1> QED
  BY InitIInv, NextIInv, PTL DEF Spec

\* Outside every bracket a live SV's count is the number of its references.
THEOREM CountsAreExact == Spec => []CountExact
<1>1. IInv => CountExact
  BY DEF IInv, Bookkeeping, Lifetime, CountExact
<1> QED
  BY <1>1, SpecIInv, PTL

\* Nothing makes perl clear an SV that it has cleared or is clearing, but a
\* reference to it that is there, while it dies, outside every bracket.
THEOREM NeverClearedTwice == Spec => []ClearedOnce
<1>1. IInv => ClearedOnce
  BY DEF IInv
<1> QED
  BY <1>1, SpecIInv, PTL

\* An SV that is kept survives until its outermost bracket ends, however many of
\* its references go and however deep the brackets nest.
THEOREM KeptAliveHolds == Spec => KeptAlive
<1>1. IInv /\ [Next]_vars => [life = "live" /\ life' # "live" => refs' = 0 /\ saved' = <<>>]_vars
  <2> SUFFICES ASSUME IInv, Next, life = "live", life' # "live"
               PROVE  refs' = 0 /\ saved' = <<>>
    BY DEF vars
  <2> USE KeepAliveAssumption
  <2>1. CASE Dec
    <3>1. ~Inside
      BY <2>1, CountInside DEF Dec
    <3> QED
      BY <2>1, <3>1 DEF Dec, IInv, TypeOK, Bookkeeping, Inside
  <2>2. CASE refcnt_ka_end
    <3>1. Inside /\ Top(saved) + (count - FAKE_REFCOUNT) <= 0
      BY <2>2 DEF refcnt_ka_end
    <3>2. Len(at) \in Nat \ {0} /\ Len(saved) = Len(at) /\ saved # <<>> /\ saved \in Seq(Int)
      BY <3>1, TopOfAt DEF IInv, TypeOK
    <3>3. Len(at) = 1
      <4>1. Top(saved) \in Int /\ count \in Int
        BY <3>2, PopProperties DEF IInv, TypeOK
      <4> QED
        BY <3>1, <3>2, <4>1, EffectiveRefcount
    <3>4. refs = 0
      BY <3>1, <3>3, EffectiveRefcount DEF IInv, TypeOK
    <3>5. Pop(saved) = <<>>
      BY <3>2, <3>3, PopProperties
    <3> QED
      BY <2>2, <3>4, <3>5 DEF refcnt_ka_end
  <2> QED
    BY <2>1, <2>2 DEF Next, New, Inc, refcnt_ka_begin, Free
<1> QED
  BY <1>1, SpecIInv, PTL DEF Spec, KeptAlive
=============================================================================
