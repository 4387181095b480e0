-------------------------- MODULE SearchPoolProofs --------------------------
(* What TLAPS proves of SearchPool for a pool and a number of threads of any *)
(* size.                                                                     *)
EXTENDS SearchPool, TLAPS

\* The part of TypeOK that does not speak of the bitmap: who holds what does
\* not depend on it.
Typed ==
    /\ in_use \in [Segments -> BOOLEAN]
    /\ granted \in [Segments -> Nat]
    /\ pc \in [Reservers -> {"idle", "check", "exchange", "claim", "null"}]
    /\ i \in [Reservers -> Segments]
    /\ dpc \in [Releasers -> {"idle", "clear", "exchange"}]
    /\ seg \in [Releasers -> Segments]

\* A lone reserver works on a segment that is not in use; a releaser about to
\* clear a segment is the only one to do so, and nobody holds it any more.
HInv ==
    /\ OneHolder
    /\ OneReserver =>
         /\ \A t \in Reservers : pc[t] \in {"exchange", "claim"} => ~in_use[i[t]]
         /\ \A r \in Releasers : dpc[r] = "clear" =>
               in_use[seg[r]] /\ granted[seg[r]] = 0
         /\ \A q, r \in Releasers :
               dpc[q] = "clear" /\ dpc[r] = "clear" /\ seg[q] = seg[r] => q = r

LEMMA TypedInit == Init => Typed
  BY SizesAssumption DEF Init, Typed, Segments

\* The loop index stays inside the pool.
LEMMA NextSegmentTyped ==
    ASSUME Typed, NEW t \in Reservers, NextSegment(t)
    PROVE  /\ pc' \in [Reservers ->
                       {"idle", "check", "exchange", "claim", "null"}]
           /\ i' \in [Reservers -> Segments]
  <1>1. i[t] \in 0 .. MaxSegments - 1 /\ MaxSegments \in Nat \ {0}
    BY SizesAssumption DEF Typed, Segments
  <1>2. CASE i[t] = MaxSegments - 1
    <2>1. 0 \in Segments
      BY <1>1 DEF Segments
    <2> QED  BY <1>2, <2>1 DEF NextSegment, Typed
  <1>3. CASE i[t] # MaxSegments - 1
    <2>1. i[t] + 1 \in Segments
      BY <1>1, <1>3 DEF Segments
    <2> QED  BY <1>3, <2>1 DEF NextSegment, Typed
  <1> QED  BY <1>2, <1>3

LEMMA TypedNext == Typed /\ [Next]_vars => Typed'
  <1> SUFFICES ASSUME Typed, [Next]_vars
               PROVE  Typed'
    OBVIOUS
  <1> USE SizesAssumption DEF Typed, Segments
  <1>1. ASSUME NEW t \in Reservers, Reserve(t)
        PROVE  Typed'
    BY <1>1 DEF Reserve
  <1>2. ASSUME NEW t \in Reservers, CheckInUse(t)
        PROVE  Typed'
    <2>1. CASE in_use[i[t]]
      BY <1>2, <2>1, NextSegmentTyped DEF CheckInUse
    <2>2. CASE ~in_use[i[t]]
      BY <1>2, <2>2 DEF CheckInUse
    <2> QED  BY <2>1, <2>2
  <1>3. ASSUME NEW t \in Reservers, ExchangeBit(t)
        PROVE  Typed'
    <2>1. CASE NextSegment(t)
      BY <1>3, <2>1, NextSegmentTyped DEF ExchangeBit
    <2>2. CASE pc' = [pc EXCEPT ![t] = "claim"] /\ i' = i
      BY <1>3, <2>2 DEF ExchangeBit
    <2> QED  BY <1>3, <2>1, <2>2 DEF ExchangeBit
  <1>4. ASSUME NEW t \in Reservers, Claim(t)
        PROVE  Typed'
    BY <1>4 DEF Claim
  <1>5. ASSUME NEW t \in Reservers, ReturnNull(t)
        PROVE  Typed'
    BY <1>5 DEF ReturnNull
  <1>6. ASSUME NEW t \in Releasers, Release(t)
        PROVE  Typed'
    BY <1>6 DEF Release
  <1>7. ASSUME NEW t \in Releasers, ClearInUse(t)
        PROVE  Typed'
    BY <1>7 DEF ClearInUse
  <1>8. ASSUME NEW t \in Releasers, ReleaseBit(t)
        PROVE  Typed'
    BY <1>8 DEF ReleaseBit
  <1>9. CASE UNCHANGED vars
    BY <1>9 DEF vars
  <1> QED
    BY <1>1, <1>2, <1>3, <1>4, <1>5, <1>6, <1>7, <1>8, <1>9
       DEF Next, ReserveCall, ReleaseCall

LEMMA HInvInit == Init => HInv
  BY DEF Init, HInv, OneHolder

LEMMA HInvNext == Typed /\ HInv /\ [Next]_vars => HInv'
  <1> SUFFICES ASSUME Typed, HInv, [Next]_vars, OneReserver
               PROVE  HInv'
    BY DEF HInv, OneHolder, OneReserver
  <1> USE DEF Typed, HInv, OneHolder
  <1>0. \A t, u \in Reservers : t = u
    BY DEF OneReserver
  <1>1. ASSUME NEW t \in Reservers, Reserve(t)
        PROVE  HInv'
    BY <1>1 DEF Reserve
  <1>2. ASSUME NEW t \in Reservers, CheckInUse(t)
        PROVE  HInv'
    BY <1>2 DEF CheckInUse, NextSegment
  <1>3. ASSUME NEW t \in Reservers, ExchangeBit(t)
        PROVE  HInv'
    BY <1>3 DEF ExchangeBit, NextSegment
  <1>4. ASSUME NEW t \in Reservers, Claim(t)
        PROVE  HInv'
    <2>1. ~in_use[i[t]] /\ granted[i[t]] = 0
      BY <1>4 DEF Claim
    <2>2. /\ in_use' = [in_use EXCEPT ![i[t]] = TRUE]
          /\ granted' = [granted EXCEPT ![i[t]] = 1]
          /\ pc' = [pc EXCEPT ![t] = "idle"]
          /\ dpc' = dpc /\ seg' = seg
      BY <1>4, <2>1 DEF Claim
    <2>3. \A s \in Segments :
            granted'[s] <= 1 /\ (granted'[s] = 1 => in_use'[s])
      BY <2>1, <2>2
    <2>4. \A u \in Reservers : pc'[u] = "idle"
      BY <1>0, <2>2
    <2>5. \A r \in Releasers : dpc'[r] = "clear" =>
             in_use'[seg'[r]] /\ granted'[seg'[r]] = 0
      BY <2>1, <2>2
    <2> QED  BY <2>2, <2>3, <2>4, <2>5
  <1>5. ASSUME NEW t \in Reservers, ReturnNull(t)
        PROVE  HInv'
    BY <1>5 DEF ReturnNull
  <1>6. ASSUME NEW t \in Releasers, Release(t)
        PROVE  HInv'
    <2>1. PICK s \in Segments :
             /\ granted[s] > 0
             /\ granted' = [granted EXCEPT ![s] = @ - 1]
             /\ seg' = [seg EXCEPT ![t] = s]
      BY <1>6 DEF Release
    <2>2. granted[s] = 1 /\ in_use[s] /\ granted'[s] = 0
      BY <2>1
    <2>3. dpc' = [dpc EXCEPT ![t] = "clear"] /\ UNCHANGED <<in_use, pc, i>>
      BY <1>6 DEF Release
    <2>4. \A r \in Releasers : dpc[r] = "clear" => seg[r] # s
      BY <2>2
    <2> QED  BY <2>1, <2>2, <2>3, <2>4
  <1>7. ASSUME NEW t \in Releasers, ClearInUse(t)
        PROVE  HInv'
    <2>1. granted[seg[t]] = 0
      BY <1>7 DEF ClearInUse
    <2> QED  BY <1>7, <2>1 DEF ClearInUse
  <1>8. ASSUME NEW t \in Releasers, ReleaseBit(t)
        PROVE  HInv'
    BY <1>8 DEF ReleaseBit
  <1>9. CASE UNCHANGED vars
    BY <1>9 DEF vars
  <1> QED
    BY <1>1, <1>2, <1>3, <1>4, <1>5, <1>6, <1>7, <1>8, <1>9
       DEF Next, ReserveCall, ReleaseCall

\* When reservations are made one at a time, no segment ever has two holders,
\* whatever the exchanges leave in the bitmap and however releases interleave.
THEOREM SegmentsExclusive == Spec => []OneHolder
  <1>1. Init => Typed /\ HInv
    BY TypedInit, HInvInit
  <1>2. Typed /\ HInv /\ [Next]_vars => (Typed /\ HInv)'
    BY TypedNext, HInvNext
  <1>3. HInv => OneHolder
    BY DEF HInv
  <1> QED  BY <1>1, <1>2, <1>3, PTL DEF Spec

-----------------------------------------------------------------------------
(* What a reservation overlooks *)

BitmapTyped == bitmap \in [Words -> SUBSET (0 .. WordBits - 1)]

\* An undisturbed reservation has probed every free segment that it passed, and
\* the probe left its bit alone in the word.
PInv ==
    /\ ~disturbed => \A r \in Releasers : dpc[r] = "idle"
    /\ \A t \in Reservers :
          /\ pc[t] \in {"idle", "null"} => i[t] = 0
          /\ (OneReserver /\ ~disturbed) =>
                \A s \in Segments :
                   (/\ Free(s)
                    /\ \/ pc[t] = "null"
                       \/ pc[t] \in {"check", "exchange"} /\ s < i[t])
                   => bitmap[WordOf(s)] = {BitOf(s)}

LEMMA WordAndBit ==
    ASSUME NEW s \in Segments
    PROVE  /\ WordOf(s) \in Words /\ BitOf(s) \in 0 .. WordBits - 1
           /\ s = WordOf(s) * WordBits + BitOf(s)
           /\ s \in Int
  <1>1. s \in Int /\ WordBits \in Nat \ {0}
    BY SizesAssumption DEF Segments
  <1>2. s % WordBits \in 0 .. WordBits - 1
    BY <1>1
  <1>3. s = (s \div WordBits) * WordBits + (s % WordBits)
    BY <1>1
  <1> QED  BY <1>1, <1>2, <1>3 DEF WordOf, BitOf, Words

LEMMA SameWordAndBit ==
    ASSUME NEW r \in Segments, NEW s \in Segments,
           WordOf(r) = WordOf(s), BitOf(r) = BitOf(s)
    PROVE  r = s
  BY WordAndBit

LEMMA BitmapNext == Typed /\ BitmapTyped /\ [Next]_vars => BitmapTyped'
  <1> SUFFICES ASSUME Typed, BitmapTyped, [Next]_vars
               PROVE  BitmapTyped'
    OBVIOUS
  <1>1. ASSUME NEW s \in Segments,
               bitmap' = [bitmap EXCEPT ![WordOf(s)] = {BitOf(s)}]
        PROVE  BitmapTyped'
    BY <1>1, WordAndBit DEF BitmapTyped
  <1>2. CASE UNCHANGED bitmap
    BY <1>2 DEF BitmapTyped
  <1>3. ASSUME NEW t \in Reservers, ExchangeBit(t)
        PROVE  BitmapTyped'
    BY <1>1, <1>3 DEF ExchangeBit, Typed
  <1>4. ASSUME NEW t \in Releasers, ReleaseBit(t)
        PROVE  BitmapTyped'
    BY <1>1, <1>4 DEF ReleaseBit, Typed
  <1> QED
    BY <1>2, <1>3, <1>4 DEF Next, vars, Reserve, ReserveCall, CheckInUse, Claim,
       ReturnNull, Release, ReleaseCall, ClearInUse

\* The search goes on behind a segment that is held or has just been probed.
LEMMA PassesProbed ==
    ASSUME Typed, NEW t \in Reservers, NextSegment(t), pc[t] \in {"check", "exchange"},
           NEW s \in Segments,
           pc'[t] = "null" \/ (pc'[t] \in {"check", "exchange"} /\ s < i'[t])
    PROVE  s < i[t] \/ s = i[t]
  <1>1. i[t] \in Int /\ s \in Int /\ s <= MaxSegments - 1 /\ MaxSegments \in Int
    BY SizesAssumption DEF Typed, Segments
  <1>2. CASE i[t] = MaxSegments - 1
    BY <1>1, <1>2
  <1>3. CASE i[t] # MaxSegments - 1
    <2>1. pc'[t] = "check" /\ i'[t] = i[t] + 1
      BY <1>3 DEF NextSegment, Typed
    <2> QED  BY <1>1, <2>1
  <1> QED  BY <1>2, <1>3

LEMMA PInvInit == Init => PInv
  BY DEF Init, PInv

LEMMA PInvNext ==
    Typed /\ BitmapTyped /\ HInv /\ PInv /\ [Next]_vars => PInv'
  <1> SUFFICES ASSUME Typed, BitmapTyped, HInv, PInv, [Next]_vars
               PROVE  PInv'
    OBVIOUS
  <1> DEFINE Probed(t, s) ==
                (/\ Free(s)
                 /\ \/ pc[t] = "null"
                    \/ pc[t] \in {"check", "exchange"} /\ s < i[t])
                => bitmap[WordOf(s)] = {BitOf(s)}
             Calls(t) == pc[t] \in {"idle", "null"} => i[t] = 0
  <1>0. /\ ~disturbed => \A r \in Releasers : dpc[r] = "idle"
        /\ \A t \in Reservers : Calls(t)
        /\ OneReserver /\ ~disturbed =>
              \A t \in Reservers : \A s \in Segments : Probed(t, s)
    BY DEF PInv
  <1>a. ASSUME ~disturbed' => \A r \in Releasers : dpc'[r] = "idle",
               \A t \in Reservers : Calls(t)',
               (OneReserver /\ ~disturbed') =>
                   \A t \in Reservers : \A s \in Segments : Probed(t, s)'
        PROVE  PInv'
    BY <1>a DEF PInv, OneReserver
  <1>1. ASSUME NEW t \in Reservers, Reserve(t)
        PROVE  PInv'
    <2>1. /\ pc[t] = "idle" /\ pc' = [pc EXCEPT ![t] = "check"]
          /\ disturbed' = (\E r \in Releasers : dpc[r] # "idle")
          /\ UNCHANGED <<in_use, bitmap, i, dpc>>
      BY <1>1 DEF Reserve
    <2>2. i[t] = 0 /\ pc'[t] = "check"
      BY <1>0, <2>1 DEF Typed
    <2>3. \A u \in Reservers : Calls(u)'
      BY <1>0, <2>1 DEF Typed
    <2>4. ASSUME OneReserver, NEW u \in Reservers, NEW s \in Segments
          PROVE  Probed(u, s)'
      <3>1. u = t
        BY <2>4 DEF OneReserver
      <3>2. ~(s < i'[u])
        BY <2>1, <2>2, <3>1, SizesAssumption DEF Segments
      <3> QED  BY <2>2, <3>1, <3>2
    <2> QED  BY <1>a, <2>1, <2>3, <2>4
  <1>2. ASSUME NEW t \in Reservers, CheckInUse(t) \/ ExchangeBit(t)
        PROVE  PInv'
    <2>1. /\ pc[t] \in {"check", "exchange"}
          /\ UNCHANGED <<in_use, dpc, disturbed>>
          /\ \/ NextSegment(t)
             \/ i' = i /\ \E place \in {"exchange", "claim"} :
                             pc' = [pc EXCEPT ![t] = place]
      BY <1>2 DEF CheckInUse, ExchangeBit
    <2>2. \A u \in Reservers : Calls(u)'
      BY <1>0, <2>1 DEF Typed, NextSegment
    <2>3. ASSUME OneReserver, ~disturbed, NEW u \in Reservers, NEW s \in Segments
          PROVE  Probed(u, s)'
      <3>1. u = t
        BY <2>3 DEF OneReserver
      <3>2. Probed(t, s)
        BY <1>0, <2>3
      <3> SUFFICES ASSUME Free(s)',
                          \/ pc'[t] = "null"
                          \/ pc'[t] \in {"check", "exchange"} /\ s < i'[t]
                   PROVE  bitmap'[WordOf(s)] = {BitOf(s)}
        BY <3>1
      <3>3. Free(s)
        BY <2>1 DEF Free
      <3>4. s \in Int /\ i[t] \in Segments /\ i[t] \in Int
        BY WordAndBit DEF Typed
      <3>5. CASE CheckInUse(t)
        <4>1. bitmap' = bitmap
          BY <3>5 DEF CheckInUse
        <4>2. CASE in_use[i[t]]
          <5>1. NextSegment(t) /\ s # i[t]
            BY <3>3, <3>5, <4>2 DEF CheckInUse, Free
          <5>2. s < i[t]
            BY <2>1, <5>1, PassesProbed
          <5> QED  BY <2>1, <3>2, <3>3, <4>1, <5>2
        <4>3. CASE ~in_use[i[t]]
          <5>1. pc'[t] = "exchange" /\ i' = i
            BY <3>5, <4>3 DEF CheckInUse, Typed
          <5> QED  BY <2>1, <3>2, <3>3, <4>1, <5>1
        <4> QED  BY <4>2, <4>3
      <3>6. CASE ExchangeBit(t)
        <4>1. pc'[t] # "claim"
          OBVIOUS
        <4>2. /\ BitOf(i[t]) \in bitmap[WordOf(i[t])] /\ NextSegment(t)
              /\ bitmap' = [bitmap EXCEPT ![WordOf(i[t])] = {BitOf(i[t])}]
          BY <3>6, <4>1 DEF ExchangeBit, Typed
        <4>3. /\ WordOf(i[t]) \in Words /\ WordOf(s) \in Words
          BY <3>4, WordAndBit
        <4>4. CASE s = i[t]
          BY <4>2, <4>3, <4>4 DEF BitmapTyped
        <4>5. CASE s # i[t]
          <5>1. s < i[t]
            BY <2>1, <4>2, <4>5, PassesProbed
          <5>2. bitmap[WordOf(s)] = {BitOf(s)}
            BY <2>1, <3>2, <3>3, <5>1
          <5>3. WordOf(s) # WordOf(i[t])
            <6> SUFFICES ASSUME WordOf(s) = WordOf(i[t]) PROVE FALSE
              OBVIOUS
            <6>1. BitOf(s) = BitOf(i[t])
              BY <4>2, <5>2
            <6> QED  BY <3>4, <4>5, <6>1, SameWordAndBit
          <5> QED  BY <4>2, <4>3, <5>2, <5>3 DEF BitmapTyped
        <4> QED  BY <4>4, <4>5
      <3> QED  BY <1>2, <3>5, <3>6
    <2> QED  BY <1>0, <1>a, <2>1, <2>2, <2>3
  <1>3. ASSUME NEW t \in Reservers, Claim(t)
        PROVE  PInv'
    <2>1. /\ pc' = [pc EXCEPT ![t] = "idle"] /\ i' = [i EXCEPT ![t] = 0]
          /\ UNCHANGED <<bitmap, dpc, disturbed>>
      BY <1>3 DEF Claim
    <2>2. \A u \in Reservers : Calls(u)'
      BY <1>0, <2>1 DEF Typed
    <2>3. ASSUME OneReserver, NEW u \in Reservers PROVE pc'[u] = "idle"
      BY <2>1, <2>3 DEF OneReserver, Typed
    <2> QED  BY <1>0, <1>a, <2>1, <2>2, <2>3
  <1>4. ASSUME NEW t \in Reservers, ReturnNull(t)
        PROVE  PInv'
    <2>1. /\ pc[t] = "null" /\ pc' = [pc EXCEPT ![t] = "idle"] /\ i' = i
          /\ UNCHANGED <<bitmap, dpc, disturbed>>
      BY <1>4 DEF ReturnNull
    <2>2. \A u \in Reservers : Calls(u)'
      BY <1>0, <2>1 DEF Typed
    <2>3. ASSUME OneReserver, NEW u \in Reservers PROVE pc'[u] = "idle"
      BY <2>1, <2>3 DEF OneReserver, Typed
    <2> QED  BY <1>0, <1>a, <2>1, <2>2, <2>3
  <1>5. ASSUME NEW t \in Releasers, Release(t)
        PROVE  PInv'
    BY <1>0, <1>5 DEF Release, PInv
  <1>6. ASSUME NEW t \in Releasers, ClearInUse(t) \/ ReleaseBit(t)
        PROVE  PInv'
    <2>1. disturbed /\ disturbed' /\ UNCHANGED <<pc, i>>
      BY <1>0, <1>6 DEF ClearInUse, ReleaseBit, Typed
    <2> QED  BY <1>0, <2>1 DEF PInv
  <1>7. CASE UNCHANGED vars
    BY <1>7 DEF vars, PInv, Free
  <1> QED
    BY <1>1, <1>2, <1>3, <1>4, <1>5, <1>6, <1>7 DEF Next, ReserveCall,
       ReleaseCall

\* The pool of any size keeps its types: a reserver's index stays inside it and
\* a word never gets a bit it does not have.
THEOREM PoolTypeCorrect == Spec => []TypeOK
  <1>1. Init => Typed /\ BitmapTyped /\ disturbed \in BOOLEAN
    BY TypedInit DEF Init, BitmapTyped
  <1>2. Typed /\ BitmapTyped /\ disturbed \in BOOLEAN /\ [Next]_vars
           => (Typed /\ BitmapTyped /\ disturbed \in BOOLEAN)'
    <2>1. disturbed \in BOOLEAN /\ [Next]_vars => disturbed' \in BOOLEAN
      BY DEF Next, vars, Reserve, ReserveCall, CheckInUse, ExchangeBit, Claim,
             ReturnNull, Release, ReleaseCall, ClearInUse, ReleaseBit
    <2> QED  BY <2>1, TypedNext, BitmapNext
  <1>3. Typed /\ BitmapTyped /\ disturbed \in BOOLEAN => TypeOK
    BY DEF Typed, BitmapTyped, TypeOK
  <1> QED  BY <1>1, <1>2, <1>3, PTL DEF Spec

\* A lone reservation that no release overlaps and that finds nothing has
\* overlooked at most one free segment of each bitmap word.
THEOREM NullOverlooksFew == Spec => []OverlooksOnePerWord
  <1> DEFINE Inv == Typed /\ BitmapTyped /\ HInv /\ PInv
  <1>1. Init => Inv
    BY TypedInit, HInvInit, PInvInit DEF Init, BitmapTyped
  <1>2. Inv /\ [Next]_vars => Inv'
    BY TypedNext, BitmapNext, HInvNext, PInvNext
  <1>3. Inv => OverlooksOnePerWord
    <2> SUFFICES ASSUME PInv, NEW t \in Reservers, OneReserver, ~disturbed,
                        pc[t] = "null", NEW r \in Segments, NEW s \in Segments,
                        Free(r), Free(s), WordOf(r) = WordOf(s)
                 PROVE  r = s
      BY DEF OverlooksOnePerWord
    <2>1. bitmap[WordOf(r)] = {BitOf(r)} /\ bitmap[WordOf(s)] = {BitOf(s)}
      BY DEF PInv
    <2>2. BitOf(r) = BitOf(s)
      BY <2>1
    <2> QED  BY <2>2, SameWordAndBit
  <1> HIDE DEF Inv
  <1> QED  BY <1>1, <1>2, <1>3, PTL DEF Spec
=============================================================================
