--------------------------- MODULE OptionDeskProofs ---------------------------
(* Theorems about the option strategies, for every roster, chain, budget and *)
(* threshold: no snapshot is traded on both sides, and no spread loses more  *)
(* than it may.                                                              *)
EXTENDS OptionDesk, NumberTheorems, SequenceTheorems

---------------------------------------------------------------------------
(* The option desk: subscriber x of roster r has had the snapshot when it    *)
(* is subscriber t's turn (0: when all have had it).                         *)
ServedTo(r, t, x) == \E k \in 1 .. Len(r) : r[k] = x /\ (t = 0 \/ k < t)

(* A desk has subscribers, and no tracker is fed twice by the same one.      *)
Proper(r) ==
  /\ r # <<>>
  /\ \A j, k \in 1 .. Len(r) : r[j] = r[k] /\ r[j] \in Trackers => j = k

After(r, t) == (t + 1) % (Len(r) + 1)

Kinds == {"observe", "condor", "spread", "butterfly"}

LEMMA TurnWraps ==
  ASSUME NEW n \in Nat, NEW t \in 1 .. n
  PROVE  (t + 1) % (n + 1) = IF t = n THEN 0 ELSE t + 1
<1>1. CASE t = n
  BY <1>1
<1>2. CASE t # n
  BY <1>2
<1> QED
  BY <1>1, <1>2

LEMMA NextIsServed ==
  ASSUME NEW r \in Seq(Kinds), NEW t \in 1 .. Len(r)
  PROVE  /\ After(r, t) \in 0 .. Len(r)
         /\ \A x : ServedTo(r, After(r, t), x) <=> ServedTo(r, t, x) \/ x = r[t]
<1>1. After(r, t) = IF t = Len(r) THEN 0 ELSE t + 1
  BY TurnWraps DEF After
<1>2. Len(r) \in Nat /\ t \in Nat \ {0}
  OBVIOUS
<1>3. CASE t = Len(r)
  <2>1. \A k \in 1 .. Len(r) : k < t \/ k = t
    BY <1>2, <1>3
  <2> QED
    BY <1>1, <1>2, <1>3, <2>1 DEF ServedTo
<1>4. CASE t # Len(r)
  <2>1. After(r, t) = t + 1 /\ t + 1 \in 0 .. Len(r) /\ t + 1 # 0
    BY <1>1, <1>2, <1>4
  <2>2. \A k \in 1 .. Len(r) : k < t + 1 <=> k < t \/ k = t
    BY <1>2
  <2> QED
    BY <1>2, <2>1, <2>2 DEF ServedTo
<1> QED
  BY <1>3, <1>4

LEMMA ServedOnce ==
  ASSUME NEW r \in Seq(Kinds), Proper(r), NEW t \in 1 .. Len(r),
         r[t] \in Trackers
  PROVE  ~ServedTo(r, t, r[t])
BY DEF ServedTo, Proper

LEMMA NoneServedYet == \A r, x : ~ServedTo(r, 1, x)
BY DEF ServedTo

(* A rank is a number between the bounds of the series.                      *)
LEMMA SeriesBounds ==
  ASSUME NEW s \in Seq(Nat), s # <<>>
  PROVE  /\ Span(s) \in Int /\ Risen(s) \in Int
         /\ Span(s) = Max(ToSet(s)) - Min(ToSet(s))
         /\ Max(ToSet(s)) \in Int /\ Min(ToSet(s)) \in Int
<1>1. Len(s) \in Nat \ {0} /\ DOMAIN s = 1 .. Len(s)
  BY EmptySeq
<1>2. ToSet(s) = {s[i] : i \in 1 .. Len(s)}
  BY <1>1 DEF ToSet
<1>3. IsFiniteSet(ToSet(s))
  BY <1>1, <1>2, ValuesFinite
<1>4. \A i \in 1 .. Len(s) : s[i] \in Nat
  BY ElementOfSeq
<1>5. ToSet(s) \subseteq Nat /\ ToSet(s) # {}
  BY <1>1, <1>2, <1>4
<1>6. Max(ToSet(s)) \in Nat
  <2>1. ToSet(s) \subseteq Int
    BY <1>5
  <2> QED
    BY <1>3, <1>5, <2>1, GreatestMember
<1>7. Min(ToSet(s)) \in Nat
  <2>1. ToSet(s) \subseteq Int
    BY <1>5
  <2> QED
    BY <1>3, <1>5, <2>1, LeastMember
<1>8. Last(s) \in Nat
  BY <1>1, <1>4 DEF Last
<1> QED
  BY <1>6, <1>7, <1>8 DEF Span, Risen

LEMMA Squeezed ==
  ASSUME NEW a \in Nat, NEW b \in Nat, NEW span \in Int, NEW risen \in Int,
         a < b, span > 0, risen >= b * span, risen <= a * span
  PROVE  FALSE
<1>1. (b - a) * span > 0
  BY SMT
<1>2. (b - a) * span = b * span - a * span
  BY SMT
<1> QED
  BY <1>1, <1>2, SMT

LEMMA RichIsNotCheap ==
  ASSUME NEW s \in Seq(Nat), RankAtLeast(s, IvrMin)
  PROVE  ~RankAtMost(s, IvrMax)
<1>1. s # <<>> /\ Max(ToSet(s)) > Min(ToSet(s))
  BY DEF RankAtLeast, HasRank
<1>2. /\ Span(s) \in Int /\ Risen(s) \in Int
      /\ Span(s) = Max(ToSet(s)) - Min(ToSet(s))
      /\ Max(ToSet(s)) \in Int /\ Min(ToSet(s)) \in Int
  BY <1>1, SeriesBounds
<1>3. Span(s) > 0
  BY <1>1, <1>2
<1>4. IvrMin \in Nat /\ IvrMax \in Nat /\ IvrMax < IvrMin
  BY OptionDeskAssumption
<1>5. Risen(s) >= IvrMin * Span(s)
  BY DEF RankAtLeast
<1>6. ASSUME Risen(s) <= IvrMax * Span(s) PROVE FALSE
  BY <1>2, <1>3, <1>4, <1>5, <1>6, Squeezed
<1> QED
  BY <1>6 DEF RankAtMost

LEMMA ObservedIsSeries ==
  ASSUME NEW s \in Seq(Nat), NEW iv \in Nat
  PROVE  Observed(s, iv) \in Seq(Nat)
<1>1. Append(s, iv) \in Seq(Nat) /\ Append(s, iv) # <<>>
  BY AppendProperties
<1>2. Tail(Append(s, iv)) \in Seq(Nat)
  BY <1>1, HeadTailProperties
<1> QED
  BY <1>1, <1>2 DEF Observed

(* Until both have had the snapshot, the one that has is one IV ahead: of    *)
(* the condor's series C and the debit spread's S.                           *)
StepC(s, iv) == IF iv = None THEN s ELSE Observed(s, iv)
StepS(s, iv) == IF iv \in {None, 0} THEN s ELSE Observed(s, iv)

Alike(C, S, iv, doneC, doneS) ==
  /\ doneC <=> doneS => C = S
  /\ doneC /\ ~doneS => C = StepC(S, iv) /\ iv # 0
  /\ ~doneC /\ doneS => S = StepS(C, iv)

Listed(r) == ServedTo(r, 0, "condor") /\ ServedTo(r, 0, "spread")

DeskTypes ==
  /\ roster \in Seq(Kinds) /\ Proper(roster)
  /\ turn \in 0 .. Len(roster)
  /\ turn # 0 => snap \in Snaps
  /\ ivOf \in [Trackers -> Seq(Nat)]

FiredOnRank ==
  /\ fired \subseteq Kinds
  /\ "condor" \in fired =>
       /\ ServedTo(roster, turn, "condor")
       /\ RankAtLeast(ivOf["condor"], IvrMin)
  /\ "spread" \in fired =>
       /\ ServedTo(roster, turn, "spread")
       /\ RankAtMost(ivOf["spread"], IvrMax)

FedAlike ==
  Listed(roster) => Alike(ivOf["condor"], ivOf["spread"], snap.iv,
                          ServedTo(roster, turn, "condor"),
                          ServedTo(roster, turn, "spread"))

DeskInv == DeskTypes /\ (clean => FiredOnRank /\ FedAlike)

LEMMA ServedIsListed ==
  \A r, t, x : ServedTo(r, t, x) => ServedTo(r, 0, x)
BY DEF ServedTo

(* What a subscriber's turn leaves of the invariant's parts.                 *)
LEMMA TurnPasses ==
  ASSUME DeskTypes, NEW x, Awaited(x), NEW out, Returns(x, out)
  PROVE  /\ roster' = roster /\ snap' = snap /\ snap \in Snaps
         /\ turn' \in 0 .. Len(roster) /\ x \in Kinds
         /\ \A y : ServedTo(roster, turn', y) <=> ServedTo(roster, turn, y) \/ y = x
         /\ x \in Trackers => ~ServedTo(roster, turn, x)
         /\ fired' = IF out = <<>> THEN fired ELSE fired \cup {x}
<1>1. /\ roster \in Seq(Kinds) /\ Proper(roster) /\ turn \in 0 .. Len(roster)
      /\ turn # 0 => snap \in Snaps
  BY DEF DeskTypes
<1>2. turn # 0 /\ roster[turn] = x
  BY DEF Awaited
<1>3. turn \in 1 .. Len(roster) /\ x \in Kinds
  BY <1>1, <1>2, ElementOfSeq
<1>4. /\ turn' = After(roster, turn) /\ roster' = roster /\ snap' = snap
      /\ fired' = IF out = <<>> THEN fired ELSE fired \cup {x}
  BY DEF Returns, After
<1>5. /\ After(roster, turn) \in 0 .. Len(roster)
      /\ \A y : ServedTo(roster, After(roster, turn), y)
                  <=> ServedTo(roster, turn, y) \/ y = roster[turn]
  BY <1>1, <1>3, NextIsServed
<1>6. x \in Trackers => ~ServedTo(roster, turn, x)
  BY <1>1, <1>2, <1>3, ServedOnce
<1> QED
  BY <1>1, <1>2, <1>3, <1>4, <1>5, <1>6

LEMMA ObservePreserves ==
  ASSUME DeskInv, Observe
  PROVE  DeskInv'
<1>1. DeskTypes /\ Awaited("observe") /\ Returns("observe", <<>>)
  BY DEF DeskInv, Observe
<1>2. /\ roster' = roster /\ snap' = snap /\ snap \in Snaps
      /\ turn' \in 0 .. Len(roster)
      /\ \A y : ServedTo(roster, turn', y)
                  <=> ServedTo(roster, turn, y) \/ y = "observe"
      /\ fired' = fired
  BY <1>1, TurnPasses
<1>3. \/ ivOf' = ivOf /\ clean' = clean
      \/ /\ clean' = FALSE /\ snap.iv \notin {None, 0}
         /\ ivOf' = [ivOf EXCEPT !["condor"] = Observed(@, snap.iv)]
  BY DEF Observe
<1>4. ivOf' \in [Trackers -> Seq(Nat)]
  <2>1. ivOf \in [Trackers -> Seq(Nat)] /\ "condor" \in Trackers
    BY <1>1 DEF DeskTypes, Trackers
  <2>2. CASE snap.iv \notin {None, 0}
    <3>1. snap.iv \in Nat
      BY <1>2, <2>2, OptionDeskAssumption
    <3>2. Observed(ivOf["condor"], snap.iv) \in Seq(Nat)
      BY <2>1, <3>1, ObservedIsSeries
    <3> QED
      BY <1>3, <2>1, <3>2
  <2> QED
    BY <1>3, <2>1, <2>2
<1>5. DeskTypes'
  BY <1>1, <1>2, <1>4 DEF DeskTypes
<1>6. ASSUME clean' PROVE FiredOnRank' /\ FedAlike'
  <2>1. ivOf' = ivOf /\ clean
    BY <1>3, <1>6
  <2>2. FiredOnRank /\ FedAlike
    BY <2>1 DEF DeskInv
  <2>3. /\ ServedTo(roster', turn', "condor") <=> ServedTo(roster, turn, "condor")
        /\ ServedTo(roster', turn', "spread") <=> ServedTo(roster, turn, "spread")
    BY <1>2
  <2>4. FiredOnRank'
    BY <1>2, <2>1, <2>2, <2>3 DEF FiredOnRank
  <2>5. FedAlike'
    BY <1>2, <2>1, <2>2, <2>3 DEF FedAlike, Alike
  <2> QED
    BY <2>4, <2>5
<1> QED
  BY <1>5, <1>6 DEF DeskInv

LEMMA CondorPreserves ==
  ASSUME DeskInv, EvaluateCondor
  PROVE  DeskInv'
<1> DEFINE seen == StepC(ivOf["condor"], snap.iv)
<1>1. PICK out :
        /\ Awaited("condor") /\ Returns("condor", out) /\ DeskTypes
        /\ ivOf' = [ivOf EXCEPT !["condor"] = seen]
        /\ out # <<>> => RankAtLeast(seen, IvrMin)
        /\ clean' = (clean /\ snap.iv # 0)
  BY Zenon DEF EvaluateCondor, StepC, DeskInv
<1>2. /\ roster' = roster /\ snap' = snap /\ snap \in Snaps
      /\ turn' \in 0 .. Len(roster)
      /\ \A y : ServedTo(roster, turn', y)
                  <=> ServedTo(roster, turn, y) \/ y = "condor"
      /\ "condor" \in Trackers => ~ServedTo(roster, turn, "condor")
      /\ fired' = IF out = <<>> THEN fired ELSE fired \cup {"condor"}
  BY <1>1, TurnPasses
<1>3. ivOf \in [Trackers -> Seq(Nat)] /\ Trackers = {"condor", "spread"}
  BY <1>1 DEF DeskTypes, Trackers
<1>4. seen \in Seq(Nat)
  <2>1. CASE snap.iv = None
    BY <1>3, <2>1 DEF StepC
  <2>2. CASE snap.iv # None
    <3>1. snap.iv \in Nat
      BY <1>2, <2>2, OptionDeskAssumption
    <3> QED
      BY <1>3, <2>2, <3>1, ObservedIsSeries DEF StepC
  <2> QED
    BY <2>1, <2>2
<1> HIDE DEF seen
<1>5. /\ ivOf' \in [Trackers -> Seq(Nat)]
      /\ ivOf'["condor"] = seen /\ ivOf'["spread"] = ivOf["spread"]
  BY <1>1, <1>3, <1>4
<1>6. DeskTypes'
  BY <1>1, <1>2, <1>5 DEF DeskTypes
<1>7. ASSUME clean' PROVE FiredOnRank' /\ FedAlike'
  <2>1. clean /\ snap.iv # 0
    BY <1>1, <1>7
  <2>2. FiredOnRank /\ FedAlike
    BY <2>1 DEF DeskInv
  <2>3. /\ ServedTo(roster', turn', "condor") /\ ~ServedTo(roster, turn, "condor")
        /\ ServedTo(roster', turn', "spread") <=> ServedTo(roster, turn, "spread")
    BY <1>2, <1>3
  <2>4. FiredOnRank'
    BY <1>1, <1>2, <1>5, <2>2, <2>3 DEF FiredOnRank, Kinds
  <2>5. FedAlike'
    <3>1. ASSUME Listed(roster)
          PROVE  Alike(seen, ivOf["spread"], snap.iv, TRUE,
                       ServedTo(roster, turn, "spread"))
      <4>1. Alike(ivOf["condor"], ivOf["spread"], snap.iv, FALSE,
                  ServedTo(roster, turn, "spread"))
        BY <2>2, <2>3, <3>1 DEF FedAlike, Alike
      <4> QED
        BY <2>1, <4>1 DEF Alike, seen, StepC, StepS
    <3> QED
      BY <1>2, <1>5, <2>3, <3>1 DEF FedAlike, Alike
  <2> QED
    BY <2>4, <2>5
<1> QED
  BY <1>6, <1>7 DEF DeskInv

LEMMA SpreadPreserves ==
  ASSUME DeskInv, NEW bias, EvaluateSpread(bias)
  PROVE  DeskInv'
<1> DEFINE seen == StepS(ivOf["spread"], snap.iv)
<1>1. PICK out :
        /\ Awaited("spread") /\ Returns("spread", out) /\ DeskTypes
        /\ ivOf' = [ivOf EXCEPT !["spread"] = seen]
        /\ out # <<>> => RankAtMost(seen, IvrMax)
        /\ clean' = clean
  BY Zenon DEF EvaluateSpread, StepS, DeskInv
<1>2. /\ roster' = roster /\ snap' = snap /\ snap \in Snaps
      /\ turn' \in 0 .. Len(roster)
      /\ \A y : ServedTo(roster, turn', y)
                  <=> ServedTo(roster, turn, y) \/ y = "spread"
      /\ "spread" \in Trackers => ~ServedTo(roster, turn, "spread")
      /\ fired' = IF out = <<>> THEN fired ELSE fired \cup {"spread"}
  BY <1>1, TurnPasses
<1>3. ivOf \in [Trackers -> Seq(Nat)] /\ Trackers = {"condor", "spread"}
  BY <1>1 DEF DeskTypes, Trackers
<1>4. seen \in Seq(Nat)
  <2>1. CASE snap.iv \in {None, 0}
    BY <1>3, <2>1 DEF StepS
  <2>2. CASE snap.iv \notin {None, 0}
    <3>1. snap.iv \in Nat
      BY <1>2, <2>2, OptionDeskAssumption
    <3> QED
      BY <1>3, <2>2, <3>1, ObservedIsSeries DEF StepS
  <2> QED
    BY <2>1, <2>2
<1> HIDE DEF seen
<1>5. /\ ivOf' \in [Trackers -> Seq(Nat)]
      /\ ivOf'["spread"] = seen /\ ivOf'["condor"] = ivOf["condor"]
  BY <1>1, <1>3, <1>4
<1>6. DeskTypes'
  BY <1>1, <1>2, <1>5 DEF DeskTypes
<1>7. ASSUME clean' PROVE FiredOnRank' /\ FedAlike'
  <2>2. FiredOnRank /\ FedAlike
    BY <1>1, <1>7 DEF DeskInv
  <2>3. /\ ServedTo(roster', turn', "spread") /\ ~ServedTo(roster, turn, "spread")
        /\ ServedTo(roster', turn', "condor") <=> ServedTo(roster, turn, "condor")
    BY <1>2, <1>3
  <2>4. FiredOnRank'
    BY <1>1, <1>2, <1>5, <2>2, <2>3 DEF FiredOnRank, Kinds
  <2>5. FedAlike'
    <3>1. ASSUME Listed(roster)
          PROVE  Alike(ivOf["condor"], seen, snap.iv,
                       ServedTo(roster, turn, "condor"), TRUE)
      <4>1. Alike(ivOf["condor"], ivOf["spread"], snap.iv,
                  ServedTo(roster, turn, "condor"), FALSE)
        BY <2>2, <2>3, <3>1 DEF FedAlike, Alike
      <4> QED
        BY <4>1 DEF Alike, seen, StepC, StepS
    <3> QED
      BY <1>2, <1>5, <2>3, <3>1 DEF FedAlike, Alike
  <2> QED
    BY <2>4, <2>5
<1> QED
  BY <1>6, <1>7 DEF DeskInv

LEMMA ButterflyPreserves ==
  ASSUME DeskInv, EvaluateButterfly
  PROVE  DeskInv'
<1>1. PICK out :
        /\ Awaited("butterfly") /\ Returns("butterfly", out) /\ DeskTypes
        /\ ivOf' = ivOf /\ clean' = clean
  BY Zenon DEF EvaluateButterfly, DeskInv
<1>2. /\ roster' = roster /\ snap' = snap /\ snap \in Snaps
      /\ turn' \in 0 .. Len(roster)
      /\ \A y : ServedTo(roster, turn', y)
                  <=> ServedTo(roster, turn, y) \/ y = "butterfly"
      /\ fired' = IF out = <<>> THEN fired ELSE fired \cup {"butterfly"}
  BY <1>1, TurnPasses
<1>3. DeskTypes'
  BY <1>1, <1>2 DEF DeskTypes
<1>4. ASSUME clean' PROVE FiredOnRank' /\ FedAlike'
  <2>1. FiredOnRank /\ FedAlike
    BY <1>1, <1>4 DEF DeskInv
  <2>2. /\ ServedTo(roster', turn', "condor") <=> ServedTo(roster, turn, "condor")
        /\ ServedTo(roster', turn', "spread") <=> ServedTo(roster, turn, "spread")
    BY <1>2
  <2>3. FiredOnRank'
    BY <1>1, <1>2, <2>1, <2>2 DEF FiredOnRank, Kinds
  <2>4. FedAlike'
    BY <1>1, <1>2, <2>1, <2>2 DEF FedAlike, Alike
  <2> QED
    BY <2>3, <2>4
<1> QED
  BY <1>3, <1>4 DEF DeskInv

LEMMA DeskInvNext == DeskInv /\ [DeskNext]_deskVars => DeskInv'
<1> SUFFICES ASSUME DeskInv, [DeskNext]_deskVars PROVE DeskInv'
  OBVIOUS
<1>1. ASSUME NEW s \in Snaps, Publish(s) PROVE DeskInv'
  <2>1. /\ turn = 0 /\ turn' = 1 /\ snap' = s /\ fired' = {}
        /\ UNCHANGED <<roster, ivOf, clean>>
    BY <1>1 DEF Publish
  <2>2. DeskTypes'
    <3>1. roster \in Seq(Kinds) /\ roster # <<>>
      BY DEF DeskInv, DeskTypes, Proper
    <3>2. 1 \in 0 .. Len(roster)
      BY <3>1, EmptySeq
    <3> QED
      BY <2>1, <3>2 DEF DeskInv, DeskTypes
  <2>3. \A x : ~ServedTo(roster', turn', x)
    BY <2>1, NoneServedYet
  <2>4. FiredOnRank'
    BY <2>1 DEF FiredOnRank
  <2>5. ASSUME clean' PROVE FedAlike'
    <3>1. FedAlike
      BY <2>1, <2>5 DEF DeskInv
    <3> QED
      BY <2>1, <2>3, <3>1 DEF FedAlike, Alike, Listed
  <2> QED
    BY <2>2, <2>4, <2>5 DEF DeskInv
<1>2. CASE DeskRestart
  <2>1. /\ turn' = 0 /\ fired' = {} /\ roster' = roster
        /\ ivOf' = [s \in Trackers |-> <<>>]
    BY <1>2 DEF DeskRestart
  <2>2. /\ ivOf' \in [Trackers -> Seq(Nat)]
        /\ ivOf'["condor"] = ivOf'["spread"]
    BY <2>1, EmptySeq DEF Trackers
  <2>3. DeskTypes'
    BY <2>1, <2>2 DEF DeskInv, DeskTypes
  <2>4. FiredOnRank'
    BY <2>1 DEF FiredOnRank
  <2>5. FedAlike'
    BY <2>1, <2>2 DEF FedAlike, Alike, Listed
  <2> QED
    BY <2>3, <2>4, <2>5 DEF DeskInv
<1>3. CASE StoreFails \/ Accept \/ Decline \/ UNCHANGED deskVars
  <2>1. UNCHANGED <<snap, turn, roster, ivOf, fired, clean>>
    BY <1>3 DEF StoreFails, Accept, Decline, deskVars
  <2> QED
    BY <2>1 DEF DeskInv, DeskTypes, FiredOnRank, FedAlike, Alike
<1> QED
  BY <1>1, <1>2, <1>3, ObservePreserves, CondorPreserves, SpreadPreserves,
     ButterflyPreserves DEF DeskNext, Evaluate

(* With the trackers fed alike, in whatever order the two strategies are     *)
(* subscribed and whichever of their legs are refused, the desk never sells  *)
(* and buys volatility on one snapshot.                                      *)
THEOREM DeskNeverOnBothSides ==
  ASSUME \A r \in Rosters : Proper(r)
  PROVE  DeskSpec => []NeverBothSides
<1>1. DeskInit => DeskInv
  <2>1. SUFFICES ASSUME DeskInit PROVE DeskInv
    OBVIOUS
  <2>2. roster \in Seq(Kinds) /\ Proper(roster)
    BY <2>1, OptionDeskAssumption DEF DeskInit, Kinds
  <2>3. turn = 0 /\ 0 \in 0 .. Len(roster) /\ fired = {}
    BY <2>1, <2>2 DEF DeskInit
  <2>4. /\ ivOf \in [Trackers -> Seq(Nat)]
        /\ ivOf["condor"] = ivOf["spread"]
    BY <2>1, EmptySeq DEF DeskInit, Trackers
  <2> QED
    BY <2>2, <2>3, <2>4
    DEF DeskInv, DeskTypes, FiredOnRank, FedAlike, Alike, Listed
<1>2. DeskInv => NeverBothSides
  <2>1. SUFFICES ASSUME DeskInv, clean, {"condor", "spread"} \subseteq fired
                 PROVE  FALSE
    BY DEF NeverBothSides
  <2>2. /\ ServedTo(roster, turn, "condor") /\ ServedTo(roster, turn, "spread")
        /\ RankAtLeast(ivOf["condor"], IvrMin)
        /\ RankAtMost(ivOf["spread"], IvrMax)
    BY <2>1 DEF DeskInv, FiredOnRank
  <2>3. ivOf["condor"] = ivOf["spread"]
    BY <2>1, <2>2, ServedIsListed DEF DeskInv, FedAlike, Listed, Alike
  <2>4. ivOf["condor"] \in Seq(Nat)
    BY <2>1 DEF DeskInv, DeskTypes, Trackers
  <2> QED
    BY <2>2, <2>3, <2>4, RichIsNotCheap
<1> QED
  BY <1>1, <1>2, DeskInvNext, PTL DEF DeskSpec

-----------------------------------------------------------------------------
(* A quote of a chain, and what a leg of it is worth at settlement.          *)
QuoteType == [type : {"CE", "PE"}, strike : Nat, ltp : Nat, oi : Nat, delta : Int]
LegType   == [type : {"CE", "PE"}, strike : Nat, qty : Int, price : Nat, delta : Int]

Excess(x) == IF x > 0 THEN x ELSE 0
Inner(l, price) == IF l.type = "CE" THEN Excess(price - l.strike)
                                    ELSE Excess(l.strike - price)

LEMMA ExcessIsMax == ASSUME NEW x \in Int PROVE Max({0, x}) = Excess(x)
<1>1. 0 \in Int
  OBVIOUS
<1>2. Max({0, x}) \in {0, x} /\ 0 <= Max({0, x}) /\ x <= Max({0, x})
  BY <1>1, GreaterOfTwo
<1> QED
  BY <1>2 DEF Excess

LEMMA LegSettles ==
  ASSUME NEW l \in LegType, NEW price \in Int
  PROVE  Settles(l, price) = l.qty * (Inner(l, price) - l.price)
<1>1. l.strike \in Int
  BY DEF LegType
<1>2. Max({0, price - l.strike}) = Excess(price - l.strike)
      /\ Max({0, l.strike - price}) = Excess(l.strike - price)
  BY <1>1, ExcessIsMax
<1>3. CASE l.type = "CE"
  BY <1>2, <1>3 DEF Settles, Inner
<1>4. CASE l.type # "CE"
  BY <1>2, <1>4 DEF Settles, Inner
<1> QED
  BY <1>3, <1>4

LEMMA LegOf ==
  ASSUME NEW q \in QuoteType, NEW n \in Int
  PROVE  /\ Leg(q, n) \in LegType
         /\ Leg(q, n).type = q.type /\ Leg(q, n).strike = q.strike
         /\ Leg(q, n).qty = n /\ Leg(q, n).price = q.ltp
BY DEF QuoteType, LegType, Leg

(* Strikes of a chain, and the first ones beyond a target.                   *)
Chain(Q) == IsFiniteSet(Q) /\ Q # {} /\ \A q \in Q : q \in QuoteType

LEMMA StrikesOf ==
  ASSUME NEW Q, Chain(Q), NEW K, K # {}, K \subseteq {q.strike : q \in Q}
  PROVE  /\ Max(K) \in K /\ \A k \in K : k <= Max(K)
         /\ Min(K) \in K /\ \A k \in K : Min(K) <= k
<1> DEFINE g == [q \in Q |-> q.strike]
           V == {g[q] : q \in Q}
<1>1. V = {q.strike : q \in Q} /\ V \in SUBSET Int
  BY DEF Chain, QuoteType
<1>2. IsFiniteSet(V)
  <2> HIDE DEF g
  <2> QED
    BY ImageFinite DEF Chain
<1>3. IsFiniteSet(K) /\ K \in SUBSET Int
  BY <1>1, <1>2, FS_Subset
<1> QED
  BY <1>3, GreatestMember, LeastMember

LEMMA AboveIs ==
  ASSUME NEW Q, Chain(Q), NEW f \in Int
  PROVE  LET q == FirstAbove(Q, f)
         IN  /\ q \in Q
             /\ \/ /\ 5 * q.strike >= f
                   /\ \A r \in Q : 5 * r.strike >= f => q.strike <= r.strike
                \/ (\A r \in Q : r.strike <= q.strike) /\ ~\E r \in Q : 5 * r.strike >= f
<1> DEFINE beyond == {q.strike : q \in {r \in Q : 5 * r.strike >= f}}
           all    == {q.strike : q \in Q}
           k      == IF beyond # {} THEN Min(beyond) ELSE Max(all)
<1>1. FirstAbove(Q, f) = CHOOSE q \in Q : q.strike = k
  BY Zenon DEF FirstAbove
<1>2. all # {} /\ beyond \subseteq all
  BY DEF Chain
<1>3. Max(all) \in all /\ \A x \in all : x <= Max(all)
  BY <1>2, StrikesOf
<1>4. beyond # {} => Min(beyond) \in beyond /\ \A x \in beyond : Min(beyond) <= x
  BY <1>2, StrikesOf
<1>5. k \in all
  BY <1>2, <1>3, <1>4
<1> HIDE DEF k
<1>6. FirstAbove(Q, f) \in Q /\ FirstAbove(Q, f).strike = k
  BY <1>1, <1>5
<1>7. CASE beyond # {}
  BY <1>4, <1>6, <1>7 DEF k
<1>8. CASE beyond = {}
  BY <1>3, <1>6, <1>8 DEF k
<1> QED
  BY <1>7, <1>8

LEMMA BelowIs ==
  ASSUME NEW Q, Chain(Q), NEW f \in Int
  PROVE  LET q == FirstBelow(Q, f)
         IN  /\ q \in Q
             /\ \/ /\ 5 * q.strike <= f
                   /\ \A r \in Q : 5 * r.strike <= f => r.strike <= q.strike
                \/ (\A r \in Q : q.strike <= r.strike) /\ ~\E r \in Q : 5 * r.strike <= f
<1> DEFINE beyond == {q.strike : q \in {r \in Q : 5 * r.strike <= f}}
           all    == {q.strike : q \in Q}
           k      == IF beyond # {} THEN Max(beyond) ELSE Min(all)
<1>1. FirstBelow(Q, f) = CHOOSE q \in Q : q.strike = k
  BY Zenon DEF FirstBelow
<1>2. all # {} /\ beyond \subseteq all
  BY DEF Chain
<1>3. Min(all) \in all /\ \A x \in all : Min(all) <= x
  BY <1>2, StrikesOf
<1>4. beyond # {} => Max(beyond) \in beyond /\ \A x \in beyond : x <= Max(beyond)
  BY <1>2, StrikesOf
<1>5. k \in all
  BY <1>2, <1>3, <1>4
<1> HIDE DEF k
<1>6. FirstBelow(Q, f) \in Q /\ FirstBelow(Q, f).strike = k
  BY <1>1, <1>5
<1>7. CASE beyond # {}
  BY <1>4, <1>6, <1>7 DEF k
<1>8. CASE beyond = {}
  BY <1>3, <1>6, <1>8 DEF k
<1> QED
  BY <1>7, <1>8

(* The closest strike exists, and does not fall as the target rises.         *)
IsClosest(Q, q, t) ==
  \A r \in Q : \/ Size(q.strike - t) < Size(r.strike - t)
               \/ /\ Size(q.strike - t) = Size(r.strike - t)
                  /\ q.strike <= r.strike

LEMMA ClosestIs ==
  ASSUME NEW Q, Chain(Q), NEW t \in Int
  PROVE  ClosestTo(Q, t) \in Q /\ IsClosest(Q, ClosestTo(Q, t), t)
<1>1. ClosestTo(Q, t) = CHOOSE q \in Q : IsClosest(Q, q, t)
  BY Zenon DEF ClosestTo, IsClosest
<1>2. \A q \in Q : q.strike \in Nat
  BY DEF Chain, QuoteType
<1> DEFINE D == {n \in Nat : \E q \in Q : n = Size(q.strike - t)}
<1>3. \A q \in Q : Size(q.strike - t) \in D
  BY <1>2 DEF Size
<1>4. PICK d \in D : \A n \in D : d <= n
  <2>1. D \in SUBSET Nat /\ D # {}
    BY <1>3 DEF Chain
  <2> HIDE DEF D
  <2> QED
    BY <2>1, SmallestNumber
<1> DEFINE K == {k \in Nat : \E q \in Q : k = q.strike /\ Size(q.strike - t) = d}
<1>5. PICK k \in K : \A n \in K : k <= n
  <2>1. K \in SUBSET Nat /\ K # {}
    BY <1>2, <1>4
  <2> HIDE DEF K
  <2> QED
    BY <2>1, SmallestNumber
<1>6. PICK q \in Q : k = q.strike /\ Size(q.strike - t) = d
  BY <1>5
<1>7. ASSUME NEW r \in Q
      PROVE  \/ Size(q.strike - t) < Size(r.strike - t)
             \/ /\ Size(q.strike - t) = Size(r.strike - t)
                /\ q.strike <= r.strike
  <2>1. Size(r.strike - t) \in D /\ d <= Size(r.strike - t)
    BY <1>3, <1>4
  <2>2. CASE Size(r.strike - t) = d
    <3>1. r.strike \in K
      BY <1>2, <2>2
    <3> QED
      BY <1>5, <1>6, <2>2, <3>1
  <2>3. CASE Size(r.strike - t) # d
    BY <1>4, <1>6, <2>1, <2>3
  <2> QED
    BY <2>2, <2>3
<1>8. IsClosest(Q, q, t)
  BY <1>7 DEF IsClosest
<1> QED
  BY <1>1, <1>8, Zenon

LEMMA ClosestRises ==
  ASSUME NEW Q, Chain(Q), NEW t \in Int, NEW u \in Int, t <= u
  PROVE  ClosestTo(Q, t).strike <= ClosestTo(Q, u).strike
<1> DEFINE a == ClosestTo(Q, t)
           b == ClosestTo(Q, u)
<1>1. a \in Q /\ b \in Q /\ IsClosest(Q, a, t) /\ IsClosest(Q, b, u)
  BY ClosestIs
<1> HIDE DEF a, b
<1>2. a.strike \in Int /\ b.strike \in Int
  BY <1>1 DEF Chain, QuoteType
<1>3. /\ Size(a.strike - t) <= Size(b.strike - t)
      /\ Size(b.strike - u) <= Size(a.strike - u)
      /\ \/ Size(a.strike - t) < Size(b.strike - t)
         \/ a.strike <= b.strike
      /\ \/ Size(b.strike - u) < Size(a.strike - u)
         \/ b.strike <= a.strike
  BY <1>1, <1>2 DEF IsClosest, Size
<1>4. a.strike <= b.strike
  BY <1>2, <1>3 DEF Size
<1> QED
  BY <1>4 DEF a, b

-----------------------------------------------------------------------------
(* What a list of legs is worth at settlement, and that it loses at most the *)
(* budget; for a butterfly, if its upper wing is no wider than the lower.    *)
Payoff(out, price) ==
  SumFunctionOnSet([n \in DOMAIN out |-> Settles(out[n], price)], DOMAIN out)
Narrow(kind, out) ==
  kind = "butterfly" =>
    out[3].strike - out[2].strike <= out[2].strike - out[1].strike
SafeLegs(kind, out) ==
  /\ out \in Seq(LegType) /\ out # <<>> /\ Len(out) \in {2, 3, 4}
  /\ Narrow(kind, out) => \A price \in Int : Payoff(out, price) >= -Budget

LEMMA PayoffIs ==
  ASSUME NEW out \in Seq(LegType), NEW price \in Int,
         NEW f, f = [n \in 1 .. Len(out) |->
                       out[n].qty * (Inner(out[n], price) - out[n].price)]
  PROVE  /\ Payoff(out, price) = SumFunctionOnSet(f, 1 .. Len(out))
         /\ \A n \in 1 .. Len(out) : f[n] \in Int
<1>1. \A n \in 1 .. Len(out) : out[n] \in LegType
  OBVIOUS
<1>2. \A n \in 1 .. Len(out) : Settles(out[n], price) = f[n]
  BY <1>1, LegSettles
<1>3. [n \in 1 .. Len(out) |-> Settles(out[n], price)] = f
  BY <1>2
<1>4. DOMAIN out = 1 .. Len(out)
  OBVIOUS
<1>5. Payoff(out, price) = SumFunctionOnSet(f, 1 .. Len(out))
  BY <1>3, <1>4 DEF Payoff
<1>6. \A n \in 1 .. Len(out) : f[n] \in Int
  <2> TAKE n \in 1 .. Len(out)
  <2>1. /\ out[n].qty \in Int /\ out[n].price \in Int
        /\ Inner(out[n], price) \in Int
    BY <1>1, SMTT(30) DEF LegType, Inner, Excess
  <2> QED
    BY <2>1
<1> QED
  BY <1>5, <1>6

(* Sums of two, three and four.                                              *)
LEMMA SumOfFew ==
  ASSUME NEW f, NEW n \in {2, 3, 4}, \A i \in 1 .. n : f[i] \in Int
  PROVE  SumFunctionOnSet(f, 1 .. n) =
           f[1] + f[2] + (IF n > 2 THEN f[3] ELSE 0) + (IF n > 3 THEN f[4] ELSE 0)
<1> DEFINE S(k) == SumFunctionOnSet(f, 1 .. k)
<1>1. S(0) = 0
  <2>1. 1 .. 0 = {}
    OBVIOUS
  <2> QED
    BY <2>1, SumOfNothing
<1>2. ASSUME NEW k \in 0 .. 3, k + 1 <= n
      PROVE  S(k + 1) = S(k) + f[k + 1]
  <2>1. /\ 1 .. k + 1 = (1 .. k) \cup {k + 1} /\ k + 1 \notin 1 .. k
        /\ \A x \in (1 .. k) \cup {k + 1} : f[x] \in Int
    BY <1>2
  <2>2. IsFiniteSet(1 .. k)
    BY FS_Interval
  <2>3. SumFunctionOnSet(f, (1 .. k) \cup {k + 1}) =
          SumFunctionOnSet(f, 1 .. k) + f[k + 1]
    BY <2>1, <2>2, SumAdds
  <2> QED
    BY <2>1, <2>3
<1> HIDE DEF S
<1>3. S(1) = S(0) + f[1] /\ S(2) = S(1) + f[2]
  <2>1. S(0 + 1) = S(0) + f[0 + 1] /\ S(1 + 1) = S(1) + f[1 + 1]
    BY <1>2
  <2> QED
    BY <2>1
<1>4. n > 2 => S(3) = S(2) + f[3]
  <2>1. n > 2 => S(2 + 1) = S(2) + f[2 + 1]
    BY <1>2
  <2> QED
    BY <2>1
<1>5. n > 3 => S(4) = S(3) + f[4]
  <2>1. n > 3 => S(3 + 1) = S(3) + f[3 + 1]
    BY <1>2
  <2> QED
    BY <2>1
<1>6. /\ f[1] \in Int /\ f[2] \in Int
      /\ n > 2 => f[3] \in Int
      /\ n > 3 => f[4] \in Int
  OBVIOUS
<1>7. S(n) = f[1] + f[2] + (IF n > 2 THEN f[3] ELSE 0) + (IF n > 3 THEN f[4] ELSE 0)
  BY <1>1, <1>3, <1>4, <1>5, <1>6
<1> QED
  BY <1>7 DEF S

(* A number of lots whose worst losses fit the budget.                       *)
LEMMA LotsFit ==
  ASSUME NEW budget \in Nat, NEW loss \in Int, loss > 0
  PROVE  /\ budget \div loss \in Nat
         /\ \A gain \in Int : gain >= -loss => (budget \div loss) * gain >= -budget
<1> DEFINE n == budget \div loss
<1>1. /\ n \in Int /\ budget % loss \in Nat /\ budget % loss < loss
      /\ budget = loss * n + (budget % loss)
  BY Division DEF Positive
<1> HIDE DEF n
<1>2. n >= 0
  <2>1. SUFFICES ASSUME n <= -1 PROVE FALSE
    BY <1>1
  <2>2. loss * n <= loss * (-1)
    BY <1>1, <2>1
  <2> QED
    BY <1>1, <2>2
<1>3. ASSUME NEW gain \in Int, gain >= -loss
      PROVE  n * gain >= -budget
  <2>1. n * gain >= n * (-loss)
    BY <1>1, <1>2, <1>3
  <2>2. n * (-loss) = -(loss * n)
    BY <1>1
  <2> QED
    BY <1>1, <1>2, <1>3, <2>1, <2>2
<1> QED
  BY <1>1, <1>2, <1>3 DEF n

LEMMA ChainsOf ==
  ASSUME OptionDeskAssumption, NEW s \in Snaps
  PROVE  /\ s.spot \in Nat /\ s.move \in Nat
         /\ Calls(s) # {} => Chain(Calls(s))
         /\ Puts(s) # {} => Chain(Puts(s))
         /\ s.quotes # {} => Chain(s.quotes)
<1>1. s.spot \in Nat /\ s.move \in Nat /\ IsFiniteSet(s.quotes)
  BY DEF OptionDeskAssumption
<1>2. \A q \in s.quotes : q \in QuoteType
  BY DEF OptionDeskAssumption, QuoteType
<1>3. IsFiniteSet(Calls(s)) /\ IsFiniteSet(Puts(s))
  BY <1>1, FS_Subset DEF Calls, Puts
<1> QED
  BY <1>1, <1>2, <1>3 DEF Chain, Calls, Puts

LEMMA QuoteIs ==
  ASSUME NEW q \in QuoteType
  PROVE  q.strike \in Nat /\ q.ltp \in Nat /\ q.type \in {"CE", "PE"}
BY DEF QuoteType

-----------------------------------------------------------------------------
(* The wings of a condor lie beyond its short strikes, and its short strikes *)
(* cross only where a side has no wing at all.                               *)
WingsFit(C, P, sc, lc, sp, lp) ==
  /\ sc \in C /\ lc \in C /\ sp \in P /\ lp \in P
  /\ sc.strike <= lc.strike /\ lp.strike <= sp.strike
  /\ \/ sp.strike <= sc.strike
     \/ sc.strike = lc.strike
     \/ sp.strike = lp.strike

LEMMA Wings ==
  ASSUME NEW C, Chain(C), NEW P, Chain(P), NEW spot \in Nat, NEW move \in Nat
  PROVE  WingsFit(C, P, FirstAbove(C, 5 * spot + 6 * move),
                        FirstAbove(C, 5 * spot + 10 * move),
                        FirstBelow(P, 5 * spot - 6 * move),
                        FirstBelow(P, 5 * spot - 10 * move))
<1> DEFINE sc == FirstAbove(C, 5 * spot + 6 * move)
           lc == FirstAbove(C, 5 * spot + 10 * move)
           sp == FirstBelow(P, 5 * spot - 6 * move)
           lp == FirstBelow(P, 5 * spot - 10 * move)
           a == 5 * spot + 6 * move
           b == 5 * spot + 10 * move
           c == 5 * spot - 6 * move
           d == 5 * spot - 10 * move
<1>1. a \in Int /\ b \in Int /\ c \in Int /\ d \in Int /\ a <= b /\ d <= c /\ c <= a
  OBVIOUS
<1>2. /\ sc \in C
      /\ \/ /\ 5 * sc.strike >= a
            /\ \A r \in C : 5 * r.strike >= a => sc.strike <= r.strike
         \/ (\A r \in C : r.strike <= sc.strike) /\ ~\E r \in C : 5 * r.strike >= a
  BY <1>1, AboveIs
<1>3. /\ lc \in C
      /\ \/ /\ 5 * lc.strike >= b
            /\ \A r \in C : 5 * r.strike >= b => lc.strike <= r.strike
         \/ (\A r \in C : r.strike <= lc.strike) /\ ~\E r \in C : 5 * r.strike >= b
  BY <1>1, AboveIs
<1>4. /\ sp \in P
      /\ \/ /\ 5 * sp.strike <= c
            /\ \A r \in P : 5 * r.strike <= c => r.strike <= sp.strike
         \/ (\A r \in P : sp.strike <= r.strike) /\ ~\E r \in P : 5 * r.strike <= c
  BY <1>1, BelowIs
<1>5. /\ lp \in P
      /\ \/ /\ 5 * lp.strike <= d
            /\ \A r \in P : 5 * r.strike <= d => r.strike <= lp.strike
         \/ (\A r \in P : lp.strike <= r.strike) /\ ~\E r \in P : 5 * r.strike <= d
  BY <1>1, BelowIs
<1> HIDE DEF sc, lc, sp, lp, a, b, c, d
<1>6. /\ \A q \in C : q.strike \in Int
      /\ \A q \in P : q.strike \in Int
  BY DEF Chain, QuoteType
<1>7. /\ sc.strike \in Int /\ lc.strike \in Int
      /\ sp.strike \in Int /\ lp.strike \in Int
  BY <1>2, <1>3, <1>4, <1>5, <1>6
<1>8. sc.strike <= lc.strike
  BY <1>1, <1>2, <1>3, <1>7
<1>9. lp.strike <= sp.strike
  BY <1>1, <1>4, <1>5, <1>7
<1>10. 5 * sc.strike >= a \/ sc.strike = lc.strike
  BY <1>1, <1>2, <1>3, <1>7
<1>11. 5 * sp.strike <= c \/ sp.strike = lp.strike
  BY <1>1, <1>4, <1>5, <1>7
<1>12. sp.strike <= sc.strike \/ sc.strike = lc.strike \/ sp.strike = lp.strike
  BY <1>1, <1>7, <1>10, <1>11
<1> QED
  <2>1. WingsFit(C, P, sc, lc, sp, lp)
    BY <1>2, <1>3, <1>4, <1>5, <1>8, <1>9, <1>12 DEF WingsFit
  <2> QED
    BY <2>1, Zenon DEF sc, lc, sp, lp, a, b, c, d

LEMMA CondorLoses ==
  ASSUME NEW a \in Int, NEW b \in Int, NEW c \in Int, NEW d \in Int, NEW x \in Int,
         NEW w \in Int, a <= b, d <= c, c <= a \/ a = b \/ c = d,
         b - a <= w, c - d <= w
  PROVE  Excess(x - a) - Excess(x - b) + Excess(c - x) - Excess(d - x) <= w
BY DEF Excess

LEMMA FourLots ==
  ASSUME NEW n \in Int, NEW a \in Int, NEW b \in Int, NEW c \in Int, NEW d \in Int
  PROVE  (-n) * a + n * b + (-n) * c + n * d = n * (b + d - a - c)
OBVIOUS

LEMMA ExcessType == \A x \in Int : Excess(x) \in Int
BY DEF Excess

LEMMA CondorSafe ==
  ASSUME OptionDeskAssumption, NEW s \in Snaps
  PROVE  Condor(s) = <<>> \/ SafeLegs("condor", Condor(s))
<1> DEFINE sc == FirstAbove(Calls(s), 5 * s.spot + 6 * s.move)
           lc == FirstAbove(Calls(s), 5 * s.spot + 10 * s.move)
           sp == FirstBelow(Puts(s), 5 * s.spot - 6 * s.move)
           lp == FirstBelow(Puts(s), 5 * s.spot - 10 * s.move)
           credit == sc.ltp - lc.ltp + sp.ltp - lp.ltp
           width == Max({lc.strike - sc.strike, sp.strike - lp.strike})
           loss == width - credit
           lots == Budget \div loss
           out == <<Leg(sc, -lots), Leg(lc, lots), Leg(sp, -lots), Leg(lp, lots)>>
<1>1. SUFFICES ASSUME Condor(s) # <<>> PROVE SafeLegs("condor", Condor(s))
  BY SMTT(30)
<1>2. /\ Calls(s) # {} /\ Puts(s) # {} /\ ~(loss <= 0) /\ Condor(s) = out
  BY <1>1 DEF Condor
<1>3. /\ Chain(Calls(s)) /\ Chain(Puts(s)) /\ s.spot \in Nat /\ s.move \in Nat
      /\ Budget \in Nat
  BY <1>2, ChainsOf DEF OptionDeskAssumption
<1>4. /\ sc \in Calls(s) /\ lc \in Calls(s) /\ sp \in Puts(s) /\ lp \in Puts(s)
      /\ sc.strike <= lc.strike /\ lp.strike <= sp.strike
      /\ \/ sp.strike <= sc.strike
         \/ sc.strike = lc.strike
         \/ sp.strike = lp.strike
  <2>1. WingsFit(Calls(s), Puts(s), sc, lc, sp, lp)
    BY <1>3, Wings, Zenon
  <2> HIDE DEF sc, lc, sp, lp
  <2> QED
    BY <2>1 DEF WingsFit
<1> HIDE DEF sc, lc, sp, lp
<1>5. /\ sc \in QuoteType /\ lc \in QuoteType /\ sp \in QuoteType /\ lp \in QuoteType
      /\ sc.type = "CE" /\ lc.type = "CE" /\ sp.type = "PE" /\ lp.type = "PE"
  BY <1>3, <1>4, Zenon DEF Chain, Calls, Puts
<1>6. /\ sc.strike \in Int /\ lc.strike \in Int /\ sp.strike \in Int
      /\ lp.strike \in Int
      /\ sc.ltp \in Int /\ lc.ltp \in Int /\ sp.ltp \in Int /\ lp.ltp \in Int
  BY <1>5, QuoteIs
<1>7. /\ width \in Int /\ lc.strike - sc.strike <= width
      /\ sp.strike - lp.strike <= width
  <2> DEFINE w == lc.strike - sc.strike
             v == sp.strike - lp.strike
  <2>1. w \in Int /\ v \in Int
    BY <1>6
  <2> HIDE DEF w, v
  <2>2. Max({w, v}) \in Int /\ w <= Max({w, v}) /\ v <= Max({w, v})
    BY <2>1, GreaterOfTwo
  <2> QED
    BY <2>2, Zenon DEF w, v
<1> HIDE DEF width
<1>a. credit \in Int
  BY <1>6
<1> HIDE DEF credit
<1>b. loss \in Int
  BY <1>7, <1>a
<1>c. ~(loss <= 0)
  BY <1>2
<1> HIDE DEF loss
<1>8. loss > 0
  BY <1>b, <1>c
<1>9. lots \in Int /\ \A g \in Int : g >= -loss => lots * g >= -Budget
  BY <1>3, <1>8, <1>b, LotsFit
<1> HIDE DEF lots
<1>10. ASSUME NEW n \in Int, NEW q \in {sc, lc, sp, lp}
       PROVE  /\ Leg(q, n) \in LegType /\ Leg(q, n).qty = n
              /\ Leg(q, n).type = q.type /\ Leg(q, n).strike = q.strike
              /\ Leg(q, n).price = q.ltp
  BY <1>5, LegOf
<1>11. out \in Seq(LegType) /\ out # <<>> /\ Len(out) = 4
  BY <1>9, <1>10
<1>12. ASSUME NEW price \in Int PROVE Payoff(out, price) >= -Budget
  <2> DEFINE f == [n \in 1 .. Len(out) |->
                     out[n].qty * (Inner(out[n], price) - out[n].price)]
             A == Excess(price - sc.strike)
             B == Excess(price - lc.strike)
             P == Excess(sp.strike - price)
             R == Excess(lp.strike - price)
             g == (B - lc.ltp) + (R - lp.ltp) - (A - sc.ltp) - (P - sp.ltp)
  <2>1. /\ out[1] = Leg(sc, -lots) /\ out[2] = Leg(lc, lots)
        /\ out[3] = Leg(sp, -lots) /\ out[4] = Leg(lp, lots)
    OBVIOUS
  <2>2. /\ f[1] = (-lots) * (A - sc.ltp) /\ f[2] = lots * (B - lc.ltp)
        /\ f[3] = (-lots) * (P - sp.ltp) /\ f[4] = lots * (R - lp.ltp)
    <3>1. -lots \in Int
      BY <1>9
    <3>2. /\ Inner(out[1], price) = A /\ Inner(out[2], price) = B
          /\ Inner(out[3], price) = P /\ Inner(out[4], price) = R
      BY <1>5, <1>9, <1>10, <2>1, <3>1 DEF Inner
    <3>3. /\ f[1] = (-lots) * (Inner(out[1], price) - sc.ltp)
          /\ f[2] = lots * (Inner(out[2], price) - lc.ltp)
          /\ f[3] = (-lots) * (Inner(out[3], price) - sp.ltp)
          /\ f[4] = lots * (Inner(out[4], price) - lp.ltp)
      BY <1>9, <1>10, <1>11, <2>1, <3>1
    <3> QED
      BY <3>2, <3>3
  <2>3. /\ Payoff(out, price) = SumFunctionOnSet(f, 1 .. Len(out))
        /\ \A n \in 1 .. Len(out) : f[n] \in Int
    BY <1>11, PayoffIs
  <2> HIDE DEF f
  <2>4. SumFunctionOnSet(f, 1 .. 4) = f[1] + f[2] + f[3] + f[4]
    <3>1. 4 \in {2, 3, 4} /\ \A i \in 1 .. 4 : f[i] \in Int
      BY <1>11, <2>3
    <3>2. SumFunctionOnSet(f, 1 .. 4) =
            f[1] + f[2] + (IF 4 > 2 THEN f[3] ELSE 0) + (IF 4 > 3 THEN f[4] ELSE 0)
      BY <3>1, SumOfFew
    <3> QED
      BY <3>2
  <2>5. A \in Int /\ B \in Int /\ P \in Int /\ R \in Int
    <3>1. /\ price - sc.strike \in Int /\ price - lc.strike \in Int
          /\ sp.strike - price \in Int /\ lp.strike - price \in Int
      BY <1>6, <1>12
    <3> QED
      BY <3>1, ExcessType, Zenon
  <2>6. A - B + P - R <= width
    <3> DEFINE a == sc.strike
               b == lc.strike
               c == sp.strike
               d == lp.strike
    <3>3. /\ a \in Int /\ b \in Int /\ c \in Int /\ d \in Int
          /\ width \in Int /\ a <= b /\ d <= c /\ b - a <= width /\ c - d <= width
          /\ c <= a \/ a = b \/ c = d
      BY <1>4, <1>6, <1>7
    <3> HIDE DEF a, b, c, d
    <3>4. Excess(price - a) - Excess(price - b) + Excess(c - price)
            - Excess(d - price) <= width
      BY <3>3, CondorLoses
    <3> QED
      BY <3>4, Zenon DEF a, b, c, d
  <2> HIDE DEF A, B, P, R
  <2>7. f[1] + f[2] + f[3] + f[4] = lots * g
    <3>1. /\ A - sc.ltp \in Int /\ B - lc.ltp \in Int
          /\ P - sp.ltp \in Int /\ R - lp.ltp \in Int
      BY <1>6, <2>5, SMTT(30)
    <3> DEFINE a == A - sc.ltp
               b == B - lc.ltp
               c == P - sp.ltp
               d == R - lp.ltp
    <3>2. a \in Int /\ b \in Int /\ c \in Int /\ d \in Int
      BY <3>1
    <3>3. /\ f[1] = (-lots) * a /\ f[2] = lots * b
          /\ f[3] = (-lots) * c /\ f[4] = lots * d /\ g = b + d - a - c
      BY <2>2
    <3> HIDE DEF a, b, c, d, g
    <3>4. (-lots) * a + lots * b + (-lots) * c + lots * d = lots * (b + d - a - c)
      BY <1>9, <3>2, FourLots
    <3> QED
      BY <3>3, <3>4
  <2>8. g \in Int /\ g >= -loss
    <3> DEFINE a == sc.ltp
               b == lc.ltp
               c == sp.ltp
               d == lp.ltp
    <3>1. a \in Int /\ b \in Int /\ c \in Int /\ d \in Int
      BY <1>6
    <3>2. /\ g = (B - b) + (R - d) - (A - a) - (P - c)
          /\ loss = width - (a - b + c - d)
      BY Zenon DEF loss, credit
    <3>3. width \in Int
      BY <1>7
    <3> HIDE DEF a, b, c, d, g
    <3> QED
      BY <2>5, <2>6, <3>1, <3>2, <3>3
  <2> HIDE DEF g
  <2> QED
    BY <1>9, <1>11, <2>3, <2>4, <2>7, <2>8
<1> HIDE DEF out
<1>13. SafeLegs("condor", out)
  BY <1>11, <1>12 DEF SafeLegs
<1> QED
  BY <1>2, <1>13, SMTT(30)

(* Two and three legs.                                                       *)
LEMMA LegWorth ==
  ASSUME NEW q \in QuoteType, NEW n \in Int, NEW price \in Int
  PROVE  Leg(q, n).qty * (Inner(Leg(q, n), price) - Leg(q, n).price) =
           n * (Inner(q, price) - q.ltp)
BY LegOf DEF Inner

LEMMA InnerType ==
  ASSUME NEW q \in QuoteType, NEW price \in Int
  PROVE  Inner(q, price) \in Int
BY DEF QuoteType, Inner, Excess

LEMMA TwoLegs ==
  ASSUME NEW p \in QuoteType, NEW q \in QuoteType, NEW m \in Int, NEW n \in Int
  PROVE  LET out == <<Leg(p, m), Leg(q, n)>>
         IN  /\ out \in Seq(LegType) /\ out # <<>>
             /\ \A price \in Int :
                  Payoff(out, price) = m * (Inner(p, price) - p.ltp)
                                       + n * (Inner(q, price) - q.ltp)
<1> DEFINE out == <<Leg(p, m), Leg(q, n)>>
<1>1. Leg(p, m) \in LegType /\ Leg(q, n) \in LegType
  BY LegOf
<1>2. out \in Seq(LegType) /\ out # <<>> /\ Len(out) = 2
  BY <1>1
<1>3. ASSUME NEW price \in Int
      PROVE  Payoff(out, price) = m * (Inner(p, price) - p.ltp)
                                  + n * (Inner(q, price) - q.ltp)
  <2> DEFINE f == [i \in 1 .. Len(out) |->
                     out[i].qty * (Inner(out[i], price) - out[i].price)]
  <2>1. /\ f[1] = m * (Inner(p, price) - p.ltp)
        /\ f[2] = n * (Inner(q, price) - q.ltp)
    <3>1. out[1] = Leg(p, m) /\ out[2] = Leg(q, n)
      OBVIOUS
    <3>2. /\ f[1] = out[1].qty * (Inner(out[1], price) - out[1].price)
          /\ f[2] = out[2].qty * (Inner(out[2], price) - out[2].price)
      BY <1>2
    <3> QED
      BY <1>3, <3>1, <3>2, LegWorth, Zenon
  <2>2. /\ Payoff(out, price) = SumFunctionOnSet(f, 1 .. Len(out))
        /\ \A i \in 1 .. Len(out) : f[i] \in Int
    BY <1>2, <1>3, PayoffIs
  <2> HIDE DEF f
  <2>3. \A i \in 1 .. 2 : f[i] \in Int
    BY <1>2, <2>2
  <2>4. SumFunctionOnSet(f, 1 .. 2) =
          f[1] + f[2] + (IF 2 > 2 THEN f[3] ELSE 0) + (IF 2 > 3 THEN f[4] ELSE 0)
    BY <2>3, SumOfFew
  <2>5. f[1] \in Int /\ f[2] \in Int
    BY <2>3
  <2>6. SumFunctionOnSet(f, 1 .. 2) = f[1] + f[2]
    BY <2>4, <2>5
  <2> QED
    BY <1>2, <2>1, <2>2, <2>6
<1> QED
  BY <1>2, <1>3

LEMMA ThreeLegs ==
  ASSUME NEW p \in QuoteType, NEW q \in QuoteType, NEW r \in QuoteType,
         NEW m \in Int, NEW n \in Int, NEW k \in Int
  PROVE  LET out == <<Leg(p, m), Leg(q, n), Leg(r, k)>>
         IN  /\ out \in Seq(LegType) /\ out # <<>>
             /\ \A price \in Int :
                  Payoff(out, price) = m * (Inner(p, price) - p.ltp)
                                       + n * (Inner(q, price) - q.ltp)
                                       + k * (Inner(r, price) - r.ltp)
<1> DEFINE out == <<Leg(p, m), Leg(q, n), Leg(r, k)>>
<1>1. Leg(p, m) \in LegType /\ Leg(q, n) \in LegType /\ Leg(r, k) \in LegType
  BY LegOf
<1>2. out \in Seq(LegType) /\ out # <<>> /\ Len(out) = 3
  BY <1>1
<1>3. ASSUME NEW price \in Int
      PROVE  Payoff(out, price) = m * (Inner(p, price) - p.ltp)
                                  + n * (Inner(q, price) - q.ltp)
                                  + k * (Inner(r, price) - r.ltp)
  <2> DEFINE f == [i \in 1 .. Len(out) |->
                     out[i].qty * (Inner(out[i], price) - out[i].price)]
  <2>1. /\ f[1] = m * (Inner(p, price) - p.ltp)
        /\ f[2] = n * (Inner(q, price) - q.ltp)
        /\ f[3] = k * (Inner(r, price) - r.ltp)
    <3>1. out[1] = Leg(p, m) /\ out[2] = Leg(q, n) /\ out[3] = Leg(r, k)
      OBVIOUS
    <3>2. /\ f[1] = out[1].qty * (Inner(out[1], price) - out[1].price)
          /\ f[2] = out[2].qty * (Inner(out[2], price) - out[2].price)
          /\ f[3] = out[3].qty * (Inner(out[3], price) - out[3].price)
      BY <1>2
    <3> QED
      BY <1>3, <3>1, <3>2, LegWorth, Zenon
  <2>2. /\ Payoff(out, price) = SumFunctionOnSet(f, 1 .. Len(out))
        /\ \A i \in 1 .. Len(out) : f[i] \in Int
    BY <1>2, <1>3, PayoffIs
  <2> HIDE DEF f
  <2>3. \A i \in 1 .. 3 : f[i] \in Int
    BY <1>2, <2>2
  <2>4. SumFunctionOnSet(f, 1 .. 3) =
          f[1] + f[2] + (IF 3 > 2 THEN f[3] ELSE 0) + (IF 3 > 3 THEN f[4] ELSE 0)
    BY <2>3, SumOfFew
  <2>5. f[1] \in Int /\ f[2] \in Int /\ f[3] \in Int
    BY <2>3
  <2>6. SumFunctionOnSet(f, 1 .. 3) = f[1] + f[2] + f[3]
    BY <2>4, <2>5
  <2> QED
    BY <1>2, <2>1, <2>2, <2>6
<1> QED
  BY <1>2, <1>3

-----------------------------------------------------------------------------
(* A debit spread is bought at or nearer the money than it is sold, so it    *)
(* loses no more than its debit.                                             *)
LEMMA SpreadGains ==
  ASSUME NEW p \in QuoteType, NEW q \in QuoteType, p.type = q.type,
         IF p.type = "CE" THEN p.strike <= q.strike ELSE q.strike <= p.strike,
         NEW price \in Int
  PROVE  Inner(p, price) - Inner(q, price) >= 0
BY DEF QuoteType, Inner, Excess

LEMMA SpreadLots ==
  ASSUME NEW n \in Int, NEW x \in Int, NEW y \in Int
  PROVE  n * x + (-n) * y = n * (x - y)
OBVIOUS

LEMMA Thousandfold ==
  ASSUME NEW n \in Int, NEW g \in Int, NEW b \in Int,
         n * (1000 * g) >= -(1000 * b)
  PROVE  n * g >= -b
<1>1. n * (1000 * g) = 1000 * (n * g) /\ n * g \in Int
  OBVIOUS
<1> DEFINE x == n * g
<1>2. x \in Int /\ 1000 * x >= -(1000 * b)
  BY <1>1
<1> HIDE DEF x
<1>3. x >= -b
  BY <1>2
<1> QED
  BY <1>3 DEF x

LEMMA SpreadSafe ==
  ASSUME OptionDeskAssumption, NEW s \in Snaps, NEW bias \in {"bull", "bear"}
  PROVE  Spread(s, bias) = <<>> \/ SafeLegs("spread", Spread(s, bias))
<1> DEFINE Q     == IF bias = "bull" THEN Calls(s) ELSE Puts(s)
           long  == ClosestTo(Q, s.spot)
           short == ClosestTo(Q, IF bias = "bull" THEN s.spot + Offset
                                                  ELSE s.spot - Offset)
           debit == long.ltp - short.ltp
           unit  == Max({1000 * debit, 1})
           lots  == (1000 * Budget) \div unit
           out   == <<Leg(long, lots), Leg(short, -lots)>>
<1>1. SUFFICES ASSUME Spread(s, bias) # <<>> PROVE SafeLegs("spread", Spread(s, bias))
  OBVIOUS
<1>2. Q # {} /\ Spread(s, bias) = out
  <2>1. Spread(s, bias) =
          IF Q = {} \/ long = short \/ lots = 0 THEN <<>> ELSE out
    BY Zenon DEF Spread
  <2> HIDE DEF Q, long, short, lots, out
  <2> QED
    BY <1>1, <2>1
<1>3. /\ Chain(Q) /\ s.spot \in Nat /\ Offset \in Nat /\ Budget \in Nat
  BY <1>2, ChainsOf DEF OptionDeskAssumption
<1>4. \A q \in Q : q.type = (IF bias = "bull" THEN "CE" ELSE "PE")
  BY DEF Calls, Puts
<1> HIDE DEF Q
<1>5. s.spot \in Int /\ s.spot + Offset \in Int /\ s.spot - Offset \in Int
  BY <1>3
<1>6. long \in Q /\ short \in Q
  BY <1>3, <1>5, ClosestIs, Zenon
<1>7. /\ bias = "bull" => long.strike <= short.strike
      /\ bias = "bear" => short.strike <= long.strike
  <2>1. s.spot <= s.spot + Offset /\ s.spot - Offset <= s.spot
    BY <1>3
  <2>2. /\ ClosestTo(Q, s.spot).strike <= ClosestTo(Q, s.spot + Offset).strike
        /\ ClosestTo(Q, s.spot - Offset).strike <= ClosestTo(Q, s.spot).strike
    BY <1>3, <1>5, <2>1, ClosestRises, Zenon
  <2> QED
    BY <2>2
<1> HIDE DEF long, short
<1>8. /\ long \in QuoteType /\ short \in QuoteType /\ long.type = short.type
      /\ IF long.type = "CE" THEN long.strike <= short.strike
                             ELSE short.strike <= long.strike
  <2>1. long \in QuoteType /\ short \in QuoteType
    BY <1>3, <1>6, Zenon DEF Chain
  <2>2. CASE bias = "bull"
    BY <1>4, <1>6, <1>7, <2>1, <2>2
  <2>3. CASE bias = "bear"
    BY <1>4, <1>6, <1>7, <2>1, <2>3
  <2> QED
    BY <2>2, <2>3
<1>9. long.ltp \in Int /\ short.ltp \in Int
  BY <1>8, QuoteIs
<1>10. debit \in Int
  BY <1>9
<1> HIDE DEF debit
<1>11. unit \in Int /\ unit > 0 /\ 1000 * debit <= unit
  <2> DEFINE d == 1000 * debit
  <2>1. d \in Int /\ 1 \in Int
    BY <1>10
  <2> HIDE DEF d
  <2>2. Max({d, 1}) \in Int /\ d <= Max({d, 1}) /\ 1 <= Max({d, 1})
    BY <2>1, GreaterOfTwo
  <2>3. unit = Max({d, 1})
    BY Zenon DEF d
  <2> HIDE DEF unit
  <2>4. unit \in Int /\ d <= unit /\ unit > 0
    BY <2>2, <2>3
  <2> QED
    BY <2>4 DEF d
<1> HIDE DEF unit
<1>12. lots \in Int
       /\ \A g \in Int : g >= -unit => lots * g >= -(1000 * Budget)
  <2> DEFINE b == 1000 * Budget
  <2>1. b \in Nat
    BY <1>3
  <2> HIDE DEF b
  <2>2. b \div unit \in Nat /\ \A g \in Int : g >= -unit => (b \div unit) * g >= -b
    BY <1>11, <2>1, LotsFit
  <2> QED
    BY <2>2 DEF b
<1> HIDE DEF lots
<1>13. -lots \in Int
  BY <1>12
<1>14. /\ out \in Seq(LegType) /\ out # <<>>
       /\ \A price \in Int :
            Payoff(out, price) = lots * (Inner(long, price) - long.ltp)
                                 + (-lots) * (Inner(short, price) - short.ltp)
  BY <1>8, <1>12, <1>13, TwoLegs
<1>l. Len(out) = 2
  OBVIOUS
<1> HIDE DEF out
<1>15. ASSUME NEW price \in Int PROVE Payoff(out, price) >= -Budget
  <2> DEFINE x == Inner(long, price)
             y == Inner(short, price)
             v == long.ltp
             w == short.ltp
             g == (x - v) - (y - w)
  <2>1. x \in Int /\ y \in Int /\ x - y >= 0 /\ v \in Int /\ w \in Int
    BY <1>8, <1>9, <1>15, InnerType, SpreadGains
  <2>2. debit = v - w
    BY DEF debit
  <2>3. Payoff(out, price) = lots * (x - v) + (-lots) * (y - w)
    BY <1>14, <1>15
  <2> HIDE DEF x, y, v, w
  <2>4. g \in Int /\ 1000 * g \in Int /\ 1000 * g >= -unit
    BY <1>10, <1>11, <2>1, <2>2
  <2>5. Payoff(out, price) = lots * g
    <3>1. x - v \in Int /\ y - w \in Int
      BY <2>1
    <3> QED
      BY <1>12, <2>3, <3>1, SpreadLots
  <2> HIDE DEF g
  <2>6. lots * (1000 * g) >= -(1000 * Budget)
    BY <1>12, <2>4
  <2>7. lots * g >= -Budget
    <3>1. Budget \in Int
      BY <1>3
    <3> QED
      BY <1>12, <2>4, <2>6, <3>1, Thousandfold
  <2> QED
    BY <2>5, <2>7
<1>16. SafeLegs("spread", out)
  BY <1>14, <1>15, <1>l DEF SafeLegs
<1> QED
  BY <1>2, <1>16

-----------------------------------------------------------------------------
(* The pin is a strike of the chain.                                         *)
LEMMA PinIsNumber ==
  ASSUME OptionDeskAssumption, NEW s \in Snaps, s.quotes # {}
  PROVE  MaxPain(s) \in Int
<1> DEFINE K == {q.strike : q \in s.quotes}
           pay == [k \in K |-> WritersPay(s, k)]
           V == {pay[k] : k \in K}
           least == Min(V)
           P == {k \in K : WritersPay(s, k) = least}
<1>1. Chain(s.quotes)
  BY ChainsOf
<1>2. K \in SUBSET Int /\ K # {} /\ IsFiniteSet(K)
  <2> DEFINE g == [q \in s.quotes |-> q.strike]
             G == {g[q] : q \in s.quotes}
  <2>1. K = G
    OBVIOUS
  <2>2. K \in SUBSET Int /\ K # {}
    BY <1>1 DEF Chain, QuoteType
  <2>3. IsFiniteSet(s.quotes)
    BY <1>1 DEF Chain
  <2> HIDE DEF g
  <2>4. IsFiniteSet(G)
    BY <2>3, ImageFinite
  <2> QED
    BY <2>1, <2>2, <2>4
<1>3. ASSUME NEW k \in Int PROVE WritersPay(s, k) \in Int
  <2> DEFINE f == [q \in s.quotes |->
                     q.oi * Max({0, IF q.type = "CE" THEN k - q.strike
                                                     ELSE q.strike - k})]
  <2>1. \A q \in s.quotes : f[q] \in Int
    <3> TAKE q \in s.quotes
    <3> DEFINE x == IF q.type = "CE" THEN k - q.strike ELSE q.strike - k
    <3>1. q.oi \in Int /\ x \in Int
      BY <1>1, <1>3, SMTT(30) DEF Chain, QuoteType
    <3>2. f[q] = q.oi * Max({0, x})
      OBVIOUS
    <3> HIDE DEF x, f
    <3>3. Max({0, x}) \in Int
      <4>1. 0 \in Int
        OBVIOUS
      <4> QED
        BY <3>1, <4>1, GreaterOfTwo
    <3> QED
      BY <3>1, <3>2, <3>3
  <2>2. WritersPay(s, k) = SumFunctionOnSet(f, s.quotes)
    BY Zenon DEF WritersPay
  <2>3. IsFiniteSet(s.quotes)
    BY <1>1 DEF Chain
  <2> HIDE DEF f
  <2> QED
    BY <2>1, <2>2, <2>3, SumIsInteger
<1>4. V \in SUBSET Int /\ V # {}
  BY <1>2, <1>3, ZenonT(60)
<1>5. IsFiniteSet(V)
  <2> HIDE DEF pay, K
  <2>1. IsFiniteSet(K)
    BY <1>2
  <2>2. IsFiniteSet({pay[k] : k \in K})
    BY <2>1, ImageFinite, SMTT(30)
  <2> QED
    BY <2>2
<1>6. least \in V
  <2> HIDE DEF V
  <2> QED
    BY <1>4, <1>5, LeastMember
<1> HIDE DEF least
<1>7. P # {} /\ P \subseteq K
  BY <1>6
<1>8. Min(P) \in K
  <2>1. P \in SUBSET Int /\ IsFiniteSet(P)
    BY <1>2, <1>7, FS_Subset
  <2> HIDE DEF P, K
  <2> QED
    BY <1>7, <2>1, LeastMember
<1>9. V = {WritersPay(s, k) : k \in K}
  OBVIOUS
<1>10. MaxPain(s) = Min(P)
  BY <1>9 DEF MaxPain, least
<1> QED
  BY <1>2, <1>8, <1>10

LEMMA TentIsConvex ==
  ASSUME NEW a \in Int, NEW b \in Int, NEW c \in Int, a <= b, b <= c,
         c - b <= b - a, NEW x \in Int
  PROVE  Excess(x - a) - 2 * Excess(x - b) + Excess(x - c) >= 0
BY DEF Excess

LEMMA TentLots ==
  ASSUME NEW n \in Int, NEW x \in Int, NEW y \in Int, NEW z \in Int
  PROVE  n * x + (-2 * n) * y + n * z = n * (x - 2 * y + z)
OBVIOUS

LEMMA ButterflySafe ==
  ASSUME OptionDeskAssumption, NEW s \in Snaps
  PROVE  Butterfly(s) = <<>> \/ SafeLegs("butterfly", Butterfly(s))
<1> DEFINE center == MaxPain(s)
           low    == ClosestTo(Calls(s), center - WingWidth)
           body   == ClosestTo(Calls(s), center)
           high   == ClosestTo(Calls(s), center + WingWidth)
           debit  == low.ltp - 2 * body.ltp + high.ltp
           lots   == Budget \div debit
           out    == <<Leg(low, lots), Leg(body, -2 * lots), Leg(high, lots)>>
<1>1. SUFFICES ASSUME Butterfly(s) # <<>>
               PROVE  SafeLegs("butterfly", Butterfly(s))
  OBVIOUS
<1>2. Calls(s) # {} /\ ~(debit <= 0) /\ Butterfly(s) = out
  BY <1>1 DEF Butterfly
<1>3. Chain(Calls(s)) /\ WingWidth \in Nat /\ Budget \in Nat /\ s.quotes # {}
  BY <1>2, ChainsOf DEF OptionDeskAssumption, Calls
<1>4. center \in Int
  BY <1>3, PinIsNumber
<1> HIDE DEF center
<1>5. /\ center - WingWidth \in Int /\ center + WingWidth \in Int
      /\ center - WingWidth <= center /\ center <= center + WingWidth
  BY <1>3, <1>4
<1>6. low \in Calls(s) /\ body \in Calls(s) /\ high \in Calls(s)
  BY <1>3, <1>4, <1>5, ClosestIs, Zenon
<1>7. low.strike <= body.strike /\ body.strike <= high.strike
  BY <1>3, <1>4, <1>5, ClosestRises, Zenon
<1> HIDE DEF low, body, high
<1>8. /\ low \in QuoteType /\ body \in QuoteType /\ high \in QuoteType
      /\ low.type = "CE" /\ body.type = "CE" /\ high.type = "CE"
  BY <1>3, <1>6, Zenon DEF Chain, Calls
<1>9. /\ low.ltp \in Int /\ body.ltp \in Int /\ high.ltp \in Int
      /\ low.strike \in Int /\ body.strike \in Int /\ high.strike \in Int
  BY <1>8, QuoteIs
<1>10. debit \in Int
  BY <1>9
<1> HIDE DEF debit
<1>11. debit > 0
  BY <1>2, <1>10
<1>12. lots \in Int /\ \A g \in Int : g >= -debit => lots * g >= -Budget
  BY <1>3, <1>10, <1>11, LotsFit
<1> HIDE DEF lots
<1>13. -2 * lots \in Int
  BY <1>12
<1>14. /\ out \in Seq(LegType) /\ out # <<>>
       /\ \A price \in Int :
            Payoff(out, price) = lots * (Inner(low, price) - low.ltp)
                                 + (-2 * lots) * (Inner(body, price) - body.ltp)
                                 + lots * (Inner(high, price) - high.ltp)
  BY <1>8, <1>12, <1>13, ThreeLegs
<1>15. Narrow("butterfly", out) =>
         high.strike - body.strike <= body.strike - low.strike
  <2>1. /\ out[1].strike = low.strike /\ out[2].strike = body.strike
        /\ out[3].strike = high.strike
    BY DEF Leg
  <2> HIDE DEF out
  <2> QED
    BY <2>1 DEF Narrow
<1>l. Len(out) = 3
  OBVIOUS
<1> HIDE DEF out
<1>16. ASSUME Narrow("butterfly", out), NEW price \in Int
       PROVE  Payoff(out, price) >= -Budget
  <2> DEFINE x == Inner(low, price)
             y == Inner(body, price)
             z == Inner(high, price)
             u == low.ltp
             v == body.ltp
             w == high.ltp
             g == (x - u) - 2 * (y - v) + (z - w)
  <2>1. /\ x \in Int /\ y \in Int /\ z \in Int
        /\ u \in Int /\ v \in Int /\ w \in Int
    BY <1>8, <1>9, <1>16, InnerType
  <2>2. x - 2 * y + z >= 0
    <3> DEFINE a == low.strike
               b == body.strike
               c == high.strike
    <3>1. a \in Int /\ b \in Int /\ c \in Int /\ a <= b /\ b <= c /\ c - b <= b - a
      BY <1>7, <1>9, <1>15, <1>16
    <3>2. x = Excess(price - a) /\ y = Excess(price - b) /\ z = Excess(price - c)
      BY <1>8 DEF Inner
    <3> HIDE DEF a, b, c, x, y, z
    <3>3. Excess(price - a) - 2 * Excess(price - b) + Excess(price - c) >= 0
      BY <1>16, <3>1, TentIsConvex
    <3> QED
      BY <3>2, <3>3
  <2>3. debit = u - 2 * v + w
    BY DEF debit
  <2>4. Payoff(out, price) = lots * (x - u) + (-2 * lots) * (y - v) + lots * (z - w)
    BY <1>14, <1>16
  <2> HIDE DEF x, y, z, u, v, w
  <2>5. g \in Int /\ g >= -debit
    BY <1>10, <2>1, <2>2, <2>3
  <2>6. Payoff(out, price) = lots * g
    <3>1. x - u \in Int /\ y - v \in Int /\ z - w \in Int
      BY <2>1
    <3> QED
      BY <1>12, <2>4, <3>1, TentLots
  <2> HIDE DEF g
  <2> QED
    BY <1>12, <2>5, <2>6
<1>17. SafeLegs("butterfly", out)
  BY <1>14, <1>16, <1>l DEF SafeLegs
<1> QED
  BY <1>2, <1>17

LEMMA SumShifts ==
  ASSUME NEW base \in Nat, NEW k \in Nat, NEW f, NEW g,
         \A i \in 1 .. k : f[base + i] \in Int /\ g[i] = f[base + i]
  PROVE  SumFunctionOnSet(f, base + 1 .. base + k) = SumFunctionOnSet(g, 1 .. k)
<1> DEFINE S(i) == SumFunctionOnSet(f, base + 1 .. base + i)
           T(i) == SumFunctionOnSet(g, 1 .. i)
           F == {i \in 0 .. k : S(i) # T(i)}
<1>1. SUFFICES ASSUME F # {} PROVE FALSE
  BY <1>1
<1>2. PICK m \in F : \A i \in F : m <= i
  <2>1. F \in SUBSET Nat
    OBVIOUS
  <2> HIDE DEF F
  <2> QED
    BY <1>1, <2>1, SmallestNumber
<1>3. m \in 0 .. k /\ S(m) # T(m)
  BY <1>2
<1>4. m # 0
  <2>1. base + 1 .. base + 0 = {} /\ 1 .. 0 = {}
    OBVIOUS
  <2>2. S(0) = 0 /\ T(0) = 0
    BY <2>1, SumOfNothing
  <2> QED
    BY <1>3, <2>2
<1>5. m - 1 \in 0 .. k /\ m - 1 \notin F
  BY <1>2, <1>3, <1>4
<1>6. S(m - 1) = T(m - 1)
  BY <1>5
<1>7. S(m) = S(m - 1) + f[base + m]
  <2> DEFINE A == base + 1 .. base + (m - 1)
             y == base + m
  <2>1. IsFiniteSet(A)
    BY <1>3, <1>4, FS_Interval
  <2>2. \A x \in A \cup {y} : x - base \in 1 .. k /\ x = base + (x - base)
    BY <1>3, <1>4
  <2>3. \A x \in A \cup {y} : f[x] \in Int
    BY <2>2, Zenon
  <2>5. y \notin A /\ base + 1 .. base + m = A \cup {y}
    BY <1>3, <1>4
  <2> HIDE DEF A, y
  <2>4. SumFunctionOnSet(f, A \cup {y}) = SumFunctionOnSet(f, A) + f[y]
    BY <2>1, <2>5, <2>3, SumAdds, ZenonT(60)
  <2> QED
    BY <2>5, <2>4 DEF A, y
<1>8. T(m) = T(m - 1) + g[m]
  <2> DEFINE A == 1 .. m - 1
  <2>1. IsFiniteSet(A)
    BY <1>3, <1>4, FS_Interval
  <2>2. /\ m \notin A /\ 1 .. m = A \cup {m} /\ A \cup {m} \subseteq 1 .. k
    BY <1>3, <1>4
  <2>3. \A x \in A \cup {m} : g[x] \in Int
    BY <2>2, Zenon
  <2> HIDE DEF A
  <2>4. SumFunctionOnSet(g, A \cup {m}) = SumFunctionOnSet(g, A) + g[m]
    BY <2>1, <2>2, <2>3, SumAdds, ZenonT(60)
  <2> QED
    BY <2>2, <2>4 DEF A
<1>9. g[m] = f[base + m]
  BY <1>3, <1>4
<1> QED
  BY <1>3, <1>6, <1>7, <1>8, <1>9

-----------------------------------------------------------------------------
(* The legs of a spread that has not failed are held in one piece, as many   *)
(* as are submitted, in their order.                                         *)
SpreadType == [kind : {"condor", "spread", "butterfly"}, legs : Seq(LegType),
               failed : BOOLEAN]
HeldType   == [parent : Nat, leg : LegType]

HeldInOrder(all, p, h, todo) ==
  \E base \in Nat, k \in Nat :
    /\ k + Len(todo) = Len(all) /\ base + k <= Len(h)
    /\ todo # <<>> => base + k = Len(h)
    /\ \A n \in 1 .. Len(h) : h[n].parent = p <=> n \in base + 1 .. base + k
    /\ \A i \in 1 .. k : h[base + i].leg = all[i]
    /\ \A j \in 1 .. Len(todo) : todo[j] = all[k + j]

Typed(par, h, todo) ==
  /\ par \in Seq(SpreadType) /\ h \in Seq(HeldType) /\ todo \in Seq(LegType)
  /\ todo # <<>> => par # <<>>
  /\ \A n \in 1 .. Len(h) : h[n].parent \in 1 .. Len(par)
Todo(par, p, todo) == IF p = Len(par) THEN todo ELSE <<>>

Sound(par, h, todo) ==
  /\ Typed(par, h, todo)
  /\ \A p \in 1 .. Len(par) :
       /\ SafeLegs(par[p].kind, par[p].legs)
       /\ ~par[p].failed => HeldInOrder(par[p].legs, p, h, Todo(par, p, todo))

LegsInv == (turn # 0 => snap \in Snaps) /\ Sound(parents, held, legs)

LEMMA SoundStarts == Sound(<<>>, <<>>, <<>>)
BY DEF Sound, Typed

LEMMA SoundGrows ==
  ASSUME NEW par, NEW h, Sound(par, h, <<>>), NEW x \in SpreadType,
         ~x.failed, SafeLegs(x.kind, x.legs)
  PROVE  Sound(Append(par, x), h, x.legs)
<1> DEFINE new == Append(par, x)
<1>1. /\ par \in Seq(SpreadType) /\ h \in Seq(HeldType)
      /\ \A n \in 1 .. Len(h) : h[n].parent \in 1 .. Len(par)
  BY DEF Sound, Typed
<1>2. /\ new \in Seq(SpreadType) /\ Len(new) = Len(par) + 1 /\ new # <<>>
      /\ Len(par) \in Nat /\ new[Len(new)] = x
      /\ \A p \in 1 .. Len(par) : new[p] = par[p]
  BY <1>1
<1> HIDE DEF new
<1>3. x.legs \in Seq(LegType) /\ x.legs # <<>>
  BY DEF SafeLegs
<1>4. Typed(new, h, x.legs)
  BY <1>1, <1>2, <1>3 DEF Typed
<1>5. ASSUME NEW p \in 1 .. Len(par)
      PROVE  /\ SafeLegs(new[p].kind, new[p].legs)
             /\ ~new[p].failed => HeldInOrder(new[p].legs, p, h, Todo(new, p, x.legs))
  <2>1. Todo(new, p, x.legs) = <<>> /\ Todo(par, p, <<>>) = <<>> /\ new[p] = par[p]
    BY <1>2, <1>5 DEF Todo
  <2> QED
    BY <1>5, <2>1, Zenon DEF Sound
<1>6. HeldInOrder(x.legs, Len(new), h, Todo(new, Len(new), x.legs))
  <2>1. Todo(new, Len(new), x.legs) = x.legs
    BY DEF Todo
  <2>2. /\ Len(h) \in Nat /\ 0 \in Nat /\ Len(x.legs) \in Nat
        /\ Len(h) + 0 = Len(h) /\ Len(h) <= Len(h)
        /\ Len(h) + 1 .. Len(h) + 0 = {} /\ 1 .. 0 = {}
    BY <1>1, <1>3
  <2>3. \A n \in 1 .. Len(h) : h[n].parent # Len(new)
    BY <1>1, <1>2
  <2>4. \A j \in 1 .. Len(x.legs) : 0 + j = j
    OBVIOUS
  <2>5. HeldInOrder(x.legs, Len(new), h, x.legs)
    <3> DEFINE base == Len(h)
               k == 0
    <3>1. k + Len(x.legs) = Len(x.legs) /\ base + k <= Len(h)
      BY <2>2
    <3>2. \A n \in 1 .. Len(h) : h[n].parent = Len(new) <=> n \in base + 1 .. base + k
      BY <2>2, <2>3
    <3>3. \A i \in 1 .. k : h[base + i].leg = x.legs[i]
      BY <2>2
    <3>4. \A j \in 1 .. Len(x.legs) : x.legs[j] = x.legs[k + j]
      BY <2>4
    <3>5. base \in Nat /\ k \in Nat /\ base + k = Len(h)
      BY <2>2
    <3> HIDE DEF base, k
    <3> QED
      BY <3>1, <3>2, <3>3, <3>4, <3>5 DEF HeldInOrder
  <2> QED
    BY <2>1, <2>5
<1>7. ASSUME NEW p \in 1 .. Len(new)
      PROVE  /\ SafeLegs(new[p].kind, new[p].legs)
             /\ ~new[p].failed => HeldInOrder(new[p].legs, p, h, Todo(new, p, x.legs))
  <2>1. CASE p = Len(new)
    BY <1>2, <1>6, <2>1
  <2>2. CASE p # Len(new)
    <3>1. p \in 1 .. Len(par)
      BY <1>2, <1>7, <2>2
    <3> QED
      BY <1>5, <3>1, Zenon
  <2> QED
    BY <2>1, <2>2
<1> QED
  BY <1>4, <1>7 DEF Sound, new

LEMMA SoundAccepts ==
  ASSUME NEW par, NEW h, NEW todo, Sound(par, h, todo), todo # <<>>
  PROVE  Sound(par, Append(h, [parent |-> Len(par), leg |-> Head(todo)]), Tail(todo))
<1> DEFINE x == [parent |-> Len(par), leg |-> Head(todo)]
           g == Append(h, x)
           rest == Tail(todo)
<1>1. /\ par \in Seq(SpreadType) /\ h \in Seq(HeldType) /\ todo \in Seq(LegType)
      /\ par # <<>>
      /\ \A n \in 1 .. Len(h) : h[n].parent \in 1 .. Len(par)
  BY DEF Sound, Typed
<1>2. x \in HeldType
  BY <1>1 DEF HeldType
<1>3. x.parent = Len(par) /\ x.leg = todo[1]
  BY <1>1
<1> HIDE DEF x
<1>4. /\ g \in Seq(HeldType) /\ Len(g) = Len(h) + 1 /\ Len(h) \in Nat
      /\ g[Len(h) + 1] = x /\ \A n \in 1 .. Len(h) : g[n] = h[n]
  BY <1>1, <1>2
<1> HIDE DEF g
<1>5. /\ rest \in Seq(LegType) /\ Len(rest) = Len(todo) - 1
      /\ Len(todo) \in Nat \ {0}
      /\ \A j \in 1 .. Len(rest) : rest[j] = todo[j + 1]
  BY <1>1
<1> HIDE DEF rest
<1>6. Len(par) \in Nat \ {0}
  BY <1>1
<1>7. Typed(par, g, rest)
  <2>1. ASSUME NEW n \in 1 .. Len(g) PROVE g[n].parent \in 1 .. Len(par)
    <3>1. CASE n = Len(h) + 1
      BY <1>3, <1>4, <1>6, <3>1
    <3>2. CASE n # Len(h) + 1
      <4>1. n \in 1 .. Len(h)
        BY <1>4, <2>1, <3>2
      <4> QED
        BY <1>1, <1>4, <4>1
    <3> QED
      BY <3>1, <3>2
  <2> QED
    BY <1>1, <1>4, <1>5, <2>1 DEF Typed
<1>8. ASSUME NEW p \in 1 .. Len(par), ~par[p].failed, NEW all, all = par[p].legs
      PROVE  HeldInOrder(all, p, g, Todo(par, p, rest))
  <2>1. HeldInOrder(all, p, h, Todo(par, p, todo))
    BY <1>8 DEF Sound
  <2>2. CASE p = Len(par)
    <3>1. Todo(par, p, rest) = rest /\ Todo(par, p, todo) = todo
      BY <2>2 DEF Todo
    <3>2. PICK base \in Nat, k \in Nat :
            /\ k + Len(todo) = Len(all) /\ base + k <= Len(h)
            /\ todo # <<>> => base + k = Len(h)
            /\ \A n \in 1 .. Len(h) : h[n].parent = p <=> n \in base + 1 .. base + k
            /\ \A i \in 1 .. k : h[base + i].leg = all[i]
            /\ \A j \in 1 .. Len(todo) : todo[j] = all[k + j]
      BY <2>1, <3>1, ZenonT(60) DEF HeldInOrder
    <3> DEFINE m == k + 1
    <3>a. /\ base \in Nat /\ k \in Nat
          /\ k + Len(todo) = Len(all) /\ base + k = Len(h)
      BY <3>2
    <3>3. base + k = Len(h) /\ m \in Nat /\ base + m = Len(g) /\ m + Len(rest) = Len(all)
      <4>1. Len(g) = Len(h) + 1 /\ Len(h) \in Nat
        BY <1>4
      <4>2. Len(rest) = Len(todo) - 1 /\ Len(todo) \in Nat
        BY <1>5
      <4>3. base + m = Len(g)
        BY <3>a, <4>1
      <4>4. m + Len(rest) = Len(all)
        BY <3>a, <4>2
      <4> QED
        BY <3>a, <4>3, <4>4
    <3>4. \A n \in 1 .. Len(g) : g[n].parent = p <=> n \in base + 1 .. base + m
      <4> TAKE n \in 1 .. Len(g)
      <4>1. CASE n = Len(h) + 1
        BY <1>3, <1>4, <2>2, <3>3, <4>1
      <4>2. CASE n # Len(h) + 1
        <5>1. n \in 1 .. Len(h) /\ g[n] = h[n]
          BY <1>4, <4>2
        <5>2. g[n].parent = p <=> n \in base + 1 .. base + k
          BY <3>2, <5>1
        <5>3. n \in base + 1 .. base + k <=> n \in base + 1 .. base + m
          BY <1>4, <3>a, <4>2, <5>1
        <5> QED
          BY <5>2, <5>3
      <4> QED
        BY <4>1, <4>2
    <3>5. \A i \in 1 .. m : g[base + i].leg = all[i]
      <4> TAKE i \in 1 .. m
      <4>1. CASE i = k + 1
        <5>1. base + i = Len(h) + 1 /\ 1 \in 1 .. Len(todo) /\ k + 1 = i
          BY <1>5, <3>a, <4>1
        <5>2. g[base + i] = x /\ todo[1] = all[k + 1]
          BY <1>4, <3>2, <5>1
        <5> QED
          BY <1>3, <5>1, <5>2
      <4>2. CASE i # k + 1
        <5>1. i \in 1 .. k /\ base + i \in 1 .. Len(h)
          BY <3>2, <3>3, <4>2
        <5>2. g[base + i] = h[base + i]
          BY <1>4, <5>1
        <5> QED
          BY <3>2, <5>1, <5>2
      <4> QED
        BY <4>1, <4>2
    <3>6. \A j \in 1 .. Len(rest) : rest[j] = all[m + j]
      <4> TAKE j \in 1 .. Len(rest)
      <4>1. j + 1 \in 1 .. Len(todo) /\ k + (j + 1) = m + j
        BY <1>5, <3>2
      <4>2. todo[j + 1] = all[k + (j + 1)]
        BY <3>2, <4>1
      <4> QED
        BY <1>5, <4>1, <4>2
    <3>7. base + m <= Len(g)
      BY <1>4, <3>3
    <3> HIDE DEF m
    <3>8. HeldInOrder(all, p, g, rest)
      BY <3>3, <3>4, <3>5, <3>6, <3>7 DEF HeldInOrder
    <3> QED
      BY <3>1, <3>8
  <2>3. CASE p # Len(par)
    <3>1. Todo(par, p, rest) = <<>> /\ Todo(par, p, todo) = <<>>
      BY <2>3 DEF Todo
    <3>2. PICK base \in Nat, k \in Nat :
            /\ k + Len(<<>>) = Len(all) /\ base + k <= Len(h)
            /\ <<>> # <<>> => base + k = Len(h)
            /\ \A n \in 1 .. Len(h) : h[n].parent = p <=> n \in base + 1 .. base + k
            /\ \A i \in 1 .. k : h[base + i].leg = all[i]
            /\ \A j \in 1 .. Len(<<>>) : <<>>[j] = all[k + j]
      BY <2>1, <3>1, ZenonT(60) DEF HeldInOrder
    <3>3. base + k <= Len(g)
      BY <1>4, <3>2
    <3>4. \A n \in 1 .. Len(g) : g[n].parent = p <=> n \in base + 1 .. base + k
      <4> TAKE n \in 1 .. Len(g)
      <4>1. CASE n = Len(h) + 1
        <5>1. n \notin base + 1 .. base + k
          BY <1>4, <3>2, <4>1
        <5>2. g[n].parent = Len(par)
          BY <1>3, <1>4, <4>1
        <5> QED
          BY <2>3, <5>1, <5>2
      <4>2. CASE n # Len(h) + 1
        <5>1. n \in 1 .. Len(h) /\ g[n] = h[n]
          BY <1>4, <4>2
        <5> QED
          BY <3>2, <5>1
      <4> QED
        BY <4>1, <4>2
    <3>5. \A i \in 1 .. k : g[base + i].leg = all[i]
      <4> TAKE i \in 1 .. k
      <4>1. base + i \in 1 .. Len(h)
        BY <1>4, <3>2
      <4>2. g[base + i] = h[base + i]
        BY <1>4, <4>1
      <4> QED
        BY <3>2, <4>2
    <3>6. HeldInOrder(all, p, g, <<>>)
      BY <3>2, <3>3, <3>4, <3>5, Zenon DEF HeldInOrder
    <3> QED
      BY <3>1, <3>6
  <2> QED
    BY <2>2, <2>3
<1>9. \A p \in 1 .. Len(par) : SafeLegs(par[p].kind, par[p].legs)
  BY DEF Sound
<1>10. Sound(par, g, rest)
  BY <1>7, <1>8, <1>9, Zenon DEF Sound
<1> QED
  BY <1>10, Zenon DEF g, x, rest

Changed(v, w, i, x)  == v = [w EXCEPT ![i] = x]
LastFailed(new, par) == new = [par EXCEPT ![Len(par)].failed = TRUE]

LEMMA OneChanges ==
  ASSUME NEW S, NEW w \in Seq(S), NEW i \in 1 .. Len(w), NEW x \in S,
         NEW v, Changed(v, w, i, x)
  PROVE  v \in Seq(S) /\ Len(v) = Len(w) /\ v[i] = x
BY DEF Changed

LEMMA SoundFails ==
  ASSUME NEW par, NEW h, NEW todo, Sound(par, h, todo), todo # <<>>,
         NEW rest, rest \in {Tail(todo), <<>>},
         NEW new, LastFailed(new, par)
  PROVE  Sound(new, h, rest)
<1>1. /\ par \in Seq(SpreadType) /\ h \in Seq(HeldType) /\ todo \in Seq(LegType)
      /\ par # <<>>
      /\ \A n \in 1 .. Len(h) : h[n].parent \in 1 .. Len(par)
  BY DEF Sound, Typed
<1>2. rest \in Seq(LegType)
  <2>1. Tail(todo) \in Seq(LegType) /\ <<>> \in Seq(LegType)
    BY <1>1
  <2> QED
    BY <2>1
<1>3. Len(par) \in 1 .. Len(par) /\ par[Len(par)] \in SpreadType
  BY <1>1
<1>4. /\ new[Len(par)] \in SpreadType /\ new[Len(par)].failed = TRUE
      /\ new[Len(par)].kind = par[Len(par)].kind
      /\ new[Len(par)].legs = par[Len(par)].legs
      /\ new \in Seq(SpreadType) /\ Len(new) = Len(par) /\ new # <<>>
      /\ \A p \in 1 .. Len(par) : p # Len(par) => new[p] = par[p]
  <2> DEFINE x == [par[Len(par)] EXCEPT !.failed = TRUE]
  <2>1. /\ x \in SpreadType /\ x.failed = TRUE /\ x.kind = par[Len(par)].kind
        /\ x.legs = par[Len(par)].legs
    BY <1>3 DEF SpreadType
  <2>2. new = [par EXCEPT ![Len(par)] = x]
    BY DEF LastFailed
  <2> HIDE DEF x
  <2>3. new \in Seq(SpreadType) /\ Len(new) = Len(par) /\ new[Len(par)] = x
    <3>1. par \in Seq(SpreadType) /\ Changed(new, par, Len(par), x)
      BY <1>1, <2>2 DEF Changed
    <3> QED
      BY <1>3, <2>1, <3>1, OneChanges
  <2>4. \A p \in 1 .. Len(par) : p # Len(par) => new[p] = par[p]
    BY <1>1, <2>2
  <2>5. new # <<>>
    BY <1>3, <2>3
  <2> QED
    BY <2>1, <2>3, <2>4, <2>5
<1>5. Typed(new, h, rest)
  BY <1>1, <1>2, <1>4 DEF Typed
<1>6. ASSUME NEW p \in 1 .. Len(new)
      PROVE  /\ SafeLegs(new[p].kind, new[p].legs)
             /\ ~new[p].failed => HeldInOrder(new[p].legs, p, h, Todo(new, p, rest))
  <2>1. CASE p = Len(par)
    <3>1. SafeLegs(par[p].kind, par[p].legs)
      BY <1>3, <2>1 DEF Sound
    <3> QED
      BY <1>4, <2>1, <3>1
  <2>2. CASE p # Len(par)
    <3>1. p \in 1 .. Len(par) /\ new[p] = par[p]
      BY <1>4, <1>6, <2>2
    <3>2. Todo(new, p, rest) = <<>> /\ Todo(par, p, todo) = <<>>
      BY <1>4, <2>2 DEF Todo
    <3> QED
      BY <3>1, <3>2, Zenon DEF Sound
  <2> QED
    BY <2>1, <2>2
<1> QED
  BY <1>5, <1>6, Zenon DEF Sound

LEMMA LegsStart == DeskInit => LegsInv
BY SoundStarts DEF DeskInit, LegsInv

(* A callback that returns nothing adds no spread, one that returns legs     *)
(* adds a safe one.                                                          *)
LEMMA ReturnsSafe ==
  ASSUME LegsInv, NEW kind \in {"observe", "condor", "spread", "butterfly"},
         NEW out, out = <<>> \/ (SafeLegs(kind, out) /\ kind # "observe"),
         Awaited(kind), Returns(kind, out)
  PROVE  LegsInv'
<1>1. /\ legs = <<>> /\ Sound(parents, held, <<>>) /\ turn # 0 /\ snap \in Snaps
      /\ snap' = snap /\ held' = held /\ legs' = out
      /\ parents' = IF out = <<>> THEN parents
                    ELSE Append(parents, [kind |-> kind, legs |-> out,
                                          failed |-> FALSE])
  BY DEF LegsInv, Awaited, Returns
<1>2. CASE out = <<>>
  BY <1>1, <1>2 DEF LegsInv
<1>3. CASE out # <<>>
  <2> DEFINE x == [kind |-> kind, legs |-> out, failed |-> FALSE]
  <2>1. SafeLegs(kind, out) /\ kind # "observe"
    BY <1>3
  <2>2. out \in Seq(LegType)
    BY <2>1 DEF SafeLegs
  <2>3. x \in SpreadType /\ ~x.failed /\ x.kind = kind /\ x.legs = out
    BY <2>1, <2>2 DEF SpreadType
  <2>4. parents' = Append(parents, x)
    BY <1>1, <1>3
  <2> HIDE DEF x
  <2>5. Sound(Append(parents, x), held, x.legs)
    BY <1>1, <2>1, <2>3, SoundGrows
  <2>6. Sound(parents', held', legs')
    BY <1>1, <2>3, <2>4, <2>5
  <2> QED
    BY <1>1, <2>6, Zenon DEF LegsInv
<1> QED
  BY <1>2, <1>3

LEMMA EvaluatesSafe ==
  ASSUME OptionDeskAssumption, LegsInv, Observe \/ Evaluate
  PROVE  LegsInv'
<1>1. CASE Observe
  <2>1. Awaited("observe") /\ Returns("observe", <<>>)
    BY <1>1 DEF Observe
  <2> QED
    BY <2>1, ReturnsSafe
<1>2. CASE EvaluateCondor
  <2> DEFINE seen == IF snap.iv = None THEN ivOf["condor"]
                     ELSE Observed(ivOf["condor"], snap.iv)
             rich == RankAtLeast(seen, IvrMin)
             out == IF snap.iv # None /\ rich THEN Condor(snap) ELSE <<>>
  <2>1. Awaited("condor") /\ Returns("condor", out)
    BY <1>2, Zenon DEF EvaluateCondor
  <2>2. snap \in Snaps
    BY <2>1 DEF Awaited, LegsInv
  <2>3. Condor(snap) = <<>> \/ SafeLegs("condor", Condor(snap))
    BY <2>2, CondorSafe
  <2>4. out = <<>> \/ SafeLegs("condor", out)
    BY <2>3
  <2> HIDE DEF out
  <2> QED
    BY <2>1, <2>4, ReturnsSafe
<1>3. ASSUME NEW bias \in {"bull", "bear"}, EvaluateSpread(bias) PROVE LegsInv'
  <2> DEFINE seen == IF snap.iv \in {None, 0} THEN ivOf["spread"]
                     ELSE Observed(ivOf["spread"], snap.iv)
             cheap == RankAtMost(seen, IvrMax)
             out == IF cheap THEN Spread(snap, bias) ELSE <<>>
  <2>1. Awaited("spread") /\ Returns("spread", out)
    BY <1>3, Zenon DEF EvaluateSpread
  <2>2. snap \in Snaps
    BY <2>1 DEF Awaited, LegsInv
  <2>3. Spread(snap, bias) = <<>> \/ SafeLegs("spread", Spread(snap, bias))
    BY <1>3, <2>2, SpreadSafe
  <2>4. out = <<>> \/ SafeLegs("spread", out)
    BY <2>3
  <2> HIDE DEF out
  <2> QED
    BY <2>1, <2>4, ReturnsSafe
<1>4. CASE EvaluateButterfly
  <2> DEFINE out == IF /\ snap.at \in EntryTime .. ExitTime
                       /\ snap.expiry \notin entered
                    THEN Butterfly(snap) ELSE <<>>
  <2>1. Awaited("butterfly") /\ Returns("butterfly", out)
    BY <1>4, Zenon DEF EvaluateButterfly
  <2>2. snap \in Snaps
    BY <2>1 DEF Awaited, LegsInv
  <2>3. Butterfly(snap) = <<>> \/ SafeLegs("butterfly", Butterfly(snap))
    BY <2>2, ButterflySafe
  <2>4. out = <<>> \/ SafeLegs("butterfly", out)
    BY <2>3
  <2> HIDE DEF out
  <2> QED
    BY <2>1, <2>4, ReturnsSafe
<1> QED
  BY <1>1, <1>2, <1>3, <1>4 DEF Evaluate

LEMMA LegsStay ==
  ASSUME OptionDeskAssumption, LegsInv, [DeskNext]_deskVars
  PROVE  LegsInv'
<1>0. Sound(parents, held, legs) /\ (turn # 0 => snap \in Snaps)
  BY DEF LegsInv
<1>1. ASSUME NEW s \in Snaps, Publish(s) PROVE LegsInv'
  BY <1>0, <1>1 DEF Publish, LegsInv
<1>2. CASE StoreFails
  BY <1>0, <1>2 DEF StoreFails, LegsInv
<1>3. CASE Observe \/ Evaluate
  BY <1>3, EvaluatesSafe
<1>4. CASE Accept
  <2>1. /\ legs # <<>> /\ parents' = parents /\ legs' = Tail(legs)
        /\ held' = Append(held, [parent |-> Len(parents), leg |-> Head(legs)])
        /\ turn' = turn /\ snap' = snap
    BY <1>4 DEF Accept
  <2>2. Sound(parents, Append(held, [parent |-> Len(parents), leg |-> Head(legs)]),
              Tail(legs))
    BY <1>0, <2>1, SoundAccepts
  <2> QED
    BY <1>0, <2>1, <2>2 DEF LegsInv
<1>5. CASE Decline
  <2>1. /\ legs # <<>> /\ legs' \in {Tail(legs), <<>>}
        /\ parents' = [parents EXCEPT ![Len(parents)].failed = TRUE]
        /\ held' = held /\ turn' = turn /\ snap' = snap
    BY <1>5 DEF Decline
  <2>2. LastFailed(parents', parents)
    BY <2>1 DEF LastFailed
  <2>3. /\ legs # <<>> /\ legs' \in {Tail(legs), <<>>}
        /\ held' = held /\ turn' = turn /\ snap' = snap
    BY <2>1
  <2>4. Sound(parents', held, legs')
    BY <1>0, <2>2, <2>3, SoundFails
  <2> QED
    BY <1>0, <2>3, <2>4 DEF LegsInv
<1>6. CASE DeskRestart
  <2>1. /\ legs' = <<>> /\ held' = held /\ turn' = 0
        /\ parents' = IF legs = <<>> THEN parents
                      ELSE [parents EXCEPT ![Len(parents)].failed = TRUE]
    BY <1>6 DEF DeskRestart
  <2>2. CASE legs = <<>>
    BY <1>0, <2>1, <2>2 DEF LegsInv
  <2>3. CASE legs # <<>>
    <3>1. LastFailed(parents', parents) /\ legs' \in {Tail(legs), <<>>}
      BY <2>1, <2>3 DEF LastFailed
    <3>2. Sound(parents', held, legs')
      BY <1>0, <2>3, <3>1, SoundFails
    <3> QED
      BY <2>1, <3>2 DEF LegsInv
  <2> QED
    BY <2>2, <2>3
<1>7. CASE UNCHANGED deskVars
  BY <1>0, <1>7 DEF deskVars, LegsInv
<1> QED
  BY <1>1, <1>2, <1>3, <1>4, <1>5, <1>6, <1>7 DEF DeskNext

-----------------------------------------------------------------------------
(* What is held of a complete spread is what its strategy returned.          *)
LEMMA HeldWhole ==
  ASSUME LegsInv, NEW p \in DOMAIN parents, Complete(p), NEW price \in Int
  PROVE  PerUnit(p, price) = Payoff(parents[p].legs, price)
<1> DEFINE all == parents[p].legs
<1>1. /\ parents \in Seq(SpreadType) /\ held \in Seq(HeldType)
      /\ p \in 1 .. Len(parents) /\ ~parents[p].failed
  BY DEF LegsInv, Sound, Typed, Complete
<1>2. HeldInOrder(all, p, held, <<>>)
  <2>1. HeldInOrder(all, p, held, Todo(parents, p, legs))
    BY <1>1 DEF LegsInv, Sound
  <2>2. Todo(parents, p, legs) = <<>>
    BY DEF Todo, Complete, Pending
  <2> QED
    BY <2>1, <2>2
<1>3. all \in Seq(LegType)
  <2>1. parents[p] \in SpreadType
    BY <1>1
  <2> QED
    BY <2>1 DEF SpreadType
<1>4. PICK base \in Nat, k \in Nat :
        /\ k + Len(<<>>) = Len(all) /\ base + k <= Len(held)
        /\ <<>> # <<>> => base + k = Len(held)
        /\ \A n \in 1 .. Len(held) : held[n].parent = p <=> n \in base + 1 .. base + k
        /\ \A i \in 1 .. k : held[base + i].leg = all[i]
        /\ \A j \in 1 .. Len(<<>>) : <<>>[j] = all[k + j]
  BY <1>2, Zenon DEF HeldInOrder
<1> HIDE DEF all
<1>5. k = Len(all) /\ DOMAIN held = 1 .. Len(held) /\ Len(held) \in Nat
      /\ DOMAIN all = 1 .. k
  BY <1>1, <1>3, <1>4
<1>6. HeldOf(p) = base + 1 .. base + k
  <2>1. \A n \in base + 1 .. base + k : n \in 1 .. Len(held)
    BY <1>4, <1>5
  <2> QED
    BY <1>4, <1>5, <2>1 DEF HeldOf
<1> DEFINE f == [n \in DOMAIN held |-> Settles(held[n].leg, price)]
           g == [n \in DOMAIN all |-> Settles(all[n], price)]
<1>7. ASSUME NEW i \in 1 .. k PROVE f[base + i] \in Int /\ g[i] = f[base + i]
  <2>1. base + i \in DOMAIN held /\ i \in DOMAIN all
    BY <1>4, <1>5
  <2>2. held[base + i].leg = all[i] /\ all[i] \in LegType
    BY <1>3, <1>4, <1>5, <2>1
  <2>3. Settles(all[i], price) \in Int
    <3>1. /\ Settles(all[i], price) = all[i].qty * (Inner(all[i], price) - all[i].price)
          /\ all[i].qty \in Int /\ all[i].price \in Int /\ all[i].strike \in Int
      BY <2>2, LegSettles DEF LegType
    <3>2. Inner(all[i], price) \in Int
      BY <3>1 DEF Inner, Excess
    <3> QED
      BY <3>1, <3>2
  <2> QED
    BY <2>1, <2>2, <2>3
<1>8. PerUnit(p, price) = SumFunctionOnSet(f, base + 1 .. base + k)
  BY <1>6 DEF PerUnit
<1>9. Payoff(all, price) = SumFunctionOnSet(g, 1 .. k)
  BY <1>5 DEF Payoff
<1> HIDE DEF f, g
<1>10. SumFunctionOnSet(f, base + 1 .. base + k) = SumFunctionOnSet(g, 1 .. k)
  BY <1>7, SumShifts
<1> QED
  BY <1>8, <1>9, <1>10 DEF all

LEMMA KinksAreNumbers ==
  ASSUME LegsInv, NEW p \in DOMAIN parents, Complete(p)
  PROVE  Kinks(p) \subseteq Int
<1> DEFINE all == parents[p].legs
           K == {held[n].leg.strike : n \in HeldOf(p)}
<1>1. /\ parents \in Seq(SpreadType) /\ held \in Seq(HeldType)
      /\ p \in 1 .. Len(parents) /\ ~parents[p].failed
  BY DEF LegsInv, Sound, Typed, Complete
<1>2. HeldInOrder(all, p, held, <<>>) /\ all # <<>> /\ all \in Seq(LegType)
  <2>1. HeldInOrder(all, p, held, Todo(parents, p, legs)) /\ SafeLegs(parents[p].kind, all)
    BY <1>1 DEF LegsInv, Sound
  <2>2. Todo(parents, p, legs) = <<>>
    BY DEF Todo, Complete, Pending
  <2> QED
    BY <2>1, <2>2 DEF SafeLegs
<1>3. HeldOf(p) # {}
  <2>1. PICK base \in Nat, k \in Nat :
          /\ k + Len(<<>>) = Len(all) /\ base + k <= Len(held)
          /\ <<>> # <<>> => base + k = Len(held)
          /\ \A n \in 1 .. Len(held) : held[n].parent = p <=> n \in base + 1 .. base + k
          /\ \A i \in 1 .. k : held[base + i].leg = all[i]
          /\ \A j \in 1 .. Len(<<>>) : <<>>[j] = all[k + j]
    BY <1>2, Zenon DEF HeldInOrder
  <2>2. Len(all) \in Nat \ {0} /\ Len(held) \in Nat
    BY <1>1, <1>2
  <2>3. base + 1 \in 1 .. Len(held) /\ base + 1 \in base + 1 .. base + k
    BY <2>1, <2>2
  <2> QED
    BY <1>1, <2>1, <2>3 DEF HeldOf
<1>4. IsFiniteSet(HeldOf(p)) /\ HeldOf(p) \subseteq 1 .. Len(held)
  <2>1. Len(held) \in Nat /\ HeldOf(p) \subseteq 1 .. Len(held)
    BY <1>1 DEF HeldOf
  <2>2. IsFiniteSet(1 .. Len(held))
    BY <2>1, FS_Interval
  <2> QED
    BY <2>1, <2>2, FS_Subset
<1>5. K \in SUBSET Int /\ K # {} /\ IsFiniteSet(K)
  <2> DEFINE g == [n \in HeldOf(p) |-> held[n].leg.strike]
             G == {g[n] : n \in HeldOf(p)}
  <2>1. \A n \in HeldOf(p) : held[n].leg.strike \in Int
    <3> TAKE n \in HeldOf(p)
    <3>1. held[n] \in HeldType
      BY <1>1, <1>4
    <3>2. held[n].leg \in LegType
      BY <3>1 DEF HeldType
    <3> QED
      BY <3>2 DEF LegType
  <2>2. K = G /\ K # {} /\ K \in SUBSET Int
    BY <1>3, <2>1
  <2> HIDE DEF g
  <2>3. IsFiniteSet(G)
    BY <1>4, ImageFinite
  <2> QED
    BY <2>2, <2>3
<1>6. Kinks(p) = K \cup {0, 2 * Max(K)}
  BY DEF Kinks
<1> HIDE DEF K
<1>7. Max(K) \in Int
  BY <1>5, GreatestMember
<1> DEFINE far == 2 * Max(K)
<1>8. far \in Int /\ K \subseteq Int
  BY <1>5, <1>7
<1> HIDE DEF far
<1>9. K \cup {0, far} \subseteq Int
  BY <1>8
<1> QED
  BY <1>6, <1>9 DEF far

(* The loss is bounded wherever the underlying settles, not only at the      *)
(* strikes that LossBounded tries.                                           *)
BoundedAnywhere ==
  \A p \in DOMAIN parents :
    Complete(p) /\ (parents[p].kind = "butterfly" => EvenWings(p)) =>
      \A price \in Int : Worth(p, price) >= -(LotSize * Budget)

LEMMA PayoffType ==
  ASSUME NEW out \in Seq(LegType), Len(out) \in {2, 3, 4}, NEW price \in Int
  PROVE  Payoff(out, price) \in Int
<1> DEFINE f == [n \in 1 .. Len(out) |->
                   out[n].qty * (Inner(out[n], price) - out[n].price)]
           k == Len(out)
<1>1. /\ Payoff(out, price) = SumFunctionOnSet(f, 1 .. k)
      /\ \A n \in 1 .. k : f[n] \in Int
  BY PayoffIs
<1>2. k \in {2, 3, 4}
  OBVIOUS
<1> HIDE DEF f, k
<1>3. SumFunctionOnSet(f, 1 .. k)
        = f[1] + f[2] + (IF k > 2 THEN f[3] ELSE 0) + (IF k > 3 THEN f[4] ELSE 0)
  BY <1>1, <1>2, SumOfFew
<1> QED
  BY <1>1, <1>2, <1>3

LEMMA Manifold ==
  ASSUME NEW n \in Nat, NEW a \in Int, NEW b \in Int, a >= b
  PROVE  n * a >= n * b
OBVIOUS

LEMMA DeskLosesLittle ==
  ASSUME LegsInv
  PROVE  BoundedAnywhere
<1>1. SUFFICES ASSUME NEW p \in DOMAIN parents, Complete(p),
                      parents[p].kind = "butterfly" => EvenWings(p),
                      NEW price \in Int
               PROVE  Worth(p, price) >= -(LotSize * Budget)
  BY DEF BoundedAnywhere
<1>2. PerUnit(p, price) = Payoff(parents[p].legs, price)
  BY <1>1, HeldWhole
<1>3. SafeLegs(parents[p].kind, parents[p].legs)
  BY <1>1 DEF LegsInv, Sound, Typed
<1>4. Narrow(parents[p].kind, parents[p].legs)
  BY <1>1 DEF Narrow, EvenWings
<1>5. Payoff(parents[p].legs, price) >= -Budget
  BY <1>1, <1>3, <1>4 DEF SafeLegs
<1> DEFINE y == PerUnit(p, price)
<1>6. y \in Int /\ -Budget \in Int /\ Budget \in Int /\ LotSize \in Nat
  BY <1>1, <1>2, <1>3, PayoffType, OptionDeskAssumption DEF SafeLegs
<1>7. y >= -Budget
  BY <1>2, <1>5
<1>8. Worth(p, price) = LotSize * y
  BY DEF Worth
<1> HIDE DEF y
<1>9. LotSize * y >= LotSize * (-Budget)
  BY <1>6, <1>7, Manifold
<1>10. LotSize * (-Budget) = -(LotSize * Budget)
  BY <1>6
<1> QED
  BY <1>8, <1>9, <1>10

(* A spread whose legs were all accepted never loses more than its budget    *)
(* times the size of a lot, at whatever price the underlying settles: what   *)
(* the option strategies compute as the worst loss of a unit, and the lots   *)
(* from it, is a bound.  It is one of rupees only if a lot is one unit.      *)
THEOREM LossBoundedAnywhere == DeskSpec => []BoundedAnywhere
<1>1. DeskInit => LegsInv
  BY LegsStart
<1>2. LegsInv /\ [DeskNext]_deskVars => LegsInv'
  BY LegsStay, OptionDeskAssumption
<1>3. LegsInv => BoundedAnywhere
  BY DeskLosesLittle
<1> QED
  BY <1>1, <1>2, <1>3, PTL DEF DeskSpec

(* In particular at the strikes, where its worth bends.                      *)
THEOREM LossAlwaysBounded == DeskSpec => []LossBounded
<1>1. DeskInit => LegsInv
  BY LegsStart
<1>2. LegsInv /\ [DeskNext]_deskVars => LegsInv'
  BY LegsStay, OptionDeskAssumption
<1>3. LegsInv => LossBounded
  <2> SUFFICES ASSUME LegsInv, NEW p \in DOMAIN parents, Complete(p),
                      parents[p].kind = "butterfly" => EvenWings(p),
                      NEW price \in Kinks(p)
               PROVE  Worth(p, price) >= -(LotSize * Budget)
    BY DEF LossBounded
  <2>1. price \in Int
    BY KinksAreNumbers
  <2>2. BoundedAnywhere
    BY DeskLosesLittle
  <2> QED
    BY <2>1, <2>2 DEF BoundedAnywhere
<1> QED
  BY <1>1, <1>2, <1>3, PTL DEF DeskSpec
=============================================================================
