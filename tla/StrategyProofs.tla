----------------------------- MODULE StrategyProofs -----------------------------
(* Theorems about the equity strategies, the bars they judge and the tick    *)
(* socket, for every value of their constants.                               *)
EXTENDS MarketFeed, SwingBreakout, VwapReversion, TickSocket, NumberTheorems,
        SequenceTheorems

-----------------------------------------------------------------------------
(* The swing strategy: the last bar is in the base that it has to break.     *)
PriceType == [high : Int, low : Int, close : Int]
SwingInv ==
  /\ past \in Seq(PriceType)
  /\ ~bought

LEMMA LastIsInBase ==
  ASSUME NEW s \in Seq(PriceType), Len(s) = LongAvg,
         Last(s).close <= Last(s).high
  PROVE  ~Breaks(s)
<1> DEFINE n == Len(s)
           base == Base(s)
           m == Len(base)
           highs == {base[i].high : i \in 1 .. m}
<1>1. n \in Nat /\ Lookback \in 1 .. n
  BY SwingAssumption
<1>2. base = SubSeq(s, n - Lookback + 1, n)
  BY DEF Base, Latest
<1>3. base \in Seq(PriceType) /\ m = Lookback
      /\ \A i \in 1 .. Lookback : base[i] = s[n - Lookback + i]
  <2> DEFINE from == n - Lookback + 1
  <2>1. from \in 1 .. n + 1 /\ n \in from - 1 .. n /\ n - from + 1 = Lookback
        /\ Lookback \in Nat
        /\ \A i \in 1 .. Lookback : from + i - 1 = n - Lookback + i
    BY <1>1
  <2>2. \A i \in from .. n : s[i] \in PriceType
    BY <1>1
  <2>3. from \in Int /\ n \in Int /\ from <= n
    BY <1>1
  <2> HIDE DEF from, base, m
  <2>4. /\ SubSeq(s, from, n) \in Seq(PriceType)
        /\ Len(SubSeq(s, from, n)) = n - from + 1
        /\ \A i \in 1 .. n - from + 1 : SubSeq(s, from, n)[i] = s[from + i - 1]
    BY <2>2, <2>3, SubSeqProperties
  <2>5. base = SubSeq(s, from, n)
    BY <1>2 DEF from
  <2> QED
    BY <2>1, <2>4, <2>5 DEF m
<1>4. base[m] = Last(s) /\ m \in 1 .. m
  BY <1>1, <1>3 DEF Last
<1>5. \A i \in 1 .. m : base[i].high \in Int
  <2>1. \A x \in PriceType : x.high \in Int
    BY DEF PriceType
  <2> HIDE DEF base
  <2> QED
    BY <1>3, <2>1
<1> HIDE DEF base, m
<1>6. highs \subseteq Int /\ highs # {} /\ Last(s).high \in highs
  BY <1>4, <1>5
<1>7. IsFiniteSet(highs)
  <2> DEFINE f == [i \in 1 .. m |-> base[i].high]
  <2>1. m \in Nat
    BY <1>1, <1>3
  <2>2. IsFiniteSet({f[i] : i \in 1 .. m})
    <3> HIDE DEF f
    <3> QED
      BY <2>1, ValuesFinite
  <2>3. {f[i] : i \in 1 .. m} = highs
    OBVIOUS
  <2> QED
    BY <2>2, <2>3
<1>8. BaseHigh(s) = Max(highs)
  BY DEF BaseHigh, base, m
<1> HIDE DEF highs
<1>9. Last(s).high <= BaseHigh(s) /\ BaseHigh(s) \in Int
  BY <1>6, <1>7, <1>8, GreatestMember
<1>10. Last(s) \in PriceType
  BY <1>1 DEF Last
<1> QED
  BY <1>9, <1>10 DEF Breaks, PriceType

LEMMA SwingInvNext == SwingInv /\ [SwingNext]_swingVars => SwingInv'
<1> SUFFICES ASSUME SwingInv, [SwingNext]_swingVars PROVE SwingInv'
  OBVIOUS
<1>1. CASE UNCHANGED swingVars
  BY <1>1 DEF swingVars, SwingInv
<1>2. ASSUME NEW bar \in DailyBars, NEW affordable \in BOOLEAN,
             SwingOnBar(bar, affordable)
      PROVE  SwingInv'
  <2> DEFINE x == [high |-> bar.high, low |-> bar.low, close |-> bar.close]
  <2>1. x \in PriceType /\ x.close <= x.high
    BY SwingAssumption DEF PriceType
  <2>2. past' = Kept(past, x, LongAvg) /\ past \in Seq(PriceType)
    BY <1>2 DEF SwingOnBar, Update, SwingInv
  <2> HIDE DEF x
  <2>3. past' \in Seq(PriceType) /\ Last(past') = x
    <3>1. \A s \in Seq(PriceType) :
            Append(s, x) \in Seq(PriceType) /\ Last(Append(s, x)) = x
      BY <2>1 DEF Last
    <3>2. Len(past) < LongAvg \/ Tail(past) \in Seq(PriceType)
      BY <2>2, SwingAssumption, HeadTailProperties
    <3> QED
      BY <2>2, <3>1, <3>2 DEF Kept
  <2>4. Len(past') = LongAvg => ~Breaks(past')
    BY <2>1, <2>3, LastIsInBase
  <2> QED
    BY <1>2, <2>3, <2>4 DEF SwingOnBar, SwingInv
<1> QED
  BY <1>1, <1>2 DEF SwingNext

(* Whatever the bars and the lengths of its averages and its base: the swing *)
(* strategy never enters.                                                    *)
THEOREM SwingNeverBuys == SwingSpec => []NeverBuys
<1>1. SwingInit => SwingInv
  BY DEF SwingInit, SwingInv
<1>2. SwingInv => NeverBuys
  BY DEF SwingInv, NeverBuys
<1> QED
  BY <1>1, <1>2, SwingInvNext, PTL DEF SwingSpec

-----------------------------------------------------------------------------
(* The tick socket: an instrument will be served once the messages under way *)
(* are handled (Ends) exactly if it is wanted or was revived.                *)
Message == [code : {"subscribe", "unsubscribe"}, tokens : SUBSET Scrips]
Silenced(w, x, n) == \A j \in DOMAIN w : j > n => x \notin w[j].tokens
Ends(w, served0, x) ==
  \/ \E i \in DOMAIN w : /\ w[i].code = "subscribe" /\ x \in w[i].tokens
                         /\ Silenced(w, x, i)
  \/ x \in served0 /\ Silenced(w, x, 0)
SocketInv ==
  /\ wire \in Seq(Message)
  /\ wanted \subseteq subscriptions /\ subscriptions \subseteq Scrips
  /\ served \cup wanted \cup revived \subseteq Scrips
  /\ line = "up" =>
       \A x \in Scrips : Ends(wire, served, x) <=> x \in wanted \cup revived

(* A message more: it decides for its instruments, and nothing for others.   *)
LEMMA EndsAppended ==
  ASSUME NEW w \in Seq(Message), NEW m \in Message, NEW S, NEW x
  PROVE  Ends(Append(w, m), S, x) <=>
           IF x \in m.tokens THEN m.code = "subscribe" ELSE Ends(w, S, x)
<1> DEFINE v == Append(w, m)
           n == Len(w)
<1>1. /\ n \in Nat /\ DOMAIN w = 1 .. n /\ DOMAIN v = 1 .. n + 1
      /\ v[n + 1] = m /\ \A i \in 1 .. n : v[i] = w[i]
  BY AppendProperties
<1> HIDE DEF v, n
<1>2. \A i : i \in 1 .. n + 1 <=> i \in 1 .. n \/ i = n + 1
  BY <1>1
<1>3. \A i \in 0 .. n : Silenced(v, x, i) <=>
                          Silenced(w, x, i) /\ x \notin m.tokens
  BY <1>1, <1>2 DEF Silenced
<1>4. Silenced(v, x, n + 1)
  BY <1>1 DEF Silenced
<1>5. \A i \in 1 .. n : i \in 0 .. n
  BY <1>1
<1>6. 0 \in 0 .. n
  BY <1>1
<1>7. Ends(v, S, x) <=>
        \/ \E i \in 1 .. n : /\ w[i].code = "subscribe" /\ x \in w[i].tokens
                             /\ Silenced(w, x, i) /\ x \notin m.tokens
        \/ m.code = "subscribe" /\ x \in m.tokens
        \/ x \in S /\ Silenced(w, x, 0) /\ x \notin m.tokens
  BY <1>1, <1>2, <1>3, <1>4, <1>5, <1>6, Zenon DEF Ends
<1>8. Ends(w, S, x) <=>
        \/ \E i \in 1 .. n : /\ w[i].code = "subscribe" /\ x \in w[i].tokens
                             /\ Silenced(w, x, i)
        \/ x \in S /\ Silenced(w, x, 0)
  BY <1>1, Zenon DEF Ends
<1>9. CASE x \in m.tokens
  BY <1>7, <1>9 DEF v
<1>10. CASE x \notin m.tokens
  BY <1>7, <1>8, <1>10 DEF v
<1> QED
  BY <1>9, <1>10

(* The first message handled: nothing changes in the end.                    *)
LEMMA EndsHandled ==
  ASSUME NEW w \in Seq(Message), w # <<>>, NEW S, NEW x
  PROVE  Ends(w, S, x) <=>
           Ends(Tail(w), IF Head(w).code = "subscribe"
                         THEN S \cup Head(w).tokens
                         ELSE S \ Head(w).tokens, x)
<1> DEFINE v == Tail(w)
           n == Len(v)
           m == Head(w)
           R == IF m.code = "subscribe" THEN S \cup m.tokens ELSE S \ m.tokens
<1>1. /\ n \in Nat /\ DOMAIN v = 1 .. n /\ DOMAIN w = 1 .. n + 1
      /\ m = w[1] /\ \A i \in 1 .. n : v[i] = w[i + 1]
  BY HeadTailProperties
<1> HIDE DEF v, n, m
<1>2. /\ \A i : i \in 1 .. n + 1 => i = 1 \/ i - 1 \in 1 .. n
      /\ \A i \in 1 .. n : i + 1 \in 1 .. n + 1 /\ i + 1 # 1
  BY <1>1
<1>3. \A i \in 0 .. n : Silenced(v, x, i) <=> Silenced(w, x, i + 1)
  <2>1. SUFFICES ASSUME NEW i \in 0 .. n
                 PROVE  Silenced(v, x, i) <=> Silenced(w, x, i + 1)
    OBVIOUS
  <2>2. ASSUME Silenced(w, x, i + 1) PROVE Silenced(v, x, i)
    <3>1. \A j \in 1 .. n : j > i => j + 1 > i + 1 /\ j + 1 \in 1 .. n + 1
      BY <1>1
    <3> QED
      BY <1>1, <2>2, <3>1 DEF Silenced
  <2>3. ASSUME Silenced(v, x, i), NEW j \in 1 .. n + 1, j > i + 1
        PROVE  x \notin w[j].tokens
    <3> DEFINE k == j - 1
    <3>1. k \in 1 .. n /\ k > i /\ j = k + 1
      BY <1>1, <2>3
    <3> HIDE DEF k
    <3> QED
      BY <1>1, <2>3, <3>1 DEF Silenced
  <2> QED
    BY <1>1, <2>2, <2>3 DEF Silenced
<1>4. Silenced(w, x, 0) <=> x \notin m.tokens /\ Silenced(w, x, 1)
  <2>1. \A j \in 1 .. n + 1 : j > 0 /\ (j = 1 \/ j > 1)
    BY <1>1
  <2>2. 1 \in 1 .. n + 1 /\ 1 > 0 /\ ~(1 > 1)
    BY <1>1
  <2>3. \A j \in 1 .. n + 1 : j > 1 => j > 0
    BY <1>1
  <2> QED
    BY <1>1, <2>1, <2>2, <2>3, Zenon DEF Silenced
<1>5. Silenced(v, x, 0) <=> Silenced(w, x, 1)
  BY <1>1, <1>3
<1> DEFINE Takes(i) == /\ w[i].code = "subscribe" /\ x \in w[i].tokens
                       /\ Silenced(w, x, i)
<1>6. Ends(w, S, x) <=> (\E i \in 1 .. n + 1 : Takes(i))
                        \/ (x \in S /\ Silenced(w, x, 0))
  BY <1>1, Zenon DEF Ends
<1>7. \A i \in 1 .. n : Takes(i + 1) <=>
                          /\ v[i].code = "subscribe" /\ x \in v[i].tokens
                          /\ Silenced(v, x, i)
  <2>1. \A i \in 1 .. n : i \in 0 .. n
    BY <1>1
  <2> QED
    BY <1>1, <1>3, <2>1, Zenon
<1>8. Ends(v, R, x) <=> (\E i \in 1 .. n : Takes(i + 1))
                        \/ (x \in R /\ Silenced(v, x, 0))
  <2> HIDE DEF R, Takes
  <2> QED
    BY <1>1, <1>7, Zenon DEF Ends
<1>9. Takes(1) <=> m.code = "subscribe" /\ x \in m.tokens /\ Silenced(w, x, 1)
  BY <1>1
<1> HIDE DEF Takes
<1>10. (\E i \in 1 .. n + 1 : Takes(i))
         <=> Takes(1) \/ (\E i \in 1 .. n : Takes(i + 1))
  <2>1. ASSUME NEW i \in 1 .. n + 1, Takes(i)
        PROVE  Takes(1) \/ (\E k \in 1 .. n : Takes(k + 1))
    <3> DEFINE k == i - 1
    <3>1. i = 1 \/ (k \in 1 .. n /\ i = k + 1)
      BY <1>1
    <3> HIDE DEF k
    <3> QED
      BY <2>1, <3>1
  <2> QED
    BY <1>1, <1>2, <2>1
<1> QED
  BY <1>4, <1>5, <1>6, <1>8, <1>9, <1>10 DEF v, m

Settled == \A x \in Scrips : Ends(wire, served, x) <=> x \in wanted \cup revived

LEMMA EndsOfNothing ==
  ASSUME NEW S, NEW x
  PROVE  Ends(<<>>, S, x) <=> x \in S
BY DEF Ends, Silenced

LEMMA SentMessage ==
  ASSUME SocketInv, NEW tokens \in SUBSET Scrips,
         NEW code \in {"subscribe", "unsubscribe"}, Sent(code, tokens),
         line = "up", served' = served
  PROVE  /\ wire' \in Seq(Message)
         /\ \A x \in Scrips :
              Ends(wire', served', x) <=>
                IF x \in tokens THEN code = "subscribe"
                ELSE x \in wanted \cup revived
<1> DEFINE m == [code |-> code, tokens |-> tokens]
<1>1. m \in Message /\ m.tokens = tokens /\ m.code = code
  BY DEF Message
<1>2. wire' = Append(wire, m) /\ wire \in Seq(Message)
  BY DEF Sent, SocketInv
<1> HIDE DEF m
<1>3. wire' \in Seq(Message)
  BY <1>1, <1>2, AppendProperties
<1>4. \A x \in Scrips : Ends(wire', served', x) <=>
                          IF x \in tokens THEN code = "subscribe"
                          ELSE Ends(wire, served, x)
  BY <1>1, <1>2, EndsAppended
<1> QED
  BY <1>3, <1>4 DEF SocketInv

LEMMA SocketInvNext == SocketInv /\ [SocketNext]_socketVars => SocketInv'
<1> SUFFICES ASSUME SocketInv, [SocketNext]_socketVars PROVE SocketInv'
  OBVIOUS
<1>1. ASSUME NEW tokens \in SUBSET Scrips, Subscribe(tokens) PROVE SocketInv'
  <2>1. /\ subscriptions' = subscriptions \cup tokens
        /\ wanted' = wanted \cup tokens /\ revived' = revived \ tokens
        /\ served' = served /\ Sent("subscribe", tokens)
        /\ line' = "up" => line = "up"
    BY <1>1 DEF Subscribe
  <2>2. wire' \in Seq(Message)
    BY <2>1, SentMessage DEF SocketInv, Sent
  <2>3. line' = "up" => Settled'
    <3>1. SUFFICES ASSUME line = "up" PROVE Settled'
      BY <2>1
    <3>2. \A x \in Scrips : Ends(wire', served', x) <=>
                              x \in tokens \/ x \in wanted \cup revived
      BY <2>1, <3>1, SentMessage
    <3> QED
      BY <2>1, <3>2 DEF Settled
  <2> QED
    BY <2>1, <2>2, <2>3 DEF SocketInv, Settled
<1>2. ASSUME NEW tokens \in SUBSET Scrips, Unsubscribe(tokens)
      PROVE  SocketInv'
  <2>1. /\ line' = line /\ subscriptions' = subscriptions
        /\ wanted' = wanted \ tokens /\ revived' \subseteq revived
        /\ line = "up" => revived' = revived \ tokens
        /\ served' = served /\ Sent("unsubscribe", tokens)
    BY <1>2 DEF Unsubscribe
  <2>2. wire' \in Seq(Message)
    BY <2>1, SentMessage DEF SocketInv, Sent
  <2>3. line' = "up" => Settled'
    <3>1. SUFFICES ASSUME line = "up" PROVE Settled'
      BY <2>1
    <3>2. \A x \in Scrips : Ends(wire', served', x) <=>
                              x \notin tokens /\ x \in wanted \cup revived
      BY <2>1, <3>1, SentMessage
    <3> QED
      BY <2>1, <3>1, <3>2 DEF Settled
  <2> QED
    BY <2>1, <2>2, <2>3 DEF SocketInv, Settled
<1>3. CASE Connect
  <2> DEFINE m == [code |-> "subscribe", tokens |-> subscriptions]
  <2>1. /\ served' = {} /\ wanted' = wanted /\ subscriptions' = subscriptions
        /\ revived' = subscriptions \ wanted
        /\ wire' = IF subscriptions = {} THEN <<>> ELSE <<m>>
    BY <1>3 DEF Connect
  <2>2. /\ m \in Message /\ m.code = "subscribe" /\ m.tokens = subscriptions
        /\ <<>> \in Seq(Message) /\ <<m>> = Append(<<>>, m)
    BY DEF SocketInv, Message
  <2> HIDE DEF m
  <2>3. wire' \in Seq(Message)
    BY <2>1, <2>2
  <2>4. \A x \in Scrips : Ends(wire', served', x) <=> x \in subscriptions
    <3>1. CASE subscriptions = {}
      BY <2>1, <3>1, EndsOfNothing
    <3>2. CASE subscriptions # {}
      <4>1. \A x \in Scrips : Ends(Append(<<>>, m), {}, x) <=>
                                IF x \in subscriptions THEN TRUE
                                ELSE Ends(<<>>, {}, x)
        BY <2>2, EndsAppended
      <4>2. wire' = Append(<<>>, m) /\ served' = {}
        BY <2>1, <2>2, <3>2
      <4> QED
        BY <4>1, <4>2, EndsOfNothing
    <3> QED
      BY <3>1, <3>2
  <2>5. wanted' \cup revived' = subscriptions
    BY <2>1 DEF SocketInv
  <2>6. Settled'
    BY <2>4, <2>5 DEF Settled
  <2> QED
    BY <2>1, <2>3, <2>6 DEF SocketInv, Settled
<1>4. CASE Handle
  <2>1. /\ UNCHANGED <<line, subscriptions, wanted, revived>>
        /\ line = "up" /\ wire # <<>> /\ wire' = Tail(wire)
        /\ served' = IF Head(wire).code = "subscribe"
                     THEN served \cup Head(wire).tokens
                     ELSE served \ Head(wire).tokens
    BY <1>4 DEF Handle
  <2>2. wire \in Seq(Message)
    BY DEF SocketInv
  <2>3. wire' \in Seq(Message) /\ Head(wire) \in Message
    BY <2>1, <2>2, HeadTailProperties
  <2>4. \A x : Ends(wire', served', x) <=> Ends(wire, served, x)
    BY <2>1, <2>2, EndsHandled
  <2>5. Settled'
    BY <2>1, <2>4 DEF SocketInv, Settled
  <2>6. served' \subseteq Scrips
    <3>1. Head(wire).tokens \subseteq Scrips
      BY <2>3 DEF Message
    <3> QED
      BY <2>1, <3>1 DEF SocketInv
  <2> QED
    BY <2>1, <2>3, <2>5, <2>6 DEF SocketInv, Settled
<1>5. CASE Lose \/ HandlerRaises
  <2>1. /\ line' # "up" /\ wire' = <<>> /\ served' = {}
        /\ UNCHANGED <<subscriptions, wanted, revived>>
    BY <1>5 DEF Lose, HandlerRaises
  <2> QED
    BY <2>1 DEF SocketInv
<1>6. CASE CloseFeed
  <2>1. /\ line' # "up" /\ wire' = <<>> /\ served' = {} /\ subscriptions' = {}
        /\ wanted' = {} /\ revived' = {}
    BY <1>6 DEF CloseFeed
  <2> QED
    BY <2>1 DEF SocketInv
<1>7. CASE Notice \/ UnsubscribeFails \/ UNCHANGED socketVars
  <2>1. /\ UNCHANGED <<subscriptions, wire, served, wanted, revived>>
        /\ line' = "up" => line = "up"
    BY <1>7 DEF Notice, UnsubscribeFails, socketVars
  <2> QED
    BY <2>1 DEF SocketInv
<1> QED
  BY <1>1, <1>2, <1>3, <1>4, <1>5, <1>6, <1>7 DEF SocketNext

(* However calls, losses and reconnects follow one another, a connection     *)
(* that was told everything serves exactly what callers want, and what they  *)
(* had given up before it was made and have not given up again.              *)
THEOREM SocketServesTheWanted == SocketSpec => []ServesTheWanted
<1>1. SocketInit => SocketInv
  BY DEF SocketInit, SocketInv
<1>2. SocketInv => ServesTheWanted
  <2>1. SUFFICES ASSUME SocketInv, line = "up", wire = <<>>
                 PROVE  served = wanted \cup revived
    BY DEF ServesTheWanted
  <2>2. \A x \in Scrips : x \in served <=> x \in wanted \cup revived
    BY <2>1, EndsOfNothing DEF SocketInv
  <2> QED
    BY <2>1, <2>2 DEF SocketInv
<1> QED
  BY <1>1, <1>2, SocketInvNext, PTL DEF SocketSpec

---------------------------------------------------------------------------
(* VWAP reversion: the bars before the n-th at which a day's close was       *)
(* faded.                                                                    *)
Close == [day : Int, faded : BOOLEAN]
Earlier(c, n, d) == {k \in 1 .. n - 1 : c[k].day = d /\ c[k].faded}

Extends(longer, c) ==
  /\ longer \in Seq(Close) /\ Len(longer) = Len(c) + 1
  /\ \A k \in 1 .. Len(c) : longer[k] = c[k]

LEMMA EarlierIsFinite ==
  ASSUME NEW c, NEW n \in Nat, NEW d
  PROVE  IsFiniteSet(Earlier(c, n, d)) /\ Cardinality(Earlier(c, n, d)) \in Nat
<1>1. IsFiniteSet(1 .. n - 1)
  BY FS_Interval
<1>2. Earlier(c, n, d) \subseteq 1 .. n - 1
  BY DEF Earlier
<1> QED
  BY <1>1, <1>2, FS_Subset, FS_CardinalityType

LEMMA EarlierKept ==
  ASSUME NEW c \in Seq(Close), NEW longer, Extends(longer, c),
         NEW n \in 1 .. Len(c) + 1, NEW d
  PROVE  Earlier(longer, n, d) = Earlier(c, n, d)
<1>1. \A k \in 1 .. n - 1 : longer[k] = c[k]
  BY DEF Extends
<1> QED
  BY <1>1 DEF Earlier

LEMMA EarlierGrows ==
  ASSUME NEW c \in Seq(Close), NEW longer, Extends(longer, c), NEW d,
         longer[Len(longer)].day = d
  PROVE  Cardinality(Earlier(longer, Len(longer) + 1, d)) =
           Cardinality(Earlier(c, Len(c) + 1, d)) +
             (IF longer[Len(longer)].faded THEN 1 ELSE 0)
<1> DEFINE last == Len(longer)
<1>1. /\ last = Len(c) + 1 /\ last \in Nat \ {0} /\ Len(c) \in Nat
      /\ \A k \in 1 .. Len(c) : longer[k] = c[k]
  BY DEF Extends
<1>2. Earlier(longer, last + 1, d) =
        IF longer[last].faded THEN Earlier(c, last, d) \cup {last}
        ELSE Earlier(c, last, d)
  BY <1>1 DEF Earlier
<1>3. last \notin Earlier(c, last, d)
  BY <1>1 DEF Earlier
<1>4. /\ IsFiniteSet(Earlier(c, last, d))
      /\ Cardinality(Earlier(c, last, d)) \in Nat
  BY <1>1, EarlierIsFinite
<1>5. Cardinality(Earlier(c, last, d) \cup {last}) =
        Cardinality(Earlier(c, last, d)) + 1
  BY <1>3, <1>4, FS_AddElement
<1> QED
  BY <1>1, <1>2, <1>4, <1>5

(* The first MaxSignals of a day are faded, and the count is the day's.      *)
Fades(c) ==
  \A n \in 1 .. Len(c) :
    c[n].faded <=> Cardinality(Earlier(c, n, c[n].day)) < MaxSignals
Counts(c, d, count) ==
  /\ c \in Seq(Close) /\ \A k \in 1 .. Len(c) : c[k].day <= d
  /\ count = Cardinality(Earlier(c, Len(c) + 1, d))

ReversionInv ==
  /\ today \in Int /\ moment[1] \in Int
  /\ today = -1 => closes = <<>> /\ signals = 0
  /\ today # -1 => today = moment[1]
  /\ Counts(closes, today, signals)
  /\ Fades(closes)

LEMMA CountsOfLaterDay ==
  ASSUME NEW c, NEW d \in Int, NEW e \in Int, d < e, NEW count,
         Counts(c, d, count)
  PROVE  Counts(c, e, 0)
<1>1. c \in Seq(Close) /\ \A k \in 1 .. Len(c) : c[k].day <= d
  BY DEF Counts
<1>2. \A k \in 1 .. Len(c) : c[k].day \in Int
  <2>1. \A x \in Close : x.day \in Int
    BY DEF Close
  <2> QED
    BY <1>1, <2>1, ElementOfSeq
<1>3. \A k \in 1 .. Len(c) : c[k].day < e
  BY <1>1, <1>2
<1>4. Len(c) \in Nat /\ \A k \in 1 .. Len(c) : c[k].day <= e /\ c[k].day # e
  BY <1>1, <1>2, <1>3
<1>5. Earlier(c, Len(c) + 1, e) = {}
  BY <1>4 DEF Earlier
<1> QED
  BY <1>1, <1>4, <1>5, FS_EmptySet DEF Counts

LEMMA CountsOfNothing == \A d : Counts(<<>>, d, 0)
<1>1. \A d : Earlier(<<>>, Len(<<>>) + 1, d) = {}
  BY DEF Earlier
<1> QED
  BY <1>1, FS_EmptySet DEF Counts

LEMMA FadesAppended ==
  ASSUME NEW c, NEW d \in Int, NEW count, Counts(c, d, count), Fades(c),
         NEW fades \in BOOLEAN, fades <=> count < MaxSignals,
         NEW longer, longer = Append(c, [day |-> d, faded |-> fades])
  PROVE  /\ Fades(longer)
         /\ Counts(longer, d, count + (IF fades THEN 1 ELSE 0))
<1>1. c \in Seq(Close) /\ Len(c) \in Nat
  BY DEF Counts
<1>2. [day |-> d, faded |-> fades] \in Close
  BY DEF Close
<1>3. /\ longer \in Seq(Close) /\ Len(longer) = Len(c) + 1
      /\ \A k \in 1 .. Len(c) : longer[k] = c[k]
      /\ longer[Len(c) + 1] = [day |-> d, faded |-> fades]
  BY <1>1, <1>2, AppendProperties
<1>4. Extends(longer, c)
  BY <1>3 DEF Extends
<1>5. longer[Len(longer)].day = d /\ longer[Len(longer)].faded = fades
  BY <1>3
<1>6. Fades(longer)
  <2>1. SUFFICES ASSUME NEW n \in 1 .. Len(longer)
                 PROVE  longer[n].faded <=>
                   Cardinality(Earlier(longer, n, longer[n].day)) < MaxSignals
    BY DEF Fades
  <2>2. n \in 1 .. Len(c) + 1
    BY <1>3
  <2>3. Earlier(longer, n, longer[n].day) = Earlier(c, n, longer[n].day)
    BY <1>1, <1>4, <2>2, EarlierKept
  <2>4. CASE n \in 1 .. Len(c)
    BY <1>3, <2>3, <2>4 DEF Fades
  <2>5. CASE n = Len(c) + 1
    BY <1>3, <2>3, <2>5 DEF Counts
  <2> QED
    BY <1>1, <2>2, <2>4, <2>5
<1>7. \A k \in 1 .. Len(longer) : longer[k].day <= d
  <2>1. SUFFICES ASSUME NEW k \in 1 .. Len(longer) PROVE longer[k].day <= d
    OBVIOUS
  <2>2. CASE k \in 1 .. Len(c)
    BY <1>3, <2>2 DEF Counts
  <2>3. CASE k = Len(c) + 1
    BY <1>3, <2>3
  <2> QED
    BY <1>1, <1>3, <2>2, <2>3
<1>8. Cardinality(Earlier(longer, Len(longer) + 1, d)) =
        Cardinality(Earlier(c, Len(c) + 1, d)) +
          (IF longer[Len(longer)].faded THEN 1 ELSE 0)
  BY <1>1, <1>4, <1>5, EarlierGrows, ZenonT(60)
<1> QED
  BY <1>3, <1>5, <1>6, <1>7, <1>8 DEF Counts

LEMMA ReversionInvNext ==
  ReversionInv /\ [ReversionNext]_reversionVars => ReversionInv'
<1> SUFFICES ASSUME ReversionInv, [ReversionNext]_reversionVars
             PROVE  ReversionInv'
  OBVIOUS
<1>1. ASSUME NEW day \in 0 .. LastDay, NEW hour \in 0 .. LastTime,
             NEW volume \in {0, 1}, NEW distance \in {"near", "far"},
             ReversionOnBar(day, hour, volume, distance)
      PROVE  ReversionInv'
  <2> DEFINE count == SignalsOf(day)
  <2>1. PICK open \in BOOLEAN, fades \in BOOLEAN :
          /\ fades <=> open /\ count < MaxSignals
          /\ signals' = count + (IF fades THEN 1 ELSE 0)
          /\ closes' = IF open
                       THEN Append(closes, [day |-> day, faded |-> fades])
                       ELSE closes
    <3> DEFINE full == IF HasVwap(day, volume) THEN Filled(deviations)
                       ELSE deviations
               o == /\ HasVwap(day, volume) /\ full = Warmup
                    /\ hour < NoEntryAfter /\ distance = "far"
               f == o /\ SignalsOf(day) < MaxSignals
    <3>1. /\ signals' = SignalsOf(day) + (IF f THEN 1 ELSE 0)
          /\ closes' = IF o THEN Append(closes, [day |-> day, faded |-> f])
                       ELSE closes
      BY <1>1, Zenon DEF ReversionOnBar
    <3>2. o \in BOOLEAN /\ f \in BOOLEAN /\ (f <=> o /\ count < MaxSignals)
      OBVIOUS
    <3> HIDE DEF o, f
    <3>3. /\ f <=> o /\ count < MaxSignals
          /\ signals' = count + (IF f THEN 1 ELSE 0)
          /\ closes' = IF o THEN Append(closes, [day |-> day, faded |-> f])
                       ELSE closes
      BY <3>1, <3>2
    <3> HIDE DEF count
    <3> QED
      BY <3>2, <3>3, Zenon
  <2>2. today' = day /\ moment' = <<day, hour>> /\ day >= moment[1] /\ day \in Int
    BY <1>1 DEF ReversionOnBar, ReversionInv
  <2>3. Counts(closes, day, count)
    <3>1. CASE today = day
      BY <3>1 DEF ReversionInv, SignalsOf
    <3>2. CASE today # day /\ today = -1
      BY <3>2, CountsOfNothing DEF ReversionInv, SignalsOf
    <3>3. CASE today # day /\ today # -1
      <4>1. today < day /\ today \in Int
        BY <2>2, <3>3 DEF ReversionInv
      <4>2. Counts(closes, day, 0)
        BY <2>2, <4>1, CountsOfLaterDay DEF ReversionInv
      <4> QED
        BY <3>3, <4>2 DEF SignalsOf
    <3> QED
      BY <3>1, <3>2, <3>3
  <2>4. today' # -1 /\ today' \in Int /\ moment'[1] = today'
    BY <2>2
  <2> HIDE DEF count
  <2>a. Fades(closes)
    BY DEF ReversionInv
  <2>5. Fades(closes') /\ Counts(closes', day, signals')
    <3>1. CASE open
      <4>1. /\ fades <=> count < MaxSignals
            /\ closes' = Append(closes, [day |-> day, faded |-> fades])
        BY <2>1, <3>1
      <4>2. /\ Fades(closes')
            /\ Counts(closes', day, count + (IF fades THEN 1 ELSE 0))
        BY <2>2, <2>3, <2>a, <4>1, FadesAppended
      <4> QED
        BY <2>1, <4>2
    <3>2. CASE ~open
      <4>1. count \in Nat
        <5>1. closes \in Seq(Close)
          BY DEF ReversionInv, Counts
        <5> QED
          BY <2>3, <5>1, EarlierIsFinite DEF Counts
      <4>2. signals' = count /\ closes' = closes
        BY <2>1, <3>2, <4>1
      <4> QED
        BY <2>3, <2>a, <4>2
    <3> QED
      BY <3>1, <3>2
  <2> QED
    BY <2>2, <2>4, <2>5 DEF ReversionInv, Fades
<1>2. CASE ReversionRestart
  <2>1. /\ today' = -1 /\ signals' = 0 /\ closes' = <<>>
        /\ moment' = moment
    BY <1>2 DEF ReversionRestart
  <2>2. Counts(closes', today', signals') /\ Fades(closes')
    BY <2>1, CountsOfNothing DEF Fades
  <2> QED
    BY <2>1, <2>2 DEF ReversionInv, Fades
<1>3. CASE UNCHANGED reversionVars
  BY <1>3 DEF ReversionInv, Fades, reversionVars
<1> QED
  BY <1>1, <1>2, <1>3 DEF ReversionNext

(* Whatever bars come between, and on however many days, the strategy fades  *)
(* exactly the first MaxSignals closes of a day that can be faded.           *)
THEOREM ReversionFadesTheFirst == ReversionSpec => []FadesTheFirst
<1>1. ReversionInit => ReversionInv
  BY CountsOfNothing DEF ReversionInit, ReversionInv, Fades
<1>2. ReversionInv => FadesTheFirst
  <2>1. SUFFICES ASSUME ReversionInv PROVE FadesTheFirst
    OBVIOUS
  <2>2. DOMAIN closes = 1 .. Len(closes) /\ Fades(closes)
    BY <2>1 DEF ReversionInv, Counts
  <2> QED
    BY <2>2, Zenon DEF Fades, FadesTheFirst, Earlier
<1> QED
  BY <1>1, <1>2, ReversionInvNext, PTL DEF ReversionSpec

-----------------------------------------------------------------------------
(* The opening range strategy on the feed of ticks and bars (MarketFeed).    *)
(* Days, windows and bars: moments of a later day are later.                 *)
LEMMA MomentParts ==
  ASSUME NEW t \in Nat
  PROVE  /\ Day(t) \in Nat /\ TimeOfDay(t) \in Nat /\ TimeOfDay(t) < DayLength
         /\ t = DayLength * Day(t) + TimeOfDay(t)
<1>1. DayLength \in Positive
  BY SessionAssumption DEF Positive
<1>2. /\ Day(t) \in Int /\ TimeOfDay(t) \in Nat /\ TimeOfDay(t) < DayLength
      /\ t = DayLength * Day(t) + TimeOfDay(t)
  BY <1>1, Division DEF Day, TimeOfDay
<1> DEFINE d == Day(t)
           r == TimeOfDay(t)
<1>3. d \in Int /\ r \in Nat /\ r < DayLength /\ t = DayLength * d + r
  BY <1>2
<1> HIDE DEF d, r
<1>4. d >= 0
  <2>1. SUFFICES ASSUME d <= -1 PROVE FALSE
    BY <1>3
  <2>2. DayLength * d <= -DayLength
    BY <1>1, <1>3, <2>1, SMT DEF Positive
  <2> QED
    BY <1>1, <1>3, <2>2 DEF Positive
<1> QED
  BY <1>2, <1>3, <1>4 DEF d

LEMMA ProductGrows ==
  ASSUME NEW n \in Positive, NEW a \in Int, NEW b \in Int, a < b
  PROVE  n * a \in Int /\ n * b \in Int /\ n * a + n <= n * b
<1>1. n * (b - a) >= n
  BY SMT DEF Positive
<1>2. n * (b - a) = n * b - n * a
  BY SMT DEF Positive
<1>3. n * a \in Int /\ n * b \in Int
  BY SMT DEF Positive
<1> QED
  BY <1>1, <1>2, <1>3 DEF Positive

LEMMA LaterMoment ==
  ASSUME NEW a \in Nat, NEW b \in Nat, a <= b
  PROVE  Day(a) < Day(b) \/ (Day(a) = Day(b) /\ TimeOfDay(a) <= TimeOfDay(b))
<1>0. DayLength \in Positive
  BY SessionAssumption DEF Positive
<1> DEFINE d == Day(a)
           e == Day(b)
           r == TimeOfDay(a)
           s == TimeOfDay(b)
<1>1. /\ d \in Nat /\ r \in Nat /\ r < DayLength /\ a = DayLength * d + r
      /\ e \in Nat /\ s \in Nat /\ s < DayLength /\ b = DayLength * e + s
  BY MomentParts
<1> HIDE DEF d, e, r, s
<1>2. CASE e < d
  <2>1. DayLength * e \in Int /\ DayLength * d \in Int
        /\ DayLength * e + DayLength <= DayLength * d
    BY <1>0, <1>1, <1>2, ProductGrows
  <2> QED
    BY <1>0, <1>1, <2>1 DEF Positive
<1>3. CASE d = e
  <2>1. r <= s
    BY <1>0, <1>1, <1>3, SMT DEF Positive
  <2> QED
    BY <1>3, <2>1 DEF d, e, r, s
<1>4. CASE d < e
  BY <1>4 DEF d, e
<1> QED
  BY <1>1, <1>2, <1>3, <1>4

LEMMA PastStays ==
  ASSUME NEW a \in Nat, NEW b \in Nat, a <= b, NEW d \in Int, PastWindow(a, d)
  PROVE  PastWindow(b, d)
<1>1. RangeEnd \in Int
  BY SessionAssumption
<1>2. /\ Day(a) \in Nat /\ Day(b) \in Nat
      /\ TimeOfDay(a) \in Nat /\ TimeOfDay(b) \in Nat
  BY MomentParts
<1> QED
  BY <1>1, <1>2, LaterMoment DEF PastWindow

LEMMA PastIsOut ==
  ASSUME NEW t \in Nat, NEW d \in Int, PastWindow(t, d)
  PROVE  ~(Day(t) = d /\ InRange(t))
<1>1. RangeStart \in Int /\ RangeEnd \in Int
  BY SessionAssumption
<1>2. Day(t) \in Nat /\ TimeOfDay(t) \in Nat
  BY MomentParts
<1> QED
  BY <1>1, <1>2 DEF PastWindow, InRange

(* The window of a bar.                                                      *)
LEMMA Floors ==
  ASSUME NEW t \in Nat, NEW secs \in Positive
  PROVE  /\ FloorTs(t, secs) \in Nat /\ FloorTs(t, secs) <= t
         /\ t < FloorTs(t, secs) + secs
<1> DEFINE q == t \div secs
<1>1. q \in Int /\ t % secs \in Nat /\ t % secs < secs /\ t = secs * q + (t % secs)
  BY Division
<1> DEFINE r == t % secs
<1>2. q \in Int /\ r \in Nat /\ r < secs /\ t = secs * q + r
  BY <1>1
<1>3. FloorTs(t, secs) = q * secs
  BY DEF FloorTs
<1> HIDE DEF q, r
<1>4. q >= 0
  <2>1. SUFFICES ASSUME q <= -1 PROVE FALSE
    BY <1>2
  <2>2. secs * q <= -secs
    BY <1>2, <2>1, SMT DEF Positive
  <2> QED
    BY <1>2, <2>2 DEF Positive
<1>5. q * secs = secs * q /\ q * secs \in Nat
  BY <1>2, <1>4, SMT DEF Positive
<1> QED
  BY <1>2, <1>3, <1>5 DEF Positive

LEMMA FloorSteps ==
  ASSUME NEW a \in Nat, NEW b \in Nat, NEW secs \in Positive
  PROVE  /\ a <= b => FloorTs(a, secs) <= FloorTs(b, secs)
         /\ FloorTs(a, secs) < FloorTs(b, secs)
              => FloorTs(a, secs) + secs <= FloorTs(b, secs)
<1> DEFINE q == a \div secs
           p == b \div secs
<1>1. q \in Int /\ p \in Int
  BY Division
<1>2. FloorTs(a, secs) = q * secs /\ FloorTs(b, secs) = p * secs
  BY DEF FloorTs
<1>3. /\ FloorTs(a, secs) \in Nat /\ FloorTs(a, secs) <= a
      /\ b < FloorTs(b, secs) + secs /\ FloorTs(b, secs) \in Nat
  BY Floors
<1> HIDE DEF q, p
<1>4. q * secs = secs * q /\ p * secs = secs * p /\ secs \in Int
  BY <1>1, SMT DEF Positive
<1>5. CASE q < p
  <2>1. secs * q + secs <= secs * p
    BY <1>1, <1>5, ProductGrows
  <2> QED
    BY <1>2, <1>3, <1>4, <2>1 DEF Positive
<1>6. CASE q = p
  BY <1>2, <1>3, <1>6
<1>7. CASE p < q
  <2>1. secs * p + secs <= secs * q
    BY <1>1, <1>7, ProductGrows
  <2> QED
    BY <1>2, <1>3, <1>4, <2>1 DEF Positive
<1> QED
  BY <1>1, <1>5, <1>6, <1>7

(* A window of a longer timeframe ends no sooner than the shorter one's in   *)
(* which the same moment lies, if its length is a multiple.                  *)
LEMMA NestedFloors ==
  ASSUME NEW t \in Nat, NEW s \in Positive, NEW l \in Positive, l % s = 0
  PROVE  FloorTs(t, s) + s <= FloorTs(t, l) + l
<1> DEFINE q == t \div s
           p == t \div l
           m == l \div s
<1>1. q \in Int /\ p \in Int /\ m \in Int
  BY Division DEF Positive
<1>2. l = s * m
  <2>1. l \in Int /\ l = s * (l \div s) + (l % s) /\ (l \div s) \in Int
    BY Division DEF Positive
  <2>2. s * m \in Int /\ l = s * m + 0
    BY <1>1, <2>1, SMT DEF Positive
  <2> QED
    BY <2>2
<1>3. FloorTs(t, s) = q * s /\ FloorTs(t, l) = p * l
  BY DEF FloorTs
<1>4. /\ FloorTs(t, s) \in Nat /\ FloorTs(t, s) <= t
      /\ t < FloorTs(t, l) + l /\ FloorTs(t, l) \in Nat
  BY Floors
<1> HIDE DEF q, p, m
<1>5. /\ q * s = s * q /\ p * l = s * (p * m) /\ p * m \in Int
      /\ s * (p * m) + s * m = s * (p * m + m) /\ p * m + m \in Int
  BY <1>1, <1>2, SMT DEF Positive
<1> DEFINE k == p * m + m
<1>6. k \in Int /\ FloorTs(t, l) + l = s * k /\ s * k \in Int
  <2>1. FloorTs(t, l) + l = s * (p * m) + s * m
    BY <1>2, <1>3, <1>5
  <2> QED
    BY <1>5, <2>1, SMT DEF Positive
<1> HIDE DEF k
<1>7. q < k
  <2>1. SUFFICES ASSUME k <= q PROVE FALSE
    BY <1>1, <1>6
  <2>2. s * k <= s * q
    <3>1. CASE k = q
      BY <3>1, <1>6
    <3>2. CASE k < q
      <4>1. s * k \in Int /\ s * q \in Int /\ s * k + s <= s * q
        BY <1>1, <1>6, <3>2, ProductGrows
      <4> QED
        BY <4>1 DEF Positive
    <3> QED
      BY <1>1, <1>6, <2>1, <3>1, <3>2
  <2> QED
    BY <1>3, <1>4, <1>5, <1>6, <2>2
<1>8. s * q + s <= s * k
  BY <1>1, <1>6, <1>7, ProductGrows
<1> QED
  BY <1>3, <1>5, <1>6, <1>8

(* A bar that ends in the opening window and is no longer than the morning   *)
(* before it holds ticks of that day alone.                                  *)
LEMMA MorningBar ==
  ASSUME NEW t \in Nat, NEW u \in Nat, NEW secs \in Positive,
         secs <= RangeStart, u - secs <= t, t < u, InRange(u)
  PROVE  Day(t) = Day(u) /\ TimeOfDay(t) <= RangeEnd
<1>0. DayLength \in Positive /\ RangeStart \in Nat /\ RangeEnd \in Nat
  BY SessionAssumption DEF Positive
<1> DEFINE d == Day(t)
           e == Day(u)
           r == TimeOfDay(t)
           s == TimeOfDay(u)
<1>1. /\ d \in Nat /\ r \in Nat /\ r < DayLength /\ t = DayLength * d + r
      /\ e \in Nat /\ s \in Nat /\ s < DayLength /\ u = DayLength * e + s
  BY MomentParts
<1>2. RangeStart <= s /\ s <= RangeEnd
  BY <1>1 DEF InRange
<1>3. d < e \/ (d = e /\ r <= s)
  BY LaterMoment
<1> HIDE DEF d, e, r, s
<1>4. ~(d < e)
  <2>1. SUFFICES ASSUME d < e PROVE FALSE
    OBVIOUS
  <2>2. /\ DayLength * d \in Int /\ DayLength * e \in Int
        /\ DayLength * d + DayLength <= DayLength * e
    BY <1>0, <1>1, <2>1, ProductGrows
  <2> QED
    BY <1>0, <1>1, <1>2, <2>2 DEF Positive
<1>5. d = e /\ r <= RangeEnd
  BY <1>0, <1>1, <1>2, <1>3, <1>4
<1> QED
  BY <1>5 DEF d, e, r

-----------------------------------------------------------------------------
(* What an update of the opening range does.                                 *)
Quote == {NoPrice} \cup Nat
RangeShape(r) ==
  /\ r \in [day : {-1} \cup Nat, hi : Quote, lo : Quote, frozen : BOOLEAN]
  /\ r.hi = NoPrice <=> r.lo = NoPrice
  /\ r.lo <= r.hi
  /\ r.frozen => r.hi # NoPrice

Today(r, ts) == IF r.day = Day(ts) THEN r ELSE [FreshRange EXCEPT !.day = Day(ts)]

Updated(t, ts, p, q) ==
  /\ RangeShape(q) /\ q.day = Day(ts)
  /\ q.hi \in {t.hi, p} /\ q.lo \in {t.lo, p}
  /\ t.hi # NoPrice => q.hi # NoPrice /\ t.hi <= q.hi /\ q.lo <= t.lo
  /\ t.frozen => q = t
  /\ InRange(ts) /\ ~t.frozen => q.lo <= p /\ p <= q.hi /\ ~q.frozen
  /\ ~InRange(ts) => q.hi = t.hi /\ q.lo = t.lo
  /\ q.frozen => t.frozen \/ (~InRange(ts) /\ t.hi # NoPrice)

LEMMA MaxOfTwo ==
  ASSUME NEW a \in Nat, NEW b \in Nat
  PROVE  /\ Max({a, b}) \in {a, b} /\ a <= Max({a, b}) /\ b <= Max({a, b})
         /\ Min({a, b}) \in {a, b} /\ Min({a, b}) <= a /\ Min({a, b}) <= b
<1>1. \E x \in {a, b} : \A y \in {a, b} : x >= y
  BY SMT
<1>2. \E x \in {a, b} : \A y \in {a, b} : x <= y
  BY SMT
<1> QED
  BY <1>1, <1>2 DEF Max, Min

LEMMA TodayShape ==
  ASSUME NEW r, RangeShape(r), NEW ts \in Nat
  PROVE  /\ RangeShape(Today(r, ts)) /\ Today(r, ts).day = Day(ts)
         /\ r.day = Day(ts) => Today(r, ts) = r
         /\ r.day # Day(ts) => Today(r, ts).hi = NoPrice /\ ~Today(r, ts).frozen
<1>1. Day(ts) \in Nat
  BY MomentParts
<1>2. CASE r.day = Day(ts)
  BY <1>2 DEF Today
<1>3. CASE r.day # Day(ts)
  <2>1. Today(r, ts) = [day |-> Day(ts), hi |-> NoPrice, lo |-> NoPrice,
                        frozen |-> FALSE]
    BY <1>3 DEF Today, FreshRange
  <2>2. NoPrice \in Quote /\ NoPrice <= NoPrice
    BY DEF Quote, NoPrice
  <2> QED
    BY <1>1, <1>3, <2>1, <2>2 DEF RangeShape
<1> QED
  BY <1>2, <1>3

LEMMA RangeUpdated ==
  ASSUME NEW r, RangeShape(r), NEW ts \in Nat, NEW p \in Nat,
         NEW t, t = Today(r, ts), NEW q, q = RangeUpdate(r, ts, p)
  PROVE  Updated(t, ts, p, q)
<1>1. RangeShape(t) /\ t.day = Day(ts)
  BY TodayShape
<1>2. q = IF t.frozen THEN t
          ELSE IF InRange(ts)
          THEN [t EXCEPT !.hi = IF t.hi = NoPrice THEN p ELSE Max({t.hi, p}),
                         !.lo = IF t.lo = NoPrice THEN p ELSE Min({t.lo, p})]
          ELSE [t EXCEPT !.frozen = t.hi # NoPrice]
  BY DEF RangeUpdate, Today
<1>3. t \in [day : {-1} \cup Nat, hi : Quote, lo : Quote, frozen : BOOLEAN]
  BY <1>1 DEF RangeShape
<1>4. CASE t.frozen
  BY <1>1, <1>2, <1>4 DEF Updated, RangeShape, Quote, NoPrice
<1>5. CASE ~t.frozen /\ ~InRange(ts)
  <2>1. q = [t EXCEPT !.frozen = t.hi # NoPrice]
    BY <1>2, <1>5
  <2>2. /\ q.hi = t.hi /\ q.lo = t.lo /\ q.day = t.day
        /\ q.frozen = (t.hi # NoPrice)
        /\ q \in [day : {-1} \cup Nat, hi : Quote, lo : Quote, frozen : BOOLEAN]
    BY <1>3, <2>1
  <2> QED
    BY <1>1, <1>5, <2>2 DEF Updated, RangeShape, Quote, NoPrice
<1>6. CASE ~t.frozen /\ InRange(ts)
  <2> DEFINE h == IF t.hi = NoPrice THEN p ELSE Max({t.hi, p})
             l == IF t.lo = NoPrice THEN p ELSE Min({t.lo, p})
  <2>1. /\ h \in Nat /\ h \in {t.hi, p} /\ p <= h
        /\ t.hi # NoPrice => t.hi <= h
    <3>1. CASE t.hi = NoPrice
      BY <3>1
    <3>2. CASE t.hi # NoPrice
      <4>1. t.hi \in Nat /\ h = Max({t.hi, p})
        BY <1>3, <3>2 DEF Quote
      <4>2. h \in {t.hi, p} /\ t.hi <= h /\ p <= h
        BY <4>1, MaxOfTwo, ZenonT(60)
      <4> QED
        BY <4>1, <4>2
    <3> QED
      BY <3>1, <3>2
  <2>2. /\ l \in Nat /\ l \in {t.lo, p} /\ l <= p
        /\ t.lo # NoPrice => l <= t.lo
    <3>1. CASE t.lo = NoPrice
      BY <3>1
    <3>2. CASE t.lo # NoPrice
      <4>1. t.lo \in Nat /\ l = Min({t.lo, p})
        BY <1>3, <3>2 DEF Quote
      <4> DEFINE m == Min({t.lo, p})
      <4>2. m \in {t.lo, p} /\ m <= t.lo /\ m <= p
        BY <4>1, MaxOfTwo
      <4> HIDE DEF m
      <4>3. l = m
        BY <4>1 DEF m
      <4> QED
        BY <4>1, <4>2, <4>3
    <3> QED
      BY <3>1, <3>2
  <2>3. q = [t EXCEPT !.hi = h, !.lo = l]
    BY <1>2, <1>6
  <2> HIDE DEF h, l
  <2>4. /\ q.hi = h /\ q.lo = l /\ q.day = t.day /\ q.frozen = t.frozen
        /\ q \in [day : {-1} \cup Nat, hi : Quote, lo : Quote, frozen : BOOLEAN]
    BY <1>3, <2>1, <2>2, <2>3 DEF Quote
  <2> QED
    BY <1>1, <1>6, <2>1, <2>2, <2>4 DEF Updated, RangeShape, Quote, NoPrice
<1> QED
  BY <1>3, <1>4, <1>5, <1>6

-----------------------------------------------------------------------------
(* The range after the first n of the ticks F, updated last at moment T.     *)
TickType == [time : Nat, price : Nat, qty : Nat]

Source(F, d, p) ==
  \E i \in 1 .. Len(F) : /\ F[i].price = p /\ Day(F[i].time) = d
                         /\ TimeOfDay(F[i].time) <= RangeEnd

Reached(r, T) == r.hi # NoPrice => r.day < Day(T) \/ RangeStart <= TimeOfDay(T)
Covers(r, F, n) ==
  \A i \in 1 .. n : Day(F[i].time) = r.day /\ InRange(F[i].time)
                      => r.lo <= F[i].price /\ F[i].price <= r.hi
Sources(r, F) == r.hi # NoPrice => Source(F, r.day, r.hi) /\ Source(F, r.day, r.lo)

RangeGood(r, F, n, T) ==
  /\ RangeShape(r)
  /\ r.day <= Day(T)
  /\ Reached(r, T)
  /\ r.frozen => PastWindow(T, r.day)
  /\ \A i \in 1 .. n : Day(F[i].time) <= r.day
  /\ Covers(r, F, n)
  /\ Sources(r, F)

Stepped(F, n, r, ts, p, q) ==
  /\ RangeGood(q, F, n, ts) /\ q.day = Day(ts)
  /\ InRange(ts) => q.lo <= p /\ p <= q.hi
  /\ r.day = Day(ts) /\ r.hi # NoPrice
       => q.hi # NoPrice /\ r.hi <= q.hi /\ q.lo <= r.lo
  /\ ~InRange(ts) /\ (r.day = Day(ts) => r.hi = NoPrice) => q.hi = NoPrice

LEMMA RangeStep ==
  ASSUME NEW F \in Seq(TickType), NEW n \in 0 .. Len(F), NEW T \in Nat,
         NEW r, RangeGood(r, F, n, T),
         NEW ts \in Nat, T <= ts, NEW p \in Nat,
         InRange(ts) => Source(F, Day(ts), p),
         NEW q, q = RangeUpdate(r, ts, p)
  PROVE  Stepped(F, n, r, ts, p, q)
<1> DEFINE t == Today(r, ts)
<1>1. RangeShape(r) /\ t = Today(r, ts)
  BY DEF RangeGood
<1> HIDE DEF t
<1>a. Updated(t, ts, p, q)
  BY <1>1, RangeUpdated, Zenon
<1>2. /\ RangeShape(q) /\ q.day = Day(ts)
      /\ q.hi \in {t.hi, p} /\ q.lo \in {t.lo, p}
      /\ t.hi # NoPrice => q.hi # NoPrice /\ t.hi <= q.hi /\ q.lo <= t.lo
      /\ t.frozen => q = t
      /\ InRange(ts) /\ ~t.frozen => q.lo <= p /\ p <= q.hi /\ ~q.frozen
      /\ ~InRange(ts) => q.hi = t.hi /\ q.lo = t.lo
      /\ q.frozen => t.frozen \/ (~InRange(ts) /\ t.hi # NoPrice)
  BY <1>a DEF Updated
<1>3. /\ RangeShape(t) /\ t.day = Day(ts)
      /\ r.day = Day(ts) => t = r
      /\ r.day # Day(ts) => t.hi = NoPrice /\ ~t.frozen
  BY <1>1, TodayShape
<1>4. /\ Day(ts) \in Nat /\ TimeOfDay(ts) \in Nat /\ Day(T) \in Nat
      /\ TimeOfDay(T) \in Nat /\ RangeStart \in Nat /\ RangeEnd \in Nat
  BY MomentParts, SessionAssumption
<1>5. Day(T) < Day(ts) \/ (Day(T) = Day(ts) /\ TimeOfDay(T) <= TimeOfDay(ts))
  BY LaterMoment
<1>6. r.day \in Int /\ r.day <= Day(T) /\ Reached(r, T)
      /\ (r.frozen => PastWindow(T, r.day)) /\ Covers(r, F, n) /\ Sources(r, F)
      /\ \A i \in 1 .. n : Day(F[i].time) <= r.day
  BY <1>1 DEF RangeGood, RangeShape
<1>7. \A i \in 1 .. n : /\ F[i].time \in Nat /\ F[i].price \in Nat
                        /\ Day(F[i].time) \in Nat
  <2>1. \A i \in 1 .. n : F[i] \in TickType
    BY ElementOfSeq
  <2> QED
    BY <2>1, MomentParts DEF TickType
(* A frozen range was frozen before this moment, past its window.            *)
<1>8. t.frozen => ~InRange(ts)
  <2>1. SUFFICES ASSUME t.frozen PROVE ~InRange(ts)
    OBVIOUS
  <2>2. r.day = Day(ts) /\ PastWindow(T, r.day)
    BY <1>3, <1>6, <2>1
  <2>3. PastWindow(ts, r.day)
    BY <1>6, <2>2, PastStays
  <2> QED
    BY <1>6, <2>2, <2>3, PastIsOut
<1>9. InRange(ts) => q.lo <= p /\ p <= q.hi
  BY <1>2, <1>8
<1>10. q.day <= Day(ts)
  BY <1>2, <1>4
<1>11. Reached(q, ts)
  <2>1. CASE InRange(ts)
    BY <1>4, <2>1 DEF InRange, Reached
  <2>2. CASE ~InRange(ts) /\ r.day = Day(ts)
    <3>1. q.hi = r.hi
      BY <1>2, <1>3, <2>2
    <3> QED
      BY <1>2, <1>4, <1>5, <1>6, <2>2, <3>1 DEF Reached
  <2>3. CASE ~InRange(ts) /\ r.day # Day(ts)
    BY <1>2, <1>3, <2>3 DEF Reached
  <2> QED
    BY <2>1, <2>2, <2>3
<1>12. q.frozen => PastWindow(ts, q.day)
  <2>1. SUFFICES ASSUME q.frozen PROVE PastWindow(ts, q.day)
    OBVIOUS
  <2>2. r.day = Day(ts) /\ t = r
    BY <1>2, <1>3, <2>1
  <2>3. CASE t.frozen
    BY <1>2, <1>6, <2>2, <2>3, PastStays
  <2>4. CASE ~t.frozen
    <3>1. ~InRange(ts) /\ r.hi # NoPrice
      BY <1>2, <2>1, <2>2, <2>4
    <3>2. RangeStart <= TimeOfDay(ts)
      BY <1>4, <1>5, <1>6, <2>2, <3>1 DEF Reached
    <3>3. TimeOfDay(ts) > RangeEnd
      BY <1>4, <3>1, <3>2 DEF InRange
    <3> QED
      BY <1>2, <3>3 DEF PastWindow
  <2> QED
    BY <2>3, <2>4
<1>b. r.day <= Day(ts)
  BY <1>4, <1>5, <1>6
<1>13. \A i \in 1 .. n : Day(F[i].time) <= q.day
  <2>1. SUFFICES ASSUME NEW i \in 1 .. n PROVE Day(F[i].time) <= q.day
    OBVIOUS
  <2>2. Day(F[i].time) \in Nat /\ Day(F[i].time) <= r.day /\ r.day \in Int
    BY <1>6, <1>7, Zenon
  <2> QED
    BY <1>2, <1>4, <1>b, <2>2
<1>14. Covers(q, F, n)
  <2>1. SUFFICES ASSUME NEW i \in 1 .. n, Day(F[i].time) = q.day, InRange(F[i].time)
                 PROVE  q.lo <= F[i].price /\ F[i].price <= q.hi
    BY DEF Covers
  <2>2. r.day = Day(ts) /\ t = r
    <3>1. Day(F[i].time) <= r.day
      BY <1>6
    <3> QED
      BY <1>2, <1>3, <1>4, <1>6, <1>b, <2>1, <3>1
  <2>3. r.lo <= F[i].price /\ F[i].price <= r.hi
    BY <1>2, <1>6, <2>1, <2>2 DEF Covers
  <2>4. r.hi # NoPrice /\ q.hi \in Int /\ q.lo \in Int /\ r.hi \in Int /\ r.lo \in Int
    BY <1>1, <1>2, <1>7, <2>3 DEF RangeShape, Quote, NoPrice
  <2>5. r.hi <= q.hi /\ q.lo <= r.lo
    BY <1>2, <2>2, <2>4 DEF Updated
  <2> QED
    BY <1>7, <2>3, <2>4, <2>5, SMTT(30)
<1>15. Sources(q, F)
  <2>1. SUFFICES ASSUME q.hi # NoPrice
                 PROVE  Source(F, q.day, q.hi) /\ Source(F, q.day, q.lo)
    BY DEF Sources
  <2>2. CASE InRange(ts)
    <3>1. ~t.frozen /\ Source(F, q.day, p)
      BY <1>2, <1>8, <2>2
    <3>2. t.hi # NoPrice => Source(F, q.day, t.hi) /\ Source(F, q.day, t.lo)
      BY <1>2, <1>3, <1>6 DEF Sources
    <3>3. t.hi = NoPrice => q.hi = p /\ q.lo = p
      <4>1. q.lo <= p /\ p <= q.hi /\ q.hi \in {t.hi, p} /\ q.lo \in {t.lo, p}
        BY <1>2, <2>2, <3>1 DEF Updated
      <4>2. t.hi = NoPrice => t.lo = NoPrice
        BY <1>3 DEF RangeShape
      <4>3. q.lo # NoPrice
        BY <1>2, <2>1 DEF RangeShape
      <4> QED
        BY <2>1, <4>1, <4>2, <4>3
    <3>4. q.hi \in {t.hi, p} /\ q.lo \in {t.lo, p}
      BY <1>2 DEF Updated
    <3> QED
      BY <3>1, <3>2, <3>3, <3>4
  <2>3. CASE ~InRange(ts)
    <3>1. q.hi = t.hi /\ q.lo = t.lo
      BY <1>2, <2>3
    <3>2. t = r
      BY <1>3, <2>1, <3>1
    <3> QED
      BY <1>2, <1>3, <1>6, <2>1, <3>1, <3>2 DEF Sources
  <2> QED
    BY <2>2, <2>3
<1>16. RangeGood(q, F, n, ts)
  BY <1>2, <1>10, <1>11, <1>12, <1>13, <1>14, <1>15 DEF RangeGood
<1>17. r.day = Day(ts) /\ r.hi # NoPrice
         => q.hi # NoPrice /\ r.hi <= q.hi /\ q.lo <= r.lo
  BY <1>2, <1>3 DEF Updated
<1>18. ~InRange(ts) /\ (r.day = Day(ts) => r.hi = NoPrice) => q.hi = NoPrice
  BY <1>2, <1>3
<1> QED
  BY <1>2, <1>9, <1>16, <1>17, <1>18 DEF Stepped

LEMMA RangeAppended ==
  ASSUME NEW F \in Seq(TickType), NEW n \in 0 .. Len(F), NEW T \in Nat,
         NEW r, RangeGood(r, F, n, T), NEW t \in TickType
  PROVE  RangeGood(r, Append(F, t), n, T)
<1> DEFINE G == Append(F, t)
<1>1. Len(G) = Len(F) + 1 /\ \A i \in 1 .. Len(F) : G[i] = F[i]
  BY AppendProperties
<1> HIDE DEF G
<1>2. Len(F) \in Nat
  OBVIOUS
<1>3. \A i \in 1 .. n : i \in 1 .. Len(F) /\ G[i] = F[i]
  BY <1>1, <1>2
<1>4. Covers(r, G, n)
  BY <1>3 DEF Covers, RangeGood
<1>5. ASSUME NEW d, NEW p, Source(F, d, p) PROVE Source(G, d, p)
  BY <1>1, <1>2, <1>5 DEF Source
<1>6. Sources(r, G)
  BY <1>5 DEF Sources, RangeGood
<1> QED
  BY <1>3, <1>4, <1>6 DEF RangeGood, G

LEMMA TickInRange ==
  ASSUME NEW F \in Seq(TickType), NEW n \in Nat, n + 1 = Len(F), NEW T \in Nat,
         NEW r, RangeGood(r, F, n, T),
         NEW ts, ts = F[n + 1].time, T <= ts,
         NEW q, q = RangeUpdate(r, ts, F[n + 1].price)
  PROVE  /\ RangeGood(q, F, n + 1, ts) /\ q.day = Day(ts)
         /\ ~InRange(ts) /\ (r.day = Day(ts) => r.hi = NoPrice) => q.hi = NoPrice
<1> DEFINE p == F[n + 1].price
<1>1. ts \in Nat /\ p \in Nat
  <2>1. F[n + 1] \in TickType
    BY ElementOfSeq
  <2> QED
    BY <2>1 DEF TickType
<1>2. InRange(ts) => Source(F, Day(ts), p)
  BY DEF Source, InRange
<1>3. n \in 0 .. Len(F)
  OBVIOUS
<1>a. q = RangeUpdate(r, ts, p)
  OBVIOUS
<1>p. p = F[n + 1].price
  OBVIOUS
<1> HIDE DEF p
<1>b. Stepped(F, n, r, ts, p, q)
  BY <1>1, <1>2, <1>3, <1>a, RangeStep, Zenon
<1>4. /\ RangeGood(q, F, n, ts) /\ q.day = Day(ts)
      /\ InRange(ts) => q.lo <= p /\ p <= q.hi
      /\ ~InRange(ts) /\ (r.day = Day(ts) => r.hi = NoPrice) => q.hi = NoPrice
  BY <1>b DEF Stepped
<1>5. Day(ts) \in Nat
  BY <1>1, MomentParts
<1>6. \A i \in 1 .. n + 1 : Day(F[i].time) <= q.day
  BY <1>4, <1>5 DEF RangeGood
<1>7. Covers(q, F, n + 1)
  <2>1. SUFFICES ASSUME NEW i \in 1 .. n + 1, Day(F[i].time) = q.day,
                        InRange(F[i].time)
                 PROVE  q.lo <= F[i].price /\ F[i].price <= q.hi
    BY DEF Covers
  <2>2. CASE i = n + 1
    BY <1>4, <1>p, <2>1, <2>2
  <2>3. CASE i \in 1 .. n
    BY <1>4, <2>1, <2>3 DEF RangeGood, Covers
  <2> QED
    BY <2>2, <2>3
<1> QED
  BY <1>4, <1>6, <1>7 DEF RangeGood

-----------------------------------------------------------------------------
(* The strategy's state st and the entries E it has returned, after n of the *)
(* ticks F and its last update at moment T.  A day with an entry is spent:   *)
(* it is over, the latch is set, or (after a restart) its opening range will *)
(* never be known.                                                           *)
EntryType == [side : {"long", "short"}, ts : Nat, price : Nat, hi : Int, lo : Int,
              stop : Int]
Outside(e, F) ==
  \A i \in 1 .. Len(F) :
    Day(F[i].time) = Day(e.ts) /\ InRange(F[i].time) =>
      IF e.side = "long" THEN e.price > F[i].price ELSE e.price < F[i].price
StopIsLoss(e) == IF e.side = "long" THEN e.stop < 2 * e.price
                                    ELSE e.stop > 2 * e.price
EntryGood(e, F, T) ==
  /\ e.ts <= T /\ TimeOfDay(e.ts) > RangeEnd
  /\ Outside(e, F) /\ StopIsLoss(e)

Spent(st, d) ==
  \/ d < st.day
  \/ st.day = d /\ st.taken # "none"
  \/ st.range.day = d => st.range.hi = NoPrice

StateShape(st) ==
  /\ st = [range |-> st.range, vwap |-> st.vwap, taken |-> st.taken,
           day |-> st.day]
  /\ st.day \in {-1} \cup Nat
  /\ st.taken \in {"none", "long", "short"}

Entries(E, st, F, T) ==
  /\ E \in Seq(EntryType)
  /\ \A i \in 1 .. Len(E) : EntryGood(E[i], F, T) /\ Spent(st, Day(E[i].ts))
  /\ \A i, j \in 1 .. Len(E) : Day(E[i].ts) = Day(E[j].ts) => i = j

OrbGood(st, E, F, n, T) ==
  /\ StateShape(st) /\ st.day <= Day(T)
  /\ RangeGood(st.range, F, n, T)
  /\ Entries(E, st, F, T)

(* No moment after an entry is in the window of the entry's day.             *)
LEMMA EntryIsPast ==
  ASSUME NEW e \in EntryType, NEW T \in Nat, e.ts <= T,
         TimeOfDay(e.ts) > RangeEnd
  PROVE  Day(e.ts) \in Nat /\ PastWindow(T, Day(e.ts))
<1>1. e.ts \in Nat
  BY DEF EntryType
<1>2. Day(e.ts) \in Nat
  BY <1>1, MomentParts
<1>3. PastWindow(e.ts, Day(e.ts))
  BY DEF PastWindow
<1> QED
  BY <1>1, <1>2, <1>3, PastStays

LEMMA StaysSpent ==
  ASSUME NEW T \in Nat, NEW ts \in Nat, T <= ts, NEW d \in Nat, PastWindow(ts, d),
         NEW st, StateShape(st), st.day <= Day(T), Spent(st, d),
         NEW k, StateShape(k), k.day = Day(ts),
         k.taken = IF st.day = Day(ts) THEN st.taken ELSE "none",
         ~InRange(ts) /\ (st.range.day = Day(ts) => st.range.hi = NoPrice)
           => k.range.hi = NoPrice
  PROVE  Spent(k, d)
<1>a. Day(ts) \in Nat /\ Day(T) \in Nat
  BY MomentParts
<1>b. Day(T) < Day(ts) \/ Day(T) = Day(ts)
  BY LaterMoment
<1>1. Day(ts) \in Nat /\ Day(T) \in Nat /\ Day(T) <= Day(ts)
  BY <1>a, <1>b
<1>2. CASE Day(ts) # d
  BY <1>1, <1>2 DEF PastWindow, Spent
<1>3. CASE Day(ts) = d
  <2>1. ~InRange(ts)
    BY <1>3, PastIsOut
  <2>2. ~(d < st.day)
    BY <1>1, <1>3 DEF StateShape
  <2> QED
    BY <1>3, <2>1, <2>2 DEF Spent
<1> QED
  BY <1>2, <1>3

ProperBar(bar, F) ==
  /\ bar.until \in Nat /\ bar.high \in Nat /\ bar.low \in Nat /\ bar.close \in Nat
  /\ bar.low <= bar.close /\ bar.close <= bar.high
  /\ InRange(bar.until) => /\ Source(F, Day(bar.until), bar.high)
                           /\ Source(F, Day(bar.until), bar.low)

BarTaken(st, bar, k) ==
  /\ StateShape(k) /\ k.day = Day(bar.until)
  /\ k.taken = IF st.day = Day(bar.until) THEN st.taken ELSE "none"
  /\ k.range = RangeUpdate(RangeUpdate(st.range, bar.until, bar.high),
                           bar.until, bar.low)

LEMMA BarIsTaken ==
  ASSUME NEW st, StateShape(st), NEW bar, bar.until \in Nat
  PROVE  BarTaken(st, bar, ORBUpdated(st, bar))
<1> DEFINE d == Day(bar.until)
           r == RangeUpdate(RangeUpdate(st.range, bar.until, bar.high),
                            bar.until, bar.low)
           v == VwapUpdate(st.vwap, bar.until, bar.close, bar.volume)
           c == IF st.day = d THEN st.taken ELSE "none"
           k == ORBUpdated(st, bar)
<1>1. d \in Nat
  BY MomentParts
<1>2. k = [st EXCEPT !.day = d, !.taken = c, !.range = r, !.vwap = v]
  BY DEF ORBUpdated
<1>3. /\ c = IF st.day = d THEN st.taken ELSE "none"
      /\ r = RangeUpdate(RangeUpdate(st.range, bar.until, bar.high),
                         bar.until, bar.low)
      /\ d = Day(bar.until) /\ k = ORBUpdated(st, bar)
  OBVIOUS
<1> HIDE DEF d, r, v, c, k
<1>4. k = [range |-> r, vwap |-> v, taken |-> c, day |-> d]
  BY <1>2 DEF StateShape
<1>5. k.range = r /\ k.vwap = v /\ k.taken = c /\ k.day = d
  BY <1>4
<1>6. c \in {"none", "long", "short"}
  BY <1>3 DEF StateShape
<1>7. StateShape(k)
  BY <1>1, <1>4, <1>5, <1>6 DEF StateShape
<1> QED
  BY <1>3, <1>5, <1>7 DEF BarTaken

BarUpdated(E, F, n, bar, k) ==
  /\ OrbGood(k, E, F, n, bar.until)
  /\ k.day = Day(bar.until) /\ k.range.day = Day(bar.until)
  /\ InRange(bar.until) => k.range.lo <= bar.low /\ bar.high <= k.range.hi

LEMMA BarUpdates ==
  ASSUME NEW F \in Seq(TickType), NEW n \in 0 .. Len(F), NEW T \in Nat,
         NEW st, NEW E, OrbGood(st, E, F, n, T),
         NEW bar, ProperBar(bar, F), T <= bar.until,
         NEW k, k = ORBUpdated(st, bar)
  PROVE  BarUpdated(E, F, n, bar, k)
<1> DEFINE u == bar.until
           r == RangeUpdate(st.range, u, bar.high)
<1>1. /\ u \in Nat /\ bar.high \in Nat /\ bar.low \in Nat /\ u = bar.until
      /\ InRange(u) => Source(F, Day(u), bar.high) /\ Source(F, Day(u), bar.low)
  BY DEF ProperBar
<1>2. /\ StateShape(st) /\ st.day <= Day(T) /\ RangeGood(st.range, F, n, T)
      /\ Entries(E, st, F, T)
  BY DEF OrbGood
<1>a. BarTaken(st, bar, k)
  BY <1>1, <1>2, BarIsTaken, Zenon
<1>3. /\ StateShape(k) /\ k.day = Day(u)
      /\ k.taken = IF st.day = Day(u) THEN st.taken ELSE "none"
      /\ k.range = RangeUpdate(r, u, bar.low)
  BY <1>a DEF BarTaken
<1>b. r = RangeUpdate(st.range, u, bar.high) /\ T <= u
  OBVIOUS
<1>c. u <= u
  BY <1>1
<1> HIDE DEF u, r
<1>4. Stepped(F, n, st.range, u, bar.high, r)
  BY <1>1, <1>2, <1>b, RangeStep, Zenon
<1>5. RangeGood(r, F, n, u)
  BY <1>4 DEF Stepped
<1>6. Stepped(F, n, r, u, bar.low, k.range)
  BY <1>1, <1>3, <1>5, <1>c, RangeStep, Zenon
<1>7. RangeGood(k.range, F, n, u) /\ k.range.day = Day(u)
  BY <1>6 DEF Stepped
<1>8. Day(u) \in Nat /\ Day(T) \in Nat
  BY <1>1, MomentParts
<1>9. InRange(u) => k.range.lo <= bar.low /\ bar.high <= k.range.hi
  <2>1. SUFFICES ASSUME InRange(u)
                 PROVE  k.range.lo <= bar.low /\ bar.high <= k.range.hi
    OBVIOUS
  <2>2. k.range.lo <= bar.low /\ bar.high <= r.hi /\ r.day = Day(u)
    BY <1>4, <1>6, <2>1 DEF Stepped
  <2>3. r.hi \in {-1} \cup Nat
    BY <1>5 DEF RangeGood, RangeShape, Quote, NoPrice
  <2>4. r.hi # NoPrice
    BY <1>1, <2>2, <2>3 DEF NoPrice
  <2>5. k.range.hi # NoPrice /\ r.hi <= k.range.hi
    BY <1>6, <2>2, <2>4 DEF Stepped
  <2>6. k.range.hi \in {-1} \cup Nat
    BY <1>7 DEF RangeGood, RangeShape, Quote, NoPrice
  <2> QED
    BY <1>1, <2>2, <2>3, <2>5, <2>6
<1>10. ~InRange(u) /\ (st.range.day = Day(u) => st.range.hi = NoPrice)
         => k.range.hi = NoPrice
  <2>1. SUFFICES ASSUME ~InRange(u), st.range.day = Day(u) => st.range.hi = NoPrice
                 PROVE  k.range.hi = NoPrice
    OBVIOUS
  <2>2. r.hi = NoPrice
    BY <1>4, <2>1 DEF Stepped
  <2> QED
    BY <1>6, <2>1, <2>2 DEF Stepped
<1>11. ASSUME NEW e \in EntryType, EntryGood(e, F, T), Spent(st, Day(e.ts))
       PROVE  EntryGood(e, F, u) /\ Spent(k, Day(e.ts))
  <2>1. e.ts \in Nat /\ e.ts <= u /\ TimeOfDay(e.ts) > RangeEnd
    BY <1>1, <1>b, <1>11 DEF EntryGood, EntryType
  <2>2. EntryGood(e, F, u)
    BY <1>11, <2>1 DEF EntryGood
  <2>3. Day(e.ts) \in Nat /\ PastWindow(u, Day(e.ts))
    BY <1>1, <1>11, <2>1, EntryIsPast, Zenon
  <2>4. Spent(k, Day(e.ts))
    BY <1>1, <1>2, <1>3, <1>b, <1>10, <1>11, <2>3, StaysSpent, Zenon
  <2> QED
    BY <2>2, <2>4
<1>12. Entries(E, k, F, u)
  <2>1. \A i \in 1 .. Len(E) : /\ E[i] \in EntryType
                               /\ EntryGood(E[i], F, T) /\ Spent(st, Day(E[i].ts))
    BY <1>2, ElementOfSeq DEF Entries
  <2>2. \A i \in 1 .. Len(E) : EntryGood(E[i], F, u) /\ Spent(k, Day(E[i].ts))
    BY <1>11, <2>1
  <2> QED
    BY <1>2, <2>2 DEF Entries
<1>13. k.day <= Day(u)
  BY <1>3, <1>8
<1> QED
  BY <1>1, <1>3, <1>7, <1>9, <1>12, <1>13 DEF OrbGood, BarUpdated

(* A bar is judged: the entry it makes is beyond the window, and the day has *)
(* none yet.                                                                 *)
Judgement(now, bar, confirmed, atr, r) ==
  \/ r.state = now /\ r.entries = <<>>
  \/ \E side \in {"long", "short"} :
       /\ MayEnter(now, bar) /\ side = Breakout(now, bar, confirmed)
       /\ r.state = [now EXCEPT !.taken = side]
       /\ r.entries = << [side |-> side, ts |-> bar.until, price |-> bar.close,
                          hi |-> now.range.hi, lo |-> now.range.lo,
                          stop |-> Stop(side, bar, now.range, atr)] >>

LEMMA BarIsJudged ==
  ASSUME NEW st, StateShape(st), NEW bar, bar.until \in Nat, NEW confirmed, NEW atr
  PROVE  Judgement(ORBUpdated(st, bar), bar, confirmed, atr,
                   ORBOnBar(st, bar, confirmed, atr))
<1> DEFINE now  == ORBUpdated(st, bar)
           side == IF MayEnter(now, bar) THEN Breakout(now, bar, confirmed)
                   ELSE "none"
           r    == ORBOnBar(st, bar, confirmed, atr)
<1>1. r = [state |-> [now EXCEPT !.taken = IF side = "none" THEN @ ELSE side],
           entries |->
             IF side = "none" THEN <<>>
             ELSE << [side |-> side, ts |-> bar.until, price |-> bar.close,
                      hi |-> now.range.hi, lo |-> now.range.lo,
                      stop |-> Stop(side, bar, now.range, atr)] >>]
  BY DEF ORBOnBar
<1>2. side \in {"none", "long", "short"}
  BY DEF Breakout
<1>a. StateShape(now)
  BY BarIsTaken DEF BarTaken
<1>3. side # "none" => MayEnter(now, bar) /\ side = Breakout(now, bar, confirmed)
  OBVIOUS
<1>4. now = ORBUpdated(st, bar) /\ r = ORBOnBar(st, bar, confirmed, atr)
  OBVIOUS
<1> HIDE DEF now, side, r
<1>5. CASE side = "none"
  <2>1. r.entries = <<>> /\ r.state = [now EXCEPT !.taken = now.taken]
    BY <1>1, <1>5
  <2>2. [now EXCEPT !.taken = now.taken] = now
    BY <1>a DEF StateShape
  <2> QED
    BY <1>4, <2>1, <2>2 DEF Judgement
<1>6. CASE side # "none"
  <2>1. /\ r.state = [now EXCEPT !.taken = side]
        /\ r.entries = << [side |-> side, ts |-> bar.until, price |-> bar.close,
                           hi |-> now.range.hi, lo |-> now.range.lo,
                           stop |-> Stop(side, bar, now.range, atr)] >>
    BY <1>1, <1>6
  <2>2. side \in {"long", "short"}
    BY <1>2, <1>6
  <2>3. Judgement(now, bar, confirmed, atr, r)
    BY <1>3, <1>6, <2>1, <2>2 DEF Judgement
  <2> QED
    BY <1>4, <2>3
<1> QED
  BY <1>5, <1>6

NewEntry(side, bar, now, stop) ==
  [side |-> side, ts |-> bar.until, price |-> bar.close,
   hi |-> now.range.hi, lo |-> now.range.lo, stop |-> stop]

LEMMA StopIsBehind ==
  ASSUME NEW side \in {"long", "short"}, NEW bar, bar.close \in Nat,
         NEW r, r.hi \in Int, r.lo \in Int, NEW atr \in Nat
  PROVE  /\ Stop(side, bar, r, atr) \in Int
         /\ side = "long" => Stop(side, bar, r, atr) <= r.hi + r.lo
         /\ side = "short" => Stop(side, bar, r, atr) >= r.hi + r.lo
<1> DEFINE s == Stop(side, bar, r, atr)
           m == r.hi + r.lo
           v == 2 * bar.close - atr
           w == 2 * bar.close + atr
<1>1. m \in Int /\ v \in Int /\ w \in Int /\ 2 * bar.close + (-atr) = v
  OBVIOUS
<1>2. CASE side = "long"
  <2>1. s = IF m < v THEN m ELSE v
    BY <1>1, <1>2 DEF Stop
  <2> HIDE DEF s, m, v, w
  <2>2. s \in Int /\ s <= m
    BY <1>1, <2>1
  <2> QED
    BY <1>2, <2>2 DEF s, m
<1>3. CASE side = "short"
  <2>1. s = IF m > w THEN m ELSE w
    BY <1>1, <1>3 DEF Stop
  <2> HIDE DEF s, m, v, w
  <2>2. s \in Int /\ s >= m
    BY <1>1, <2>1
  <2> QED
    BY <1>3, <2>2 DEF s, m
<1> QED
  BY <1>2, <1>3

Made(e, F, bar, now) ==
  /\ e \in EntryType /\ EntryGood(e, F, bar.until) /\ e.ts = bar.until
  /\ now.range.hi # NoPrice

LEMMA EntryIsGood ==
  ASSUME NEW F \in Seq(TickType), NEW n \in Nat, n + 1 = Len(F),
         NEW bar, ProperBar(bar, F), bar.until <= F[n + 1].time,
         NEW now, NEW E, BarUpdated(E, F, n, bar, now),
         NEW side \in {"long", "short"}, MayEnter(now, bar),
         NEW confirmed, side = Breakout(now, bar, confirmed), NEW atr \in Nat,
         NEW e, e = NewEntry(side, bar, now, Stop(side, bar, now.range, atr))
  PROVE  Made(e, F, bar, now)
<1> DEFINE u == bar.until
           r == now.range
<1>1. /\ u \in Nat /\ bar.close \in Nat /\ bar.high \in Nat /\ bar.low \in Nat
      /\ bar.low <= bar.close /\ bar.close <= bar.high
  BY DEF ProperBar
<1>2. /\ RangeGood(r, F, n, u) /\ r.day = Day(u)
      /\ InRange(u) => r.lo <= bar.low /\ bar.high <= r.hi
  BY DEF BarUpdated, OrbGood
<1>3. r.hi \in {-1} \cup Nat /\ r.lo \in {-1} \cup Nat /\ r.hi # NoPrice
  BY <1>2 DEF RangeGood, RangeShape, Quote, NoPrice, MayEnter, RangeReady
<1>b. r.lo <= r.hi
  BY <1>2 DEF RangeGood, RangeShape
<1>4. /\ side = "long"  => bar.close > r.hi
      /\ side = "short" => bar.close < r.lo
  BY DEF Breakout
<1>5. RangeStart \in Nat /\ RangeEnd \in Nat /\ RangeStart <= RangeEnd
      /\ TimeOfDay(u) \in Nat /\ Day(u) \in Nat
  <2>1. TimeOfDay(u) \in Nat /\ Day(u) \in Nat
    BY <1>1, MomentParts
  <2> QED
    BY <2>1, SessionAssumption
<1>6. TimeOfDay(u) >= RangeEnd
  BY DEF MayEnter
<1> DEFINE stop == Stop(side, bar, r, atr)
<1>7. /\ stop \in Int
      /\ side = "long" => stop <= r.hi + r.lo
      /\ side = "short" => stop >= r.hi + r.lo
  <2>1. bar.close \in Nat /\ r.hi \in Int /\ r.lo \in Int
    BY <1>1, <1>3
  <2> HIDE DEF r
  <2> QED
    BY <2>1, StopIsBehind
<1>8. /\ e = [side |-> side, ts |-> u, price |-> bar.close,
              hi |-> r.hi, lo |-> r.lo, stop |-> stop]
  BY DEF NewEntry
<1>9. u = bar.until /\ u <= F[n + 1].time
  OBVIOUS
<1>a. r = now.range
  OBVIOUS
<1> HIDE DEF u, r, stop
<1>10. ~InRange(u)
  <2>1. SUFFICES ASSUME InRange(u) PROVE FALSE
    OBVIOUS
  <2>2. r.lo <= bar.low /\ bar.high <= r.hi
    BY <1>2, <2>1
  <2> QED
    BY <1>1, <1>3, <1>4, <2>2
<1>11. TimeOfDay(u) > RangeEnd
  BY <1>5, <1>6, <1>10 DEF InRange
<1>12. /\ e.side = side /\ e.ts = u /\ e.price = bar.close /\ e.hi = r.hi
       /\ e.lo = r.lo /\ e.stop = stop /\ e \in EntryType
  BY <1>1, <1>3, <1>7, <1>8 DEF EntryType
<1>13. ASSUME NEW i \in 1 .. Len(F), Day(F[i].time) = Day(u), InRange(F[i].time)
       PROVE  IF side = "long" THEN bar.close > F[i].price
                               ELSE bar.close < F[i].price
  <2>0. F[i].time \in Nat /\ F[i].price \in Nat
    <3>1. F[i] \in TickType
      BY ElementOfSeq
    <3> QED
      BY <3>1 DEF TickType
  <2>1. CASE i = n + 1
    <3>1. PastWindow(u, Day(u))
      BY <1>11 DEF PastWindow
    <3>2. PastWindow(F[i].time, Day(u))
      BY <1>1, <1>5, <1>9, <2>0, <2>1, <3>1, PastStays
    <3> QED
      BY <1>5, <1>13, <2>0, <3>2, PastIsOut
  <2>2. CASE i \in 1 .. n
    <3>1. r.lo <= F[i].price /\ F[i].price <= r.hi
      BY <1>2, <1>13, <2>2 DEF RangeGood, Covers
    <3> QED
      BY <1>1, <1>3, <1>4, <2>0, <3>1
  <2> QED
    BY <2>1, <2>2
<1>14. Outside(e, F)
  BY <1>12, <1>13 DEF Outside
<1>15. StopIsLoss(e)
  <2>1. side = "long" => stop < 2 * bar.close
    BY <1>1, <1>3, <1>4, <1>7, <1>b
  <2>2. side = "short" => stop > 2 * bar.close
    BY <1>1, <1>3, <1>4, <1>7, <1>b
  <2> QED
    BY <1>12, <2>1, <2>2 DEF StopIsLoss
<1>16. EntryGood(e, F, u)
  BY <1>1, <1>11, <1>12, <1>14, <1>15 DEF EntryGood
<1> QED
  BY <1>3, <1>9, <1>a, <1>12, <1>16 DEF Made

JudgedWell(E, F, n, bar, r) ==
  /\ r.entries \in Seq(EntryType)
  /\ OrbGood(r.state, E \o r.entries, F, n, bar.until)

LEMMA BarJudged ==
  ASSUME NEW F \in Seq(TickType), NEW n \in Nat, n + 1 = Len(F),
         NEW bar, ProperBar(bar, F), bar.until <= F[n + 1].time,
         NEW now, NEW E, BarUpdated(E, F, n, bar, now),
         NEW confirmed, NEW atr \in Nat,
         NEW r, Judgement(now, bar, confirmed, atr, r)
  PROVE  JudgedWell(E, F, n, bar, r)
<1>1. OrbGood(now, E, F, n, bar.until) /\ now.day = Day(bar.until)
      /\ now.range.day = Day(bar.until)
  BY DEF BarUpdated
<1>2. StateShape(now) /\ Entries(E, now, F, bar.until) /\ E \in Seq(EntryType)
  BY <1>1 DEF OrbGood, Entries
<1>3. CASE r.state = now /\ r.entries = <<>>
  <2>1. <<>> \in Seq(EntryType) /\ E \o <<>> = E
    BY <1>2, ConcatEmptySeq, EmptySeq
  <2> QED
    BY <1>1, <1>3, <2>1 DEF JudgedWell
<1>4. ASSUME NEW side \in {"long", "short"},
             MayEnter(now, bar), side = Breakout(now, bar, confirmed),
             r.state = [now EXCEPT !.taken = side],
             r.entries = << NewEntry(side, bar, now,
                                     Stop(side, bar, now.range, atr)) >>
      PROVE  JudgedWell(E, F, n, bar, r)
  <2> DEFINE e == NewEntry(side, bar, now, Stop(side, bar, now.range, atr))
             k == r.state
             G == E \o <<e>>
  <2>0. e = NewEntry(side, bar, now, Stop(side, bar, now.range, atr))
        /\ r.entries = <<e>>
    BY <1>4
  <2>d. k = r.state /\ G = E \o <<e>>
    OBVIOUS
  <2> HIDE DEF e, k, G
  <2>m. Made(e, F, bar, now)
    BY <1>4, <2>0, EntryIsGood, Zenon
  <2>1. /\ e \in EntryType /\ EntryGood(e, F, bar.until) /\ e.ts = bar.until
        /\ now.range.hi # NoPrice
    BY <2>m DEF Made
  <2>2. /\ k.range = now.range /\ k.day = now.day /\ k.taken = side
        /\ StateShape(k)
    <3>1. k = [now EXCEPT !.taken = side]
      BY <1>4, <2>d
    <3>2. k = [range |-> now.range, vwap |-> now.vwap, taken |-> side,
               day |-> now.day]
      BY <1>2, <3>1 DEF StateShape
    <3> QED
      BY <1>2, <3>2 DEF StateShape
  <2>3. <<e>> \in Seq(EntryType) /\ Len(<<e>>) = 1 /\ <<e>>[1] = e
    BY <2>1
  <2>4. /\ G \in Seq(EntryType) /\ Len(G) = Len(E) + 1
        /\ \A i \in 1 .. Len(E) : G[i] = E[i]
        /\ G[Len(E) + 1] = e
    <3>1. /\ G \in Seq(EntryType) /\ Len(G) = Len(E) + Len(<<e>>)
          /\ \A i \in 1 .. Len(E) + Len(<<e>>) :
               G[i] = IF i <= Len(E) THEN E[i] ELSE <<e>>[i - Len(E)]
      BY <1>2, <2>3, <2>d, ConcatProperties
    <3>2. Len(E) \in Nat
      BY <1>2
    <3> QED
      BY <2>3, <3>1, <3>2
  <2>5. Len(E) \in Nat
    BY <1>2
  <2>6. ASSUME NEW i \in 1 .. Len(E)
        PROVE  /\ EntryGood(E[i], F, bar.until) /\ Spent(k, Day(E[i].ts))
               /\ Day(E[i].ts) # Day(bar.until)
    <3>1. EntryGood(E[i], F, bar.until) /\ Spent(now, Day(E[i].ts))
      BY <1>2 DEF Entries
    <3>2. Spent(k, Day(E[i].ts))
      BY <2>2, <3>1 DEF Spent
    <3>3. Day(E[i].ts) # Day(bar.until)
      <4>1. SUFFICES ASSUME Day(E[i].ts) = Day(bar.until) PROVE FALSE
        OBVIOUS
      <4>2. ~(Day(bar.until) < now.day)
        BY <1>1, <1>2 DEF StateShape
      <4>3. now.taken = "none"
        BY <1>4 DEF MayEnter
      <4> QED
        BY <1>1, <2>1, <3>1, <4>1, <4>2, <4>3 DEF Spent
    <3> QED
      BY <3>1, <3>2, <3>3
  <2>7. Spent(k, Day(e.ts))
    BY <1>1, <2>1, <2>2 DEF Spent
  <2>8. \A i \in 1 .. Len(G) : EntryGood(G[i], F, bar.until) /\ Spent(k, Day(G[i].ts))
    <3>1. SUFFICES ASSUME NEW i \in 1 .. Len(G)
                   PROVE  EntryGood(G[i], F, bar.until) /\ Spent(k, Day(G[i].ts))
      OBVIOUS
    <3>2. CASE i \in 1 .. Len(E)
      <4>1. G[i] = E[i]
        BY <2>4, <3>2
      <4> QED
        BY <2>6, <3>2, <4>1, Zenon
    <3>3. CASE i = Len(E) + 1
      <4>1. G[i] = e
        BY <2>4, <3>3
      <4> QED
        BY <2>1, <2>7, <4>1, Zenon
    <3> QED
      BY <2>4, <2>5, <3>2, <3>3
  <2>9. \A i, j \in 1 .. Len(G) : Day(G[i].ts) = Day(G[j].ts) => i = j
    <3>1. SUFFICES ASSUME NEW i \in 1 .. Len(G), NEW j \in 1 .. Len(G),
                          Day(G[i].ts) = Day(G[j].ts)
                   PROVE  i = j
      OBVIOUS
    <3>2. ASSUME NEW l \in 1 .. Len(E)
          PROVE  Day(G[l].ts) # Day(G[Len(E) + 1].ts)
      <4>1. G[l] = E[l] /\ G[Len(E) + 1] = e
        BY <2>4
      <4> QED
        BY <2>1, <2>6, <4>1, Zenon
    <3>3. CASE i \in 1 .. Len(E) /\ j \in 1 .. Len(E)
      <4>1. G[i] = E[i] /\ G[j] = E[j]
        BY <2>4, <3>3
      <4> QED
        BY <1>2, <3>1, <3>3, <4>1, Zenon DEF Entries
    <3>4. CASE i = Len(E) + 1 /\ j \in 1 .. Len(E)
      BY <3>1, <3>2, <3>4
    <3>5. CASE j = Len(E) + 1 /\ i \in 1 .. Len(E)
      BY <3>1, <3>2, <3>5
    <3> QED
      BY <2>4, <2>5, <3>3, <3>4, <3>5
  <2>10. Entries(G, k, F, bar.until)
    BY <2>4, <2>8, <2>9, Zenon DEF Entries
  <2>11. OrbGood(k, G, F, n, bar.until)
    BY <1>1, <2>2, <2>10 DEF OrbGood
  <2> QED
    BY <2>0, <2>3, <2>11, <2>d DEF JudgedWell
<1> QED
  BY <1>3, <1>4 DEF Judgement, NewEntry

(* Time passing, and a tick that is to come, leave the state good.           *)
LEMMA OrbLater ==
  ASSUME NEW F, NEW n, NEW T \in Nat, NEW st, NEW E, OrbGood(st, E, F, n, T),
         NEW ts \in Nat, T <= ts
  PROVE  OrbGood(st, E, F, n, ts)
<1>1. Day(T) \in Nat /\ Day(ts) \in Nat /\ TimeOfDay(T) \in Nat
      /\ TimeOfDay(ts) \in Nat
  BY MomentParts
<1>2. Day(T) < Day(ts) \/ (Day(T) = Day(ts) /\ TimeOfDay(T) <= TimeOfDay(ts))
  BY LaterMoment
<1>3. /\ StateShape(st) /\ st.day <= Day(T) /\ RangeGood(st.range, F, n, T)
      /\ Entries(E, st, F, T)
  BY DEF OrbGood
<1>4. st.day \in Int /\ st.day <= Day(ts)
  BY <1>1, <1>2, <1>3 DEF StateShape
<1> DEFINE r == st.range
<1>5. RangeGood(r, F, n, T) /\ r = st.range
  BY <1>3
<1> HIDE DEF r
<1>6. r.day \in Int /\ r.day <= Day(T)
  BY <1>5 DEF RangeGood, RangeShape
<1>7. r.day <= Day(ts)
  BY <1>1, <1>2, <1>6
<1>8. Reached(r, ts)
  <2>1. RangeStart \in Int
    BY SessionAssumption
  <2>2. Reached(r, T)
    BY <1>5 DEF RangeGood
  <2> QED
    BY <1>1, <1>2, <1>6, <2>1, <2>2 DEF Reached
<1>9. r.frozen => PastWindow(ts, r.day)
  <2>1. r.frozen => PastWindow(T, r.day)
    BY <1>5 DEF RangeGood
  <2> QED
    BY <1>6, <2>1, PastStays
<1>10. RangeGood(r, F, n, ts)
  BY <1>5, <1>7, <1>8, <1>9 DEF RangeGood
<1>11. ASSUME NEW e \in EntryType, EntryGood(e, F, T) PROVE EntryGood(e, F, ts)
  <2>1. e.ts \in Nat /\ e.ts <= T
    BY <1>11 DEF EntryType, EntryGood
  <2> QED
    BY <1>11, <2>1 DEF EntryGood
<1>12. \A i \in 1 .. Len(E) : E[i] \in EntryType /\ EntryGood(E[i], F, T)
  BY <1>3, ElementOfSeq DEF Entries
<1>13. Entries(E, st, F, ts)
  BY <1>3, <1>11, <1>12 DEF Entries
<1> QED
  BY <1>3, <1>4, <1>5, <1>10, <1>13 DEF OrbGood

LEMMA OrbAppended ==
  ASSUME NEW F \in Seq(TickType), NEW n \in 0 .. Len(F), NEW T \in Nat,
         NEW st, NEW E, OrbGood(st, E, F, n, T),
         NEW t \in TickType, T <= t.time
  PROVE  OrbGood(st, E, Append(F, t), n, T)
<1> DEFINE G == Append(F, t)
<1>1. Len(G) = Len(F) + 1 /\ (\A i \in 1 .. Len(F) : G[i] = F[i])
      /\ G[Len(F) + 1] = t
  BY AppendProperties
<1>a. G = Append(F, t) /\ Len(F) \in Nat
  OBVIOUS
<1> HIDE DEF G
<1>2. /\ StateShape(st) /\ st.day <= Day(T) /\ RangeGood(st.range, F, n, T)
      /\ Entries(E, st, F, T)
  BY DEF OrbGood
<1>3. RangeGood(st.range, G, n, T)
  BY <1>2, <1>a, RangeAppended
<1>4. t.time \in Nat
  BY DEF TickType
<1>5. ASSUME NEW e \in EntryType, EntryGood(e, F, T) PROVE EntryGood(e, G, T)
  <2>1. e.ts \in Nat /\ e.ts <= t.time /\ TimeOfDay(e.ts) > RangeEnd
    BY <1>4, <1>5 DEF EntryType, EntryGood
  <2>2. Day(e.ts) \in Nat /\ PastWindow(t.time, Day(e.ts))
    BY <1>4, <2>1, EntryIsPast
  <2>3. ~(Day(t.time) = Day(e.ts) /\ InRange(t.time))
    BY <1>4, <2>2, PastIsOut
  <2>4. \A i \in 1 .. Len(G) : i \in 1 .. Len(F) \/ i = Len(F) + 1
    BY <1>1, <1>a
  <2>5. Outside(e, G)
    BY <1>1, <1>5, <2>3, <2>4 DEF Outside, EntryGood
  <2> QED
    BY <1>5, <2>5 DEF EntryGood
<1>6. \A i \in 1 .. Len(E) : E[i] \in EntryType /\ EntryGood(E[i], F, T)
  BY <1>2, ElementOfSeq DEF Entries
<1>7. Entries(E, st, G, T)
  BY <1>2, <1>5, <1>6 DEF Entries
<1> QED
  BY <1>2, <1>3, <1>7, <1>a DEF OrbGood

LEMMA OrbTicked ==
  ASSUME NEW F \in Seq(TickType), NEW n \in Nat, n + 1 = Len(F),
         NEW T, T = F[n + 1].time,
         NEW st, NEW E, OrbGood(st, E, F, n, T),
         NEW k, k = ORBOnTick(st, F[n + 1])
  PROVE  OrbGood(k, E, F, n + 1, T)
<1>1. T \in Nat
  <2>1. F[n + 1] \in TickType
    BY ElementOfSeq
  <2> QED
    BY <2>1 DEF TickType
<1>2. /\ StateShape(st) /\ st.day <= Day(T) /\ RangeGood(st.range, F, n, T)
      /\ Entries(E, st, F, T)
  BY DEF OrbGood
<1> DEFINE r == st.range
           q == RangeUpdate(r, T, F[n + 1].price)
<1>3. k = [range |-> q, vwap |-> k.vwap, taken |-> st.taken, day |-> st.day]
  BY <1>2 DEF ORBOnTick, StateShape
<1>4. k.range = q /\ k.taken = st.taken /\ k.day = st.day
  BY <1>3
<1>5. StateShape(k)
  BY <1>2, <1>3, <1>4 DEF StateShape
<1>6. r = st.range /\ q = RangeUpdate(r, T, F[n + 1].price) /\ T <= T
  BY <1>1
<1> HIDE DEF r, q
<1>7. /\ RangeGood(q, F, n + 1, T) /\ q.day = Day(T)
      /\ ~InRange(T) /\ (r.day = Day(T) => r.hi = NoPrice) => q.hi = NoPrice
  BY <1>1, <1>2, <1>6, TickInRange
<1>8. ASSUME NEW e \in EntryType, EntryGood(e, F, T), Spent(st, Day(e.ts))
      PROVE  Spent(k, Day(e.ts))
  <2>1. e.ts <= T /\ TimeOfDay(e.ts) > RangeEnd
    BY <1>8 DEF EntryGood
  <2>2. Day(e.ts) \in Nat /\ PastWindow(T, Day(e.ts))
    BY <1>1, <2>1, EntryIsPast
  <2>3. Day(T) = Day(e.ts) => ~InRange(T)
    BY <1>1, <2>2, PastIsOut
  <2> QED
    BY <1>4, <1>6, <1>7, <1>8, <2>3 DEF Spent
<1>9. \A i \in 1 .. Len(E) : /\ E[i] \in EntryType
                             /\ EntryGood(E[i], F, T) /\ Spent(st, Day(E[i].ts))
  BY <1>2, ElementOfSeq DEF Entries
<1>10. Entries(E, k, F, T)
  BY <1>2, <1>8, <1>9 DEF Entries
<1> QED
  BY <1>2, <1>4, <1>5, <1>7, <1>10 DEF OrbGood

-----------------------------------------------------------------------------
(* The bar under construction once the ticks F are in, the last at moment T. *)
Seen(F, s, T, p) ==
  \E i \in 1 .. Len(F) : F[i].price = p /\ s <= F[i].time /\ F[i].time <= T

UnderWay(b, secs, F, T) ==
  /\ b = [start |-> b.start, open |-> b.open, high |-> b.high, low |-> b.low,
          close |-> b.close, volume |-> b.volume, trades |-> b.trades,
          worth |-> b.worth]
  /\ b.start = FloorTs(T, secs)
  /\ b.high \in Nat /\ b.low \in Nat /\ b.close \in Nat
  /\ b.low <= b.close /\ b.close <= b.high
  /\ Seen(F, b.start, T, b.high) /\ Seen(F, b.start, T, b.low)

BarGood(b, secs, F, T) ==
  IF F = <<>> THEN b = NoBar ELSE UnderWay(b, secs, F, T)

LEMMA SeenLater ==
  ASSUME NEW F \in Seq(TickType), NEW t \in TickType, NEW T \in Nat, T <= t.time,
         NEW s, NEW p, Seen(F, s, T, p)
  PROVE  Seen(Append(F, t), s, t.time, p)
<1>1. PICK i \in 1 .. Len(F) : F[i].price = p /\ s <= F[i].time /\ F[i].time <= T
  BY DEF Seen
<1>2. F[i].time \in Nat /\ t.time \in Nat
  <2>1. F[i] \in TickType
    BY ElementOfSeq
  <2> QED
    BY <2>1 DEF TickType
<1>3. F[i].time <= t.time
  BY <1>1, <1>2
<1>4. Append(F, t)[i] = F[i] /\ Len(Append(F, t)) = Len(F) + 1
  BY AppendProperties
<1>5. i \in 1 .. Len(Append(F, t))
  BY <1>4
<1> QED
  BY <1>1, <1>3, <1>4, <1>5 DEF Seen

LEMMA BarTicked ==
  ASSUME NEW F \in Seq(TickType), NEW t \in TickType, NEW T \in Nat, T <= t.time,
         NEW secs \in Positive, NEW b, BarGood(b, secs, F, T),
         NEW c, c = AfterTick(b, t, secs)
  PROVE  BarGood(c, secs, Append(F, t), t.time)
<1>1. t.time \in Nat /\ t.price \in Nat
  BY DEF TickType
<1>2. Append(F, t) # <<>> /\ Len(Append(F, t)) = Len(F) + 1
      /\ Append(F, t)[Len(F) + 1] = t
  BY AppendProperties
<1>3. FloorTs(t.time, secs) \in Nat /\ FloorTs(t.time, secs) <= t.time
      /\ FloorTs(T, secs) \in Nat
  BY <1>1, Floors
<1>4. Seen(Append(F, t), FloorTs(t.time, secs), t.time, t.price)
  <2>1. Len(F) + 1 \in 1 .. Len(Append(F, t))
    BY <1>2
  <2> QED
    BY <1>1, <1>2, <1>3, <2>1 DEF Seen
<1>5. CASE b = NoBar \/ Closes(b, t, secs)
  <2>1. c = StartNew(t, FloorTs(t.time, secs))
    BY <1>5 DEF AfterTick
  <2>2. /\ c = [start |-> c.start, open |-> c.open, high |-> c.high, low |-> c.low,
                close |-> c.close, volume |-> c.volume, trades |-> c.trades,
                worth |-> c.worth]
        /\ c.start = FloorTs(t.time, secs)
        /\ c.high = t.price /\ c.low = t.price /\ c.close = t.price
    BY <2>1 DEF StartNew
  <2>3. UnderWay(c, secs, Append(F, t), t.time)
    BY <1>1, <1>4, <2>2 DEF UnderWay
  <2> QED
    BY <1>2, <2>3 DEF BarGood
<1>6. CASE b # NoBar /\ ~Closes(b, t, secs)
  <2>1. UnderWay(b, secs, F, T)
    BY <1>6 DEF BarGood
  <2>2. b.start = FloorTs(T, secs) /\ ~(FloorTs(t.time, secs) > b.start)
    BY <1>6, <2>1 DEF UnderWay, Closes
  <2>3. b.start = FloorTs(t.time, secs)
    <3>1. FloorTs(T, secs) <= FloorTs(t.time, secs)
      BY <1>1, FloorSteps
    <3> QED
      BY <1>3, <2>2, <3>1
  <2>4. /\ b = [start |-> b.start, open |-> b.open, high |-> b.high, low |-> b.low,
                close |-> b.close, volume |-> b.volume, trades |-> b.trades,
                worth |-> b.worth]
        /\ b.high \in Nat /\ b.low \in Nat
        /\ Seen(F, b.start, T, b.high) /\ Seen(F, b.start, T, b.low)
    BY <2>1 DEF UnderWay
  <2> DEFINE h == Max({b.high, t.price})
             l == Min({b.low, t.price})
  <2>5. h \in {b.high, t.price} /\ t.price <= h
    BY <1>1, <2>4, MaxOfTwo
  <2>6. l \in {b.low, t.price} /\ l <= t.price
    BY <1>1, <2>4, MaxOfTwo
  <2>7. c = UpdateCurrent(b, t)
    BY <1>6 DEF AfterTick
  <2>8. c = [start |-> b.start, open |-> b.open, high |-> h, low |-> l,
             close |-> t.price, volume |-> b.volume + t.qty,
             trades |-> b.trades + 1, worth |-> b.worth + t.price * t.qty]
    BY <2>4, <2>7 DEF UpdateCurrent
  <2> HIDE DEF h, l
  <2>9. /\ c = [start |-> c.start, open |-> c.open, high |-> c.high, low |-> c.low,
                close |-> c.close, volume |-> c.volume, trades |-> c.trades,
                worth |-> c.worth]
        /\ c.start = b.start /\ c.high = h /\ c.low = l /\ c.close = t.price
    BY <2>8
  <2>10. /\ Seen(Append(F, t), b.start, t.time, b.high)
         /\ Seen(Append(F, t), b.start, t.time, b.low)
    BY <2>4, SeenLater
  <2>11. /\ Seen(Append(F, t), c.start, t.time, c.high)
         /\ Seen(Append(F, t), c.start, t.time, c.low)
    BY <1>4, <2>3, <2>5, <2>6, <2>9, <2>10
  <2>12. UnderWay(c, secs, Append(F, t), t.time)
    BY <1>1, <2>3, <2>4, <2>5, <2>6, <2>9, <2>11 DEF UnderWay
  <2> QED
    BY <1>2, <2>12 DEF BarGood
<1> QED
  BY <1>5, <1>6

(* The bar a tick closes: it ends between the last tick and this one, and if *)
(* it ends in the opening window its prices are of the same morning.         *)
BarClosed(bar, F, T, t) ==
  /\ ProperBar(bar, Append(F, t)) /\ T <= bar.until /\ bar.until <= t.time

LEMMA BarCloses ==
  ASSUME NEW F \in Seq(TickType), NEW t \in TickType, NEW T \in Nat, T <= t.time,
         NEW secs \in Positive, secs <= RangeStart,
         NEW b, BarGood(b, secs, F, T), Closes(b, t, secs),
         NEW bar, bar = CloseCurrent(b, secs)
  PROVE  BarClosed(bar, F, T, t) /\ bar.until = FloorTs(T, secs) + secs
<1>1. b # NoBar /\ FloorTs(t.time, secs) > b.start
  BY DEF Closes
<1>2. UnderWay(b, secs, F, T)
  BY <1>1 DEF BarGood
<1>3. /\ b.start = FloorTs(T, secs)
      /\ b.high \in Nat /\ b.low \in Nat /\ b.close \in Nat
      /\ b.low <= b.close /\ b.close <= b.high
      /\ Seen(F, b.start, T, b.high) /\ Seen(F, b.start, T, b.low)
  BY <1>2 DEF UnderWay
<1>4. t.time \in Nat
  BY DEF TickType
<1> DEFINE s == FloorTs(T, secs)
           u == s + secs
<1>5. s \in Nat /\ T < u /\ FloorTs(t.time, secs) \in Nat
      /\ FloorTs(t.time, secs) <= t.time
  BY <1>4, Floors
<1>6. s < FloorTs(t.time, secs) => s + secs <= FloorTs(t.time, secs)
  BY <1>4, FloorSteps
<1>7. bar.high = b.high /\ bar.low = b.low /\ bar.close = b.close /\ bar.until = u
  BY <1>3 DEF CloseCurrent
<1>a. s = FloorTs(T, secs) /\ u = s + secs
  OBVIOUS
<1> HIDE DEF s, u
<1>8. u \in Nat /\ u <= t.time /\ T <= u
  BY <1>1, <1>3, <1>4, <1>5, <1>6, <1>a DEF Positive
<1>9. ASSUME NEW p, Seen(F, s, T, p), InRange(u)
      PROVE  Source(Append(F, t), Day(u), p)
  <2>1. PICK i \in 1 .. Len(F) : F[i].price = p /\ s <= F[i].time /\ F[i].time <= T
    BY <1>9 DEF Seen
  <2>2. F[i].time \in Nat
    <3>1. F[i] \in TickType
      BY ElementOfSeq
    <3> QED
      BY <3>1 DEF TickType
  <2>3. u - secs <= F[i].time /\ F[i].time < u
    BY <1>5, <1>8, <1>a, <2>1, <2>2 DEF Positive
  <2>4. Day(F[i].time) = Day(u) /\ TimeOfDay(F[i].time) <= RangeEnd
    BY <1>8, <1>9, <2>2, <2>3, MorningBar
  <2>5. Append(F, t)[i] = F[i] /\ Len(Append(F, t)) = Len(F) + 1
    BY AppendProperties
  <2>6. i \in 1 .. Len(Append(F, t))
    BY <2>5
  <2> QED
    BY <2>1, <2>4, <2>5, <2>6 DEF Source
<1>10. ProperBar(bar, Append(F, t))
  BY <1>3, <1>7, <1>8, <1>9, <1>a DEF ProperBar
<1> QED
  BY <1>7, <1>8, <1>10, <1>a DEF BarClosed

-----------------------------------------------------------------------------
(* The bars that one tick closes are judged one by one.                      *)
Nested ==
  \A k \in DOMAIN Timeframes :
    /\ Timeframes[k] <= RangeStart
    /\ \A l \in DOMAIN Timeframes : k < l => Timeframes[l] % Timeframes[k] = 0

JudgeOne(t, confirmed, atr, k, prev) ==
  IF k \notin Closing(t) THEN prev
  ELSE LET r == ORBOnBar(prev.state, CloseCurrent(builders[k], Timeframes[k]),
                         confirmed[k], atr)
       IN  [state |-> r.state, entries |-> prev.entries \o r.entries]

IsJudging(t, confirmed, atr, m, g) ==
  g = [k \in 0 .. m |->
         IF k = 0 THEN [state |-> orb, entries |-> <<>>]
         ELSE JudgeOne(t, confirmed, atr, k, g[k - 1])]

LEMMA JudgingExists ==
  ASSUME NEW t, NEW confirmed, NEW atr, NEW m \in Nat
  PROVE  \E g : IsJudging(t, confirmed, atr, m, g)
<1> DEFINE F == {j \in 0 .. m : ~ \E g : IsJudging(t, confirmed, atr, j, g)}
<1>1. SUFFICES ASSUME F # {} PROVE FALSE
  OBVIOUS
<1>2. PICK j \in F : \A l \in F : j <= l
  <2>1. F \in SUBSET Nat
    OBVIOUS
  <2> QED
    BY <1>1, <2>1, SmallestNumber
<1>3. CASE j = 0
  <2>1. IsJudging(t, confirmed, atr, 0,
                  [k \in 0 .. 0 |-> [state |-> orb, entries |-> <<>>]])
    BY DEF IsJudging
  <2> QED
    BY <1>2, <1>3, <2>1
<1>4. CASE j # 0
  <2>1. j \in Nat \ {0} /\ j - 1 \in 0 .. m /\ j - 1 \notin F
    BY <1>2, <1>4
  <2>2. PICK g : IsJudging(t, confirmed, atr, j - 1, g)
    BY <2>1
  <2> DEFINE h == [k \in 0 .. j |->
                     IF k = j THEN JudgeOne(t, confirmed, atr, j, g[j - 1])
                     ELSE g[k]]
  <2>3. ASSUME NEW k \in 0 .. j
        PROVE  h[k] = IF k = 0 THEN [state |-> orb, entries |-> <<>>]
                      ELSE JudgeOne(t, confirmed, atr, k, h[k - 1])
    <3>1. CASE k = j
      <4>1. h[k] = JudgeOne(t, confirmed, atr, j, g[j - 1]) /\ h[j - 1] = g[j - 1]
        BY <2>1, <3>1
      <4> QED
        BY <2>1, <3>1, <4>1
    <3>2. CASE k # j
      <4>1. k \in 0 .. j - 1 /\ h[k] = g[k]
        BY <2>1, <3>2
      <4>2. k # 0 => h[k - 1] = g[k - 1]
        BY <2>1, <4>1
      <4> HIDE DEF h
      <4>3. g[k] = IF k = 0 THEN [state |-> orb, entries |-> <<>>]
                   ELSE JudgeOne(t, confirmed, atr, k, g[k - 1])
        BY <2>2, <4>1 DEF IsJudging
      <4> QED
        BY <4>1, <4>2, <4>3
    <3> QED
      BY <3>1, <3>2
  <2>4. h = [k \in 0 .. j |-> h[k]]
    OBVIOUS
  <2> HIDE DEF h
  <2>5. IsJudging(t, confirmed, atr, j, h)
    BY <2>3, <2>4 DEF IsJudging
  <2> QED
    BY <1>2, <2>5
<1> QED
  BY <1>3, <1>4

LEMMA JudgedIsJudging ==
  ASSUME NEW t, NEW confirmed, NEW atr
  PROVE  \E g : /\ IsJudging(t, confirmed, atr, Len(Timeframes), g)
                /\ Judged(t, confirmed, atr) = g[Len(Timeframes)]
<1> DEFINE G == CHOOSE g : IsJudging(t, confirmed, atr, Len(Timeframes), g)
<1>1. Judged(t, confirmed, atr) = G[Len(Timeframes)]
  BY DEF Judged, IsJudging, JudgeOne
<1>2. Len(Timeframes) \in Nat
  BY MarketFeedAssumption
<1>3. IsJudging(t, confirmed, atr, Len(Timeframes), G)
  BY <1>2, JudgingExists
<1> QED
  BY <1>1, <1>3

(* The strategy after the bars of the first k timeframes, at a moment that   *)
(* none of the bars to come precedes.                                        *)
EndOf(j, T) == FloorTs(T, Timeframes[j]) + Timeframes[j]

JudgedTo(m, k, t, T, M) ==
  /\ M \in Nat /\ T <= M /\ M <= t.time
  /\ \A j \in Closing(t) : k < j => M <= EndOf(j, T)
  /\ m.entries \in Seq(EntryType)
  /\ OrbGood(m.state, entries \o m.entries, Append(fed, t), Len(fed), M)

FeedGood(T) ==
  /\ T \in Nat /\ fed \in Seq(TickType)
  /\ \A k \in 1 .. Len(Timeframes) : BarGood(builders[k], Timeframes[k], fed, T)

LEMMA Frames ==
  /\ Len(Timeframes) \in Nat /\ DOMAIN Timeframes = 1 .. Len(Timeframes)
  /\ \A k \in 1 .. Len(Timeframes) : Timeframes[k] \in Positive
<1>1. Timeframes \in Seq(Positive)
  BY MarketFeedAssumption DEF Positive
<1> QED
  BY <1>1, ElementOfSeq

LEMMA Regrouped ==
  \A a, b, c \in Seq(EntryType) : (a \o b) \o c = a \o (b \o c)
BY ConcatAssociative

LEMMA JudgeStep ==
  ASSUME Nested, NEW T, FeedGood(T), NEW t \in TickType, T <= t.time,
         NEW confirmed, NEW atr \in Nat,
         NEW k \in 1 .. Len(Timeframes), NEW m, NEW M, JudgedTo(m, k - 1, t, T, M),
         NEW x, x = JudgeOne(t, confirmed, atr, k, m)
  PROVE  \E N : JudgedTo(x, k, t, T, N)
<1>1. T \in Nat /\ fed \in Seq(TickType) /\ t.time \in Nat
  BY DEF FeedGood, TickType
<1>2. /\ M \in Nat /\ T <= M /\ M <= t.time
      /\ \A j \in Closing(t) : k - 1 < j => M <= EndOf(j, T)
      /\ m.entries \in Seq(EntryType)
      /\ OrbGood(m.state, entries \o m.entries, Append(fed, t), Len(fed), M)
  BY DEF JudgedTo
<1>3. \A j \in Closing(t) : j \in 1 .. Len(Timeframes)
  BY Frames DEF Closing
<1>4. CASE k \notin Closing(t)
  <2>1. x = m
    BY <1>4 DEF JudgeOne
  <2>2. \A j \in Closing(t) : k < j => M <= EndOf(j, T)
    <3>1. \A j \in 1 .. Len(Timeframes) : k < j => k - 1 < j
      BY Frames
    <3> QED
      BY <1>2, <1>3, <3>1
  <2> QED
    BY <1>2, <2>1, <2>2 DEF JudgedTo
<1>5. CASE k \in Closing(t)
  <2> DEFINE bar == CloseCurrent(builders[k], Timeframes[k])
             now == ORBUpdated(m.state, bar)
             r   == ORBOnBar(m.state, bar, confirmed[k], atr)
             F   == Append(fed, t)
             E   == entries \o m.entries
             n   == Len(fed)
             u   == bar.until
  <2>1. x = [state |-> r.state, entries |-> m.entries \o r.entries]
    BY <1>5 DEF JudgeOne
  <2>2. /\ bar = CloseCurrent(builders[k], Timeframes[k]) /\ u = bar.until
        /\ now = ORBUpdated(m.state, bar) /\ F = Append(fed, t)
        /\ r = ORBOnBar(m.state, bar, confirmed[k], atr)
        /\ E = entries \o m.entries /\ n = Len(fed)
    OBVIOUS
  <2> HIDE DEF bar, now, r, F, E, n, u
  <2>3. /\ Timeframes[k] \in Positive /\ Timeframes[k] <= RangeStart
        /\ Closes(builders[k], t, Timeframes[k])
        /\ BarGood(builders[k], Timeframes[k], fed, T)
    <3>1. k \in DOMAIN Timeframes
      BY Frames
    <3> QED
      BY <1>5, <3>1, Frames DEF Nested, Closing, FeedGood
  <2>4. BarClosed(bar, fed, T, t) /\ u = EndOf(k, T)
    <3>1. BarClosed(bar, fed, T, t) /\ bar.until = FloorTs(T, Timeframes[k]) + Timeframes[k]
      BY <1>1, <2>2, <2>3, BarCloses
    <3> QED
      BY <2>2, <3>1 DEF EndOf
  <2>5. ProperBar(bar, F) /\ T <= u /\ u <= t.time /\ u \in Nat
    BY <2>2, <2>4 DEF BarClosed, ProperBar
  <2>6. /\ F \in Seq(TickType) /\ n \in Nat /\ n + 1 = Len(F) /\ n \in 0 .. Len(F)
        /\ F[n + 1] = t
    BY <1>1, <2>2, AppendProperties
  <2>7. M <= u
    <3>1. k - 1 < k
      BY Frames
    <3> QED
      BY <1>2, <1>5, <2>4, <3>1
  <2>8. OrbGood(m.state, E, F, n, M)
    BY <1>2, <2>2
  <2>9. BarUpdated(E, F, n, bar, now)
    BY <1>2, <2>2, <2>5, <2>6, <2>7, <2>8, BarUpdates, Zenon
  <2>10. StateShape(m.state)
    BY <2>8 DEF OrbGood
  <2>11. Judgement(now, bar, confirmed[k], atr, r)
    BY <2>2, <2>5, <2>10, BarIsJudged, Zenon
  <2>12. JudgedWell(E, F, n, bar, r)
    BY <2>2, <2>5, <2>6, <2>9, <2>11, BarJudged, Zenon
  <2>13. r.entries \in Seq(EntryType) /\ OrbGood(r.state, E \o r.entries, F, n, u)
    BY <2>2, <2>12 DEF JudgedWell
  <2>14. entries \in Seq(EntryType)
    BY <2>8, <1>2 DEF OrbGood, Entries
  <2>15. /\ m.entries \o r.entries \in Seq(EntryType)
         /\ E \o r.entries = entries \o (m.entries \o r.entries)
    <3>1. m.entries \in Seq(EntryType) /\ r.entries \in Seq(EntryType)
      BY <1>2, <2>13
    <3>2. m.entries \o r.entries \in Seq(EntryType)
      BY <3>1, ConcatProperties, Zenon
    <3>3. (entries \o m.entries) \o r.entries = entries \o (m.entries \o r.entries)
      BY <2>14, <3>1, Regrouped, Zenon
    <3> QED
      BY <2>2, <3>2, <3>3, Zenon
  <2>16. x.state = r.state /\ x.entries = m.entries \o r.entries
    <3> DEFINE e == m.entries \o r.entries
               w == r.state
    <3>1. x = [state |-> w, entries |-> e]
      BY <2>1
    <3> HIDE DEF e, w
    <3>2. x.state = w /\ x.entries = e
      BY <3>1
    <3> QED
      BY <3>2 DEF e, w
  <2>17. ASSUME NEW j \in Closing(t), k < j PROVE u <= EndOf(j, T)
    <3>1. j \in DOMAIN Timeframes /\ k \in DOMAIN Timeframes
      BY <1>3, Frames
    <3>2. Timeframes[j] \in Positive /\ Timeframes[j] % Timeframes[k] = 0
      BY <2>17, <3>1, Frames, SMTT(30) DEF Nested
    <3>3. EndOf(k, T) <= EndOf(j, T)
      BY <1>1, <2>3, <3>2, NestedFloors, SMTT(30) DEF EndOf
    <3> QED
      BY <2>4, <3>3
  <2>18. JudgedTo(x, k, t, T, u)
    BY <2>2, <2>5, <2>13, <2>15, <2>16, <2>17 DEF JudgedTo
  <2> QED
    BY <2>18
<1> QED
  BY <1>4, <1>5

LEMMA AllJudged ==
  ASSUME Nested, NEW T, FeedGood(T), OrbGood(orb, entries, fed, Len(fed), T),
         NEW t \in TickType, T <= t.time, NEW confirmed, NEW atr \in Nat,
         NEW x, x = Judged(t, confirmed, atr)
  PROVE  OrbGood(x.state, entries \o x.entries, Append(fed, t), Len(fed), t.time)
<1>1. T \in Nat /\ fed \in Seq(TickType) /\ t.time \in Nat
  BY DEF FeedGood, TickType
<1>2. PICK g : /\ IsJudging(t, confirmed, atr, Len(Timeframes), g)
               /\ x = g[Len(Timeframes)]
  BY JudgedIsJudging
<1> DEFINE L == Len(Timeframes)
<1>3. L \in Nat
  BY Frames
<1>4. g[0] = [state |-> orb, entries |-> <<>>]
  BY <1>2, <1>3 DEF IsJudging
<1>5. \A k \in 1 .. L : g[k] = JudgeOne(t, confirmed, atr, k, g[k - 1])
  BY <1>2, <1>3 DEF IsJudging
<1>6. JudgedTo(g[0], 0, t, T, T)
  <2>1. entries \in Seq(EntryType)
    BY DEF OrbGood, Entries
  <2>2. entries \o <<>> = entries /\ <<>> \in Seq(EntryType)
    BY <2>1, ConcatEmptySeq, EmptySeq
  <2>3. OrbGood(orb, entries, Append(fed, t), Len(fed), T)
    BY <1>1, OrbAppended
  <2>4. \A j \in Closing(t) : T <= EndOf(j, T)
    <3>1. SUFFICES ASSUME NEW j \in Closing(t) PROVE T <= EndOf(j, T)
      OBVIOUS
    <3>2. Timeframes[j] \in Positive
      BY Frames DEF Closing
    <3>3. T < FloorTs(T, Timeframes[j]) + Timeframes[j]
          /\ FloorTs(T, Timeframes[j]) \in Nat
      BY <1>1, <3>2, Floors
    <3> QED
      BY <1>1, <3>2, <3>3 DEF EndOf, Positive
  <2>5. g[0].state = orb /\ g[0].entries = <<>>
    BY <1>4
  <2>6. T <= T
    BY <1>1
  <2> QED
    BY <1>1, <2>2, <2>3, <2>4, <2>5, <2>6 DEF JudgedTo
<1> DEFINE P(k) == \E M : JudgedTo(g[k], k, t, T, M)
           B    == {k \in 0 .. L : ~P(k)}
<1>7. ASSUME NEW k \in 1 .. L, P(k - 1) PROVE P(k)
  <2>1. PICK M : JudgedTo(g[k - 1], k - 1, t, T, M)
    BY <1>7
  <2>2. g[k] = JudgeOne(t, confirmed, atr, k, g[k - 1])
    BY <1>5
  <2> QED
    BY <2>1, <2>2, JudgeStep
<1>8. P(L)
  <2>1. SUFFICES ASSUME B # {} PROVE FALSE
    BY <1>3
  <2>2. PICK k \in B : \A l \in B : k <= l
    <3>1. B \in SUBSET Nat
      BY <1>3
    <3> QED
      BY <2>1, <3>1, SmallestNumber
  <2>3. k # 0
    BY <1>6, <2>2
  <2>4. k \in 1 .. L /\ k - 1 \in 0 .. L /\ k - 1 \notin B
    BY <1>3, <2>2, <2>3
  <2>5. P(k - 1)
    BY <2>4
  <2> QED
    BY <1>7, <2>2, <2>4, <2>5
<1>9. PICK M : JudgedTo(x, L, t, T, M)
  BY <1>2, <1>8
<1>10. /\ M \in Nat /\ M <= t.time
       /\ OrbGood(x.state, entries \o x.entries, Append(fed, t), Len(fed), M)
  BY <1>9 DEF JudgedTo
<1> QED
  BY <1>1, <1>10, OrbLater

-----------------------------------------------------------------------------
(* While no tick is late and the bars are served first, there is a moment T, *)
(* that of the last tick served, which no tick in the queue precedes; the    *)
(* builders and the strategy have what the ticks up to T give them, but for  *)
(* the strategy's own update by the tick being served.                       *)
Orderly(T) ==
  /\ FeedGood(T) /\ T <= clock
  /\ queue \in Seq(TickType)
  /\ \A i \in 1 .. Len(queue) : T <= queue[i].time /\ queue[i].time <= clock
  /\ \A i, j \in 1 .. Len(queue) : i < j => queue[i].time <= queue[j].time
  /\ IF tick = Nobody
     THEN OrbGood(orb, entries, fed, Len(fed), T)
     ELSE /\ fed # <<>> /\ T = fed[Len(fed)].time
          /\ tick = [next |-> 2, it |-> fed[Len(fed)]]
          /\ OrbGood(orb, entries, fed, Len(fed) - 1, T)

FeedInv ==
  /\ late \in Nat /\ clock \in Nat /\ order \in Orders
  /\ late = 0 /\ order[1] = "bars" => \E T : Orderly(T)

LEMMA TicksAreTicks == Ticks \subseteq TickType
<1>1. \A t \in Times, d \in Deals : t \in Nat /\ d.price \in Nat /\ d.qty \in Nat
  BY MarketFeedAssumption
<1> QED
  BY <1>1 DEF Ticks, TickType

LEMMA BarsThenORB ==
  ASSUME order \in Orders, order[1] = "bars"
  PROVE  Len(order) = 2 /\ order[2] = "orb"
<1>1. order \in {<<"bars", "orb">>, <<"orb", "bars">>}
  BY MarketFeedAssumption
<1>2. <<"orb", "bars">>[1] # "bars"
  OBVIOUS
<1>3. order = <<"bars", "orb">>
  BY <1>1, <1>2
<1> QED
  BY <1>3

LEMMA FreshOrbGood ==
  ASSUME NEW E \in Seq(EntryType), NEW T \in Nat,
         \A i \in 1 .. Len(E) : /\ E[i].ts <= T /\ TimeOfDay(E[i].ts) > RangeEnd
                                /\ StopIsLoss(E[i]),
         \A i, j \in 1 .. Len(E) : Day(E[i].ts) = Day(E[j].ts) => i = j
  PROVE  OrbGood(FreshORB, E, <<>>, 0, T)
<1>1. Day(T) \in Nat
  BY MomentParts
<1>2. /\ FreshORB.range = FreshRange /\ FreshORB.day = -1 /\ FreshORB.taken = "none"
      /\ StateShape(FreshORB)
  BY DEF FreshORB, StateShape
<1>3. /\ FreshRange.day = -1 /\ FreshRange.hi = NoPrice /\ FreshRange.lo = NoPrice
      /\ FreshRange.frozen = FALSE
  BY DEF FreshRange
<1>4. RangeShape(FreshRange)
  BY DEF FreshRange, RangeShape, Quote, NoPrice
<1>5. RangeGood(FreshRange, <<>>, 0, T)
  BY <1>1, <1>3, <1>4 DEF RangeGood, Reached, Covers, Sources
<1>6. ASSUME NEW i \in 1 .. Len(E)
      PROVE  EntryGood(E[i], <<>>, T) /\ Spent(FreshORB, Day(E[i].ts))
  <2>1. Outside(E[i], <<>>)
    BY DEF Outside
  <2>2. EntryGood(E[i], <<>>, T)
    BY <2>1 DEF EntryGood
  <2>3. FreshORB.range.hi = NoPrice
    BY <1>2, <1>3
  <2> QED
    BY <2>2, <2>3 DEF Spent
<1>7. Entries(E, FreshORB, <<>>, T)
  BY <1>6 DEF Entries
<1> QED
  BY <1>1, <1>2, <1>5, <1>7 DEF OrbGood

LEMMA FreshFeedGood ==
  ASSUME NEW T \in Nat, fed = <<>>,
         builders = [k \in DOMAIN Timeframes |-> NoBar]
  PROVE  FeedGood(T)
BY Frames DEF FeedGood, BarGood

LEMMA FeedStarts == FeedInit => FeedInv
<1>1. SUFFICES ASSUME FeedInit PROVE Orderly(0) /\ FeedInv
  OBVIOUS
<1>2. /\ queue = <<>> /\ tick = Nobody /\ fed = <<>> /\ entries = <<>> /\ clock = 0
      /\ orb = FreshORB /\ builders = [k \in DOMAIN Timeframes |-> NoBar]
      /\ order \in Orders /\ late = 0
  BY <1>1 DEF FeedInit, Fresh
<1>3. FeedGood(0)
  BY <1>2, FreshFeedGood
<1>4. ASSUME NEW E, E = <<>> PROVE OrbGood(FreshORB, E, <<>>, 0, 0)
  <2>1. E \in Seq(EntryType) /\ Len(E) = 0
    BY <1>4, EmptySeq
  <2>2. \A i \in 1 .. Len(E) : FALSE
    BY <2>1
  <2>3. 0 \in Nat
    OBVIOUS
  <2> QED
    BY <2>1, <2>2, <2>3, FreshOrbGood, Zenon
<1>5. Orderly(0)
  BY <1>2, <1>3, <1>4 DEF Orderly
<1> QED
  BY <1>2, <1>5 DEF FeedInv

LEMMA EnqueueOrderly ==
  ASSUME NEW T, Orderly(T), clock \in Nat, late \in Nat,
         NEW t \in Ticks, Enqueue(t), late' = 0
  PROVE  Orderly(T)'
<1>1. /\ t \in TickType /\ t.time \in Nat
  BY TicksAreTicks DEF TickType
<1>2. /\ t.time >= clock /\ clock' = Max({clock, t.time})
      /\ UNCHANGED <<tick, builders, orb, fed, entries>>
      /\ queue' = queue \/ queue' = Append(queue, t)
  BY DEF Enqueue, features
<1>3. clock' = t.time /\ clock <= t.time
  <2>1. Max({clock, t.time}) \in {clock, t.time} /\ t.time <= Max({clock, t.time})
    BY <1>1, MaxOfTwo
  <2> QED
    BY <1>1, <1>2, <2>1
<1>4. /\ FeedGood(T) /\ T <= clock /\ queue \in Seq(TickType)
      /\ \A i \in 1 .. Len(queue) : T <= queue[i].time /\ queue[i].time <= clock
      /\ \A i, j \in 1 .. Len(queue) : i < j => queue[i].time <= queue[j].time
  BY DEF Orderly
<1>5. T \in Nat /\ FeedGood(T)'
  BY <1>2, <1>4 DEF FeedGood
<1>a. T \in Nat /\ T <= clock /\ T <= t.time
  BY <1>1, <1>3, <1>4, <1>5
<1>6. T <= clock'
  BY <1>3, <1>a
<1>7. \A i \in 1 .. Len(queue) : queue[i].time \in Nat
  <2>1. \A i \in 1 .. Len(queue) : queue[i] \in TickType
    BY <1>4, ElementOfSeq
  <2> QED
    BY <2>1 DEF TickType
<1>8. /\ queue' \in Seq(TickType)
      /\ \A i \in 1 .. Len(queue') : T <= queue'[i].time /\ queue'[i].time <= clock'
      /\ \A i, j \in 1 .. Len(queue') : i < j => queue'[i].time <= queue'[j].time
  <2>1. CASE queue' = queue
    <3>1. \A i \in 1 .. Len(queue) : queue[i].time <= t.time
      BY <1>1, <1>3, <1>4, <1>7
    <3> QED
      BY <1>3, <1>4, <2>1, <3>1
  <2>2. CASE queue' = Append(queue, t)
    <3>1. /\ queue' \in Seq(TickType) /\ Len(queue') = Len(queue) + 1
          /\ \A i \in 1 .. Len(queue) : queue'[i] = queue[i]
          /\ queue'[Len(queue) + 1] = t
      BY <1>1, <1>4, <2>2, AppendProperties
    <3>2. Len(queue) \in Nat
      BY <1>4
    <3>3. \A i \in 1 .. Len(queue') :
            /\ T <= queue'[i].time /\ queue'[i].time <= clock'
            /\ queue'[i].time \in Nat
            /\ i \in 1 .. Len(queue) \/ i = Len(queue) + 1
      <4>1. SUFFICES ASSUME NEW i \in 1 .. Len(queue')
                     PROVE  /\ T <= queue'[i].time /\ queue'[i].time <= clock'
                            /\ queue'[i].time \in Nat
                            /\ i \in 1 .. Len(queue) \/ i = Len(queue) + 1
        OBVIOUS
      <4>2. i \in 1 .. Len(queue) \/ i = Len(queue) + 1
        BY <3>1, <3>2
      <4>3. CASE i \in 1 .. Len(queue)
        <5>1. queue'[i] = queue[i] /\ queue[i].time \in Nat /\ T <= queue[i].time
              /\ queue[i].time <= clock
          BY <1>4, <1>7, <3>1, <4>3
        <5> QED
          BY <1>1, <1>3, <4>2, <5>1
      <4>4. CASE i = Len(queue) + 1
        <5>1. queue'[i] = t
          BY <3>1, <4>4
        <5> QED
          BY <1>1, <1>3, <1>a, <4>2, <5>1
      <4> QED
        BY <4>2, <4>3, <4>4
    <3>4. ASSUME NEW i \in 1 .. Len(queue'), NEW j \in 1 .. Len(queue'), i < j
          PROVE  queue'[i].time <= queue'[j].time
      <4>1. CASE j = Len(queue) + 1
        BY <1>3, <3>1, <3>3, <4>1
      <4>2. CASE j \in 1 .. Len(queue)
        <5>1. i \in 1 .. Len(queue)
          BY <3>1, <3>2, <3>4, <4>2
        <5> QED
          BY <1>4, <3>1, <3>4, <4>2, <5>1
      <4> QED
        BY <3>3, <4>1, <4>2
    <3> QED
      BY <3>1, <3>3, <3>4
  <2> QED
    BY <1>2, <2>1, <2>2
<1>9. IF tick' = Nobody
      THEN OrbGood(orb', entries', fed', Len(fed'), T)
      ELSE /\ fed' # <<>> /\ T = fed'[Len(fed')].time
           /\ tick' = [next |-> 2, it |-> fed'[Len(fed')]]
           /\ OrbGood(orb', entries', fed', Len(fed') - 1, T)
  BY <1>2 DEF Orderly
<1> QED
  BY <1>5, <1>6, <1>8, <1>9 DEF Orderly

LEMMA BarsOrderly ==
  ASSUME Nested, NEW T, Orderly(T), order \in Orders, order[1] = "bars",
         clock \in Nat, ServeBars
  PROVE  \E N : Orderly(N)'
<1>1. Len(order) = 2 /\ order[2] = "orb"
  BY BarsThenORB
<1>2. /\ tick # Nobody \/ queue # <<>>
      /\ order[tick.next] = "bars"
      /\ queue' = IF tick = Nobody THEN Tail(queue) ELSE queue
      /\ tick' = IF tick.next < Len(order) THEN [next |-> tick.next + 1, it |-> Served]
                 ELSE Nobody
      /\ clock' = clock
  BY DEF ServeBars, Serving, time
<1>3. tick = Nobody
  <2>1. SUFFICES ASSUME tick # Nobody PROVE FALSE
    OBVIOUS
  <2>2. tick = [next |-> 2, it |-> fed[Len(fed)]]
    BY <2>1 DEF Orderly
  <2>3. tick.next = 2
    BY <2>2
  <2> QED
    BY <1>1, <1>2, <2>3
<1>4. PICK t : t = Head(queue)
  OBVIOUS
<1>5. Served = t /\ tick.next = 1 /\ queue # <<>>
  BY <1>2, <1>3, <1>4 DEF Served, Nobody
<1>6. queue' = Tail(queue) /\ tick' = [next |-> 2, it |-> t]
  BY <1>1, <1>2, <1>3, <1>5
<1>7. /\ FeedGood(T) /\ T <= clock /\ queue \in Seq(TickType)
      /\ \A i \in 1 .. Len(queue) : T <= queue[i].time /\ queue[i].time <= clock
      /\ \A i, j \in 1 .. Len(queue) : i < j => queue[i].time <= queue[j].time
      /\ OrbGood(orb, entries, fed, Len(fed), T)
  BY <1>3 DEF Orderly
<1>8. /\ t \in TickType /\ Tail(queue) \in Seq(TickType)
      /\ Len(Tail(queue)) = Len(queue) - 1 /\ t = queue[1] /\ Len(queue) \in Nat \ {0}
      /\ \A i \in 1 .. Len(Tail(queue)) : Tail(queue)[i] = queue[i + 1]
  BY <1>4, <1>5, <1>7, HeadTailProperties, EmptySeq
<1>9. T <= t.time /\ t.time <= clock /\ t.time \in Nat
  BY <1>7, <1>8 DEF TickType
<1>10. /\ builders' = [k \in DOMAIN Timeframes |->
                         AfterTick(builders[k], t, Timeframes[k])]
       /\ fed' = Append(fed, t)
  BY <1>5 DEF ServeBars
<1>11. PICK confirmed \in [Closing(t) -> BOOLEAN], atr \in Atrs :
         LET judged == Judged(t, confirmed, atr)
         IN  orb' = judged.state /\ entries' = entries \o judged.entries
  BY <1>5 DEF ServeBars
<1>12. T \in Nat /\ fed \in Seq(TickType)
  BY <1>7 DEF FeedGood
<1>13. /\ fed' \in Seq(TickType) /\ fed' # <<>> /\ Len(fed') = Len(fed) + 1
       /\ fed'[Len(fed')] = t
  BY <1>8, <1>10, <1>12, AppendProperties
<1>14. FeedGood(t.time)'
  <2>1. ASSUME NEW k \in 1 .. Len(Timeframes)
        PROVE  BarGood(builders'[k], Timeframes[k], fed', t.time)
    <3>1. /\ Timeframes[k] \in Positive /\ BarGood(builders[k], Timeframes[k], fed, T)
          /\ builders'[k] = AfterTick(builders[k], t, Timeframes[k])
      BY <1>7, <1>10, Frames DEF FeedGood
    <3> QED
      BY <1>8, <1>9, <1>10, <1>12, <3>1, BarTicked
  <2> QED
    BY <1>9, <1>13, <2>1 DEF FeedGood
<1>15. OrbGood(orb', entries', fed', Len(fed') - 1, t.time)
  <2>1. PICK x : x = Judged(t, confirmed, atr)
    OBVIOUS
  <2>2. orb' = x.state /\ entries' = entries \o x.entries
    BY <1>11, <2>1
  <2>3. atr \in Nat
    BY MarketFeedAssumption
  <2>4. OrbGood(x.state, entries \o x.entries, Append(fed, t), Len(fed), t.time)
    BY <1>7, <1>8, <1>9, <2>1, <2>3, AllJudged, Zenon
  <2>5. Len(fed') - 1 = Len(fed)
    BY <1>12, <1>13
  <2> QED
    BY <1>10, <2>2, <2>4, <2>5
<1>16. /\ queue' \in Seq(TickType)
       /\ \A i \in 1 .. Len(queue') : t.time <= queue'[i].time /\ queue'[i].time <= clock
       /\ \A i, j \in 1 .. Len(queue') : i < j => queue'[i].time <= queue'[j].time
  <2>1. ASSUME NEW i \in 1 .. Len(queue')
        PROVE  /\ queue'[i] = queue[i + 1] /\ i + 1 \in 1 .. Len(queue)
               /\ 1 \in 1 .. Len(queue) /\ 1 < i + 1 /\ i \in Int
    BY <1>6, <1>8
  <2>2. \A i \in 1 .. Len(queue') : t.time <= queue'[i].time /\ queue'[i].time <= clock
    BY <1>7, <1>8, <2>1
  <2>3. \A i, j \in 1 .. Len(queue') : i < j => queue'[i].time <= queue'[j].time
    <3>1. SUFFICES ASSUME NEW i \in 1 .. Len(queue'), NEW j \in 1 .. Len(queue'), i < j
                   PROVE  queue'[i].time <= queue'[j].time
      OBVIOUS
    <3>2. i + 1 < j + 1
      BY <2>1, <3>1
    <3>3. queue[i + 1].time <= queue[j + 1].time
      BY <1>7, <2>1, <3>2
    <3> QED
      BY <2>1, <3>3
  <2> QED
    BY <1>6, <1>8, <2>2, <2>3
<1>17. tick' = [next |-> 2, it |-> fed'[Len(fed')]] /\ tick' # Nobody
  <2>1. tick' = [next |-> 2, it |-> fed'[Len(fed')]]
    BY <1>6, <1>13
  <2>2. tick'.next = 2 /\ Nobody.next = 1
    BY <2>1 DEF Nobody
  <2>3. tick' # Nobody
    BY <2>2
  <2> QED
    BY <2>1, <2>3
<1>18. Orderly(t.time)'
  BY <1>2, <1>9, <1>13, <1>14, <1>15, <1>16, <1>17 DEF Orderly
<1> QED
  BY <1>18

LEMMA TickOrderly ==
  ASSUME NEW T, Orderly(T), order \in Orders, order[1] = "bars", ServeORB
  PROVE  Orderly(T)'
<1>1. Len(order) = 2 /\ order[2] = "orb"
  BY BarsThenORB
<1>2. /\ order[tick.next] = "orb"
      /\ queue' = IF tick = Nobody THEN Tail(queue) ELSE queue
      /\ tick' = IF tick.next < Len(order) THEN [next |-> tick.next + 1, it |-> Served]
                 ELSE Nobody
      /\ clock' = clock
      /\ orb' = ORBOnTick(orb, Served)
      /\ UNCHANGED <<builders, fed, entries>>
  BY DEF ServeORB, Serving, time
<1>3. tick # Nobody
  <2>1. tick = Nobody => tick.next = 1
    BY DEF Nobody
  <2> QED
    BY <1>2, <2>1
<1>4. /\ fed # <<>> /\ T = fed[Len(fed)].time
      /\ tick = [next |-> 2, it |-> fed[Len(fed)]]
      /\ OrbGood(orb, entries, fed, Len(fed) - 1, T)
      /\ FeedGood(T)
  BY <1>3 DEF Orderly
<1>5. tick.next = 2 /\ Served = fed[Len(fed)]
  BY <1>3, <1>4 DEF Served
<1>6. tick' = Nobody /\ queue' = queue
  BY <1>1, <1>2, <1>3, <1>5
<1>7. fed \in Seq(TickType) /\ Len(fed) \in Nat \ {0}
  <2>1. fed \in Seq(TickType)
    BY <1>4 DEF FeedGood
  <2> QED
    BY <1>4, <2>1, EmptySeq
<1>8. PICK n \in Nat : n + 1 = Len(fed) /\ Len(fed) - 1 = n
  <2>1. Len(fed) - 1 \in Nat /\ Len(fed) - 1 + 1 = Len(fed)
    BY <1>7
  <2> QED
    BY <2>1
<1>9. T = fed[n + 1].time /\ orb' = ORBOnTick(orb, fed[n + 1])
      /\ OrbGood(orb, entries, fed, n, T)
  BY <1>2, <1>4, <1>5, <1>8
<1>10. OrbGood(orb', entries, fed, n + 1, T)
  BY <1>7, <1>8, <1>9, OrbTicked, Zenon
<1>11. OrbGood(orb', entries', fed', Len(fed'), T)
  BY <1>2, <1>8, <1>10
<1>12. FeedGood(T)'
  BY <1>2, <1>4 DEF FeedGood
<1> QED
  BY <1>2, <1>6, <1>11, <1>12 DEF Orderly

LEMMA RestartOrderly ==
  ASSUME NEW T, Orderly(T), clock \in Nat, FeedRestart
  PROVE  Orderly(clock)'
<1>1. /\ queue' = <<>> /\ tick' = Nobody /\ orb' = FreshORB /\ fed' = <<>>
      /\ builders' = [k \in DOMAIN Timeframes |-> NoBar]
      /\ entries' = entries /\ clock' = clock
  BY DEF FeedRestart
<1>2. PICK n : OrbGood(orb, entries, fed, n, T)
  BY DEF Orderly
<1>3. Entries(entries, orb, fed, T)
  BY <1>2 DEF OrbGood
<1>4. T \in Nat /\ T <= clock
  BY DEF Orderly, FeedGood
<1>5. entries \in Seq(EntryType)
  BY <1>3 DEF Entries
<1>6. ASSUME NEW i \in 1 .. Len(entries)
      PROVE  /\ entries[i].ts <= clock /\ TimeOfDay(entries[i].ts) > RangeEnd
             /\ StopIsLoss(entries[i])
  <2>1. EntryGood(entries[i], fed, T) /\ entries[i] \in EntryType
    BY <1>3, <1>5, ElementOfSeq DEF Entries
  <2>2. entries[i].ts \in Nat /\ entries[i].ts <= T
    BY <2>1 DEF EntryGood, EntryType
  <2> QED
    BY <1>4, <2>1, <2>2 DEF EntryGood
<1>7. \A i, j \in 1 .. Len(entries) :
        Day(entries[i].ts) = Day(entries[j].ts) => i = j
  BY <1>3 DEF Entries
<1>8. OrbGood(FreshORB, entries, <<>>, 0, clock)
  BY <1>5, <1>6, <1>7, FreshOrbGood, Zenon
<1>9. FeedGood(clock)'
  BY <1>1, Frames DEF FeedGood, BarGood
<1>10. Len(<<>>) = 0 /\ <<>> \in Seq(TickType)
  BY EmptySeq
<1>11. OrbGood(orb', entries', fed', Len(fed'), clock)
  BY <1>1, <1>8, <1>10
<1> QED
  BY <1>1, <1>9, <1>10, <1>11 DEF Orderly

LEMMA FeedSteps ==
  ASSUME Nested, FeedInv, [FeedNext]_feedVars
  PROVE  FeedInv'
<1>1. /\ late \in Nat /\ clock \in Nat /\ order \in Orders
      /\ late = 0 /\ order[1] = "bars" => \E T : Orderly(T)
  BY DEF FeedInv
<1>2. CASE UNCHANGED feedVars
  BY <1>1, <1>2 DEF FeedInv, Orderly, FeedGood, feedVars, wires, time, features
<1>3. ASSUME NEW t \in Ticks, Enqueue(t) PROVE FeedInv'
  <2>1. /\ clock' = Max({clock, t.time}) /\ order' = order
        /\ late' = IF t.time >= clock THEN late ELSE late + 1
    BY <1>3 DEF Enqueue
  <2>2. t.time \in Nat
    BY TicksAreTicks DEF TickType
  <2>3. clock' \in Nat
    BY <1>1, <2>1, <2>2, MaxOfTwo
  <2>4. late' \in Nat /\ (late' = 0 => late = 0)
    BY <1>1, <2>1
  <2>5. ASSUME late' = 0, order'[1] = "bars" PROVE \E T : Orderly(T)'
    <3>1. PICK T : Orderly(T)
      BY <1>1, <2>1, <2>4, <2>5
    <3> QED
      BY <1>1, <1>3, <2>5, <3>1, EnqueueOrderly
  <2> QED
    BY <1>1, <2>1, <2>3, <2>4, <2>5 DEF FeedInv
<1>4. CASE ServeBars
  <2>1. clock' = clock /\ order' = order /\ late' = late
    BY <1>4 DEF ServeBars, Serving, time
  <2>2. ASSUME late' = 0, order'[1] = "bars" PROVE \E T : Orderly(T)'
    <3>1. PICK T : Orderly(T)
      BY <1>1, <2>1, <2>2
    <3> QED
      BY <1>1, <1>4, <2>1, <2>2, <3>1, BarsOrderly
  <2> QED
    BY <1>1, <2>1, <2>2 DEF FeedInv
<1>5. CASE ServeORB
  <2>1. clock' = clock /\ order' = order /\ late' = late
    BY <1>5 DEF ServeORB, Serving, time
  <2>2. ASSUME late' = 0, order'[1] = "bars" PROVE \E T : Orderly(T)'
    <3>1. PICK T : Orderly(T)
      BY <1>1, <2>1, <2>2
    <3> QED
      BY <1>1, <1>5, <2>1, <2>2, <3>1, TickOrderly
  <2> QED
    BY <1>1, <2>1, <2>2 DEF FeedInv
<1>6. CASE FeedRestart
  <2>1. clock' = clock /\ order' = order /\ late' = late
    BY <1>6 DEF FeedRestart
  <2>2. ASSUME late' = 0, order'[1] = "bars" PROVE \E T : Orderly(T)'
    <3>1. PICK T : Orderly(T)
      BY <1>1, <2>1, <2>2
    <3> QED
      BY <1>1, <1>6, <3>1, RestartOrderly
  <2> QED
    BY <1>1, <2>1, <2>2 DEF FeedInv
<1> QED
  BY <1>2, <1>3, <1>4, <1>5, <1>6 DEF FeedNext

(* What the ticks served so far say of the range and of the entries.         *)
LEMMA OrderlyTells ==
  ASSUME NEW T, Orderly(T), order[1] = "bars"
  PROVE  RangeSpansWindow /\ EntriesBreakOut /\ OneEntryADay
<1>1. /\ T \in Nat /\ fed \in Seq(TickType) /\ Len(fed) \in Nat
      /\ DOMAIN fed = 1 .. Len(fed)
  BY DEF Orderly, FeedGood
<1>2. PICK n : /\ OrbGood(orb, entries, fed, n, T)
               /\ n = Len(fed) \/ (n = Len(fed) - 1 /\ T = fed[Len(fed)].time)
  BY DEF Orderly
<1> DEFINE r == orb.range
<1>3. RangeGood(r, fed, n, T) /\ Entries(entries, orb, fed, T)
  BY <1>2 DEF OrbGood
<1>4. \A i \in 1 .. Len(fed) : fed[i].time \in Nat /\ fed[i].price \in Nat
                              /\ TimeOfDay(fed[i].time) \in Nat
  <2>1. \A i \in 1 .. Len(fed) : fed[i] \in TickType
    BY <1>1, ElementOfSeq
  <2> QED
    BY <2>1, MomentParts DEF TickType
<1>5. r = orb.range
  OBVIOUS
<1> HIDE DEF r
<1>6. ASSUME r.frozen PROVE RangeSpansWindow
  <2>1. /\ r.hi # NoPrice /\ r.hi \in Int /\ r.lo \in Int /\ r.day \in Int
        /\ PastWindow(T, r.day) /\ Covers(r, fed, n) /\ Sources(r, fed)
    BY <1>3, <1>6 DEF RangeGood, RangeShape, Quote, NoPrice
  <2> DEFINE K == InWindow(r.day) \cup Early(r.day)
  <2>2. ASSUME NEW p, Source(fed, r.day, p) PROVE \E i \in K : fed[i].price = p
    <3>1. PICK i \in 1 .. Len(fed) : /\ fed[i].price = p /\ Day(fed[i].time) = r.day
                                     /\ TimeOfDay(fed[i].time) <= RangeEnd
      BY <2>2 DEF Source
    <3>2. RangeStart \in Int /\ RangeEnd \in Int
      BY SessionAssumption
    <3>3. InRange(fed[i].time) \/ TimeOfDay(fed[i].time) < RangeStart
      BY <1>4, <3>1, <3>2 DEF InRange
    <3> QED
      BY <1>1, <3>1, <3>3 DEF InWindow, Early
  <2>3. \E i \in K : fed[i].price = r.hi
    BY <2>1, <2>2 DEF Sources
  <2>4. \E i \in K : fed[i].price = r.lo
    BY <2>1, <2>2 DEF Sources
  <2>5. ASSUME NEW i \in InWindow(r.day)
        PROVE  fed[i].price \in r.lo .. r.hi
    <3>1. i \in 1 .. Len(fed) /\ Day(fed[i].time) = r.day /\ InRange(fed[i].time)
      BY <1>1 DEF InWindow
    <3>2. i \in 1 .. n
      <4>1. CASE n = Len(fed)
        BY <3>1, <4>1
      <4>2. CASE n = Len(fed) - 1 /\ T = fed[Len(fed)].time
        <5>1. i # Len(fed)
          BY <1>1, <2>1, <3>1, <4>2, PastIsOut
        <5>2. Len(fed) \in Nat /\ i \in 1 .. Len(fed) /\ n = Len(fed) - 1
          BY <1>1, <3>1, <4>2
        <5> QED
          BY <5>1, <5>2
      <4> QED
        BY <1>2, <4>1, <4>2
    <3>3. r.lo <= fed[i].price /\ fed[i].price <= r.hi
      BY <2>1, <3>1, <3>2 DEF Covers
    <3> QED
      BY <1>4, <2>1, <3>1, <3>3
  <2>6. Known(r.day) = InWindow(r.day)
    BY DEF Known
  <2> QED
    BY <1>5, <2>3, <2>4, <2>5, <2>6 DEF RangeSpansWindow
<1>7. RangeSpansWindow
  BY <1>5, <1>6 DEF RangeSpansWindow
<1>8. EntriesBreakOut
  <2>1. SUFFICES ASSUME NEW m \in DOMAIN entries,
                        NEW i \in Known(Day(entries[m].ts))
                 PROVE  IF entries[m].side = "long"
                        THEN /\ entries[m].price > fed[i].price
                             /\ entries[m].stop < 2 * entries[m].price
                        ELSE /\ entries[m].price < fed[i].price
                             /\ entries[m].stop > 2 * entries[m].price
    BY DEF EntriesBreakOut
  <2>2. m \in 1 .. Len(entries)
    <3>1. entries \in Seq(EntryType)
      BY <1>3 DEF Entries
    <3> QED
      BY <3>1
  <2>3. i \in 1 .. Len(fed) /\ Day(fed[i].time) = Day(entries[m].ts)
        /\ InRange(fed[i].time)
    BY <1>1 DEF Known, InWindow
  <2>4. Outside(entries[m], fed) /\ StopIsLoss(entries[m])
    BY <1>3, <2>2 DEF Entries, EntryGood
  <2> QED
    BY <2>3, <2>4 DEF Outside, StopIsLoss
<1>9. OneEntryADay
  <2>1. entries \in Seq(EntryType) /\ DOMAIN entries = 1 .. Len(entries)
    BY <1>3 DEF Entries
  <2> QED
    BY <1>3, <2>1 DEF Entries, OneEntryADay
<1> QED
  BY <1>7, <1>8, <1>9

LEMMA OrderlyFreezes ==
  ASSUME NEW T, Orderly(T), clock \in Nat
  PROVE  FreezesAtEnd
<1>1. PICK n : OrbGood(orb, entries, fed, n, T)
  BY DEF Orderly
<1>2. RangeGood(orb.range, fed, n, T)
  BY <1>1 DEF OrbGood
<1>3. /\ orb.range.day \in Int
      /\ orb.range.frozen => PastWindow(T, orb.range.day)
  BY <1>2 DEF RangeGood, RangeShape
<1>4. T \in Nat /\ T <= clock
  BY DEF Orderly, FeedGood
<1> QED
  BY <1>3, <1>4, PastStays DEF FreezesAtEnd

LEMMA FeedAlways == Nested => (FeedSpec => []FeedInv)
<1> SUFFICES ASSUME Nested PROVE FeedSpec => []FeedInv
  OBVIOUS
<1>1. FeedInit => FeedInv
  BY FeedStarts
<1>2. FeedInv /\ [FeedNext]_feedVars => FeedInv'
  BY FeedSteps
<1> QED
  BY <1>1, <1>2, PTL DEF FeedSpec

(* Served before the strategy, the bars never freeze the opening range       *)
(* (SessionOR, features/session.py) too early: once frozen, it spans every   *)
(* trade of its day's window, whatever the queue drops and the stream of     *)
(* timeframes closes late, for timeframes that nest and are no longer than   *)
(* the morning before the window.                                            *)
THEOREM RangeSpansTheWindow ==
  Nested => (FeedSpec => [](order[1] = "bars" => RangeSpansWindow))
<1> SUFFICES ASSUME Nested PROVE FeedSpec => [](order[1] = "bars" => RangeSpansWindow)
  OBVIOUS
<1>1. FeedInv => (order[1] = "bars" => RangeSpansWindow)
  BY OrderlyTells DEF FeedInv, RangeSpansWindow
<1> QED
  BY <1>1, FeedAlways, PTL

(* The strategy (strategies/equity_orb/strategy.py) enters beyond every      *)
(* trade of its day's window, its stop on the losing side of its price.      *)
THEOREM EntriesAlwaysBreakOut ==
  Nested => (FeedSpec => [](order[1] = "bars" => EntriesBreakOut))
<1> SUFFICES ASSUME Nested PROVE FeedSpec => [](order[1] = "bars" => EntriesBreakOut)
  OBVIOUS
<1>1. FeedInv => (order[1] = "bars" => EntriesBreakOut)
  BY OrderlyTells DEF FeedInv, EntriesBreakOut
<1> QED
  BY <1>1, FeedAlways, PTL

(* It enters once a day, across any number of restarts, none of which        *)
(* restores its latch: after an entry the window is over, and a range that   *)
(* starts empty then stays so.                                               *)
THEOREM OneEntryEveryDay ==
  Nested => (FeedSpec => [](order[1] = "bars" => OneEntryADay))
<1> SUFFICES ASSUME Nested PROVE FeedSpec => [](order[1] = "bars" => OneEntryADay)
  OBVIOUS
<1>1. FeedInv => (order[1] = "bars" => OneEntryADay)
  BY OrderlyTells DEF FeedInv, OneEntryADay
<1> QED
  BY <1>1, FeedAlways, PTL

(* The range never freezes before the feed is past the window's end, as      *)
(* features/session.py:59 says.                                              *)
THEOREM FreezesPastTheEnd ==
  Nested => (FeedSpec => [](order[1] = "bars" => FreezesAtEnd))
<1> SUFFICES ASSUME Nested PROVE FeedSpec => [](order[1] = "bars" => FreezesAtEnd)
  OBVIOUS
<1>1. FeedInv => (order[1] = "bars" => FreezesAtEnd)
  BY OrderlyFreezes DEF FeedInv, FreezesAtEnd
<1> QED
  BY <1>1, FeedAlways, PTL

-----------------------------------------------------------------------------
(* The bars of the stream (MarketFeed, Bars).                                *)
(* The ticks of a window, whether they came in time or late; the bar of some *)
(* of the ticks.                                                             *)
WindowIn(F, i, secs)  == Max({FloorTs(F[j].time, secs) : j \in 1 .. i})
TicksIn(F, w, secs) == {i \in 1 .. Len(F) : WindowIn(F, i, secs) = w}

Prices(F, K)  == {F[i].price : i \in K}
VolumeOf(F, K) == SumFunctionOnSet([i \in DOMAIN F |-> F[i].qty], K)
WorthOf(F, K)  == SumFunctionOnSet([i \in DOMAIN F |-> F[i].qty * F[i].price], K)

Building(F, K, w) ==
  [start |-> w, open |-> F[Min(K)].price, high |-> Max(Prices(F, K)),
   low |-> Min(Prices(F, K)), close |-> F[Max(K)].price,
   volume |-> VolumeOf(F, K), trades |-> Cardinality(K), worth |-> WorthOf(F, K)]

SomeTicks(F, K) == F \in Seq(TickType) /\ K \subseteq 1 .. Len(F) /\ K # {}

LEMMA SomeTicksOf ==
  ASSUME NEW F, NEW K, SomeTicks(F, K)
  PROVE  /\ IsFiniteSet(K) /\ K \in SUBSET Int
         /\ Min(K) \in K /\ \A i \in K : Min(K) <= i
         /\ Max(K) \in K /\ \A i \in K : i <= Max(K)
         /\ \A i \in K : i \in 1 .. Len(F) /\ F[i] \in TickType
         /\ IsFiniteSet(Prices(F, K)) /\ Prices(F, K) \in SUBSET Nat
         /\ Prices(F, K) # {}
<1>1. F \in Seq(TickType) /\ Len(F) \in Nat /\ K \subseteq 1 .. Len(F) /\ K # {}
  BY DEF SomeTicks
<1>2. IsFiniteSet(K)
  <2>1. IsFiniteSet(1 .. Len(F))
    BY <1>1, FS_Interval
  <2> QED
    BY <1>1, <2>1, FS_Subset
<1>3. K \in SUBSET Int
  BY <1>1
<1>4. \A i \in K : i \in 1 .. Len(F) /\ F[i] \in TickType
  BY <1>1, ElementOfSeq
<1> DEFINE p == [i \in K |-> F[i].price]
           P == {p[i] : i \in K}
<1>5. P = Prices(F, K)
  BY DEF Prices
<1>6. P \in SUBSET Nat /\ P # {}
  BY <1>1, <1>4 DEF TickType
<1>7. IsFiniteSet(P)
  <2> HIDE DEF p
  <2> QED
    BY <1>2, ImageFinite
<1>8. Min(K) \in K /\ \A i \in K : Min(K) <= i
  BY <1>1, <1>2, <1>3, LeastMember
<1>9. Max(K) \in K /\ \A i \in K : i <= Max(K)
  BY <1>1, <1>2, <1>3, GreatestMember
<1> QED
  BY <1>2, <1>3, <1>4, <1>5, <1>6, <1>7, <1>8, <1>9

(* A tick more changes the bars it belongs to, and no other.                 *)
LEMMA BarIsKept ==
  ASSUME NEW F, NEW K, SomeTicks(F, K), NEW t \in TickType, NEW w
  PROVE  Building(Append(F, t), K, w) = Building(F, K, w)
<1> DEFINE G == Append(F, t)
<1>1. /\ F \in Seq(TickType) /\ K \subseteq 1 .. Len(F) /\ IsFiniteSet(K)
      /\ \A i \in K : i \in 1 .. Len(F) /\ F[i] \in TickType
      /\ Min(K) \in K /\ Max(K) \in K
  BY SomeTicksOf DEF SomeTicks
<1>2. /\ \A i \in K : G[i] = F[i] /\ i \in DOMAIN F /\ i \in DOMAIN G
  BY <1>1, AppendProperties
<1> HIDE DEF G
<1>3. Prices(G, K) = Prices(F, K)
  BY <1>2 DEF Prices
<1>4. G[Min(K)].price = F[Min(K)].price /\ G[Max(K)].price = F[Max(K)].price
  BY <1>1, <1>2
<1>5. VolumeOf(G, K) = VolumeOf(F, K)
  <2> DEFINE f == [i \in DOMAIN F |-> F[i].qty]
             g == [i \in DOMAIN G |-> G[i].qty]
  <2>1. \A i \in K : f[i] \in Int /\ g[i] = f[i]
    BY <1>1, <1>2, SMTT(30) DEF TickType
  <2> HIDE DEF f, g
  <2>2. SumFunctionOnSet(f, K) = SumFunctionOnSet(g, K)
    BY <1>1, <2>1, SumCongruent
  <2> QED
    BY <2>2 DEF VolumeOf, f, g
<1>6. WorthOf(G, K) = WorthOf(F, K)
  <2> DEFINE f == [i \in DOMAIN F |-> F[i].qty * F[i].price]
             g == [i \in DOMAIN G |-> G[i].qty * G[i].price]
  <2>1. \A i \in K : f[i] \in Int /\ g[i] = f[i]
    BY <1>1, <1>2 DEF TickType
  <2> HIDE DEF f, g
  <2>2. SumFunctionOnSet(f, K) = SumFunctionOnSet(g, K)
    BY <1>1, <2>1, SumCongruent
  <2> QED
    BY <2>2 DEF WorthOf, f, g
<1> QED
  BY <1>3, <1>4, <1>5, <1>6 DEF Building, G

LEMMA BarBegins ==
  ASSUME NEW F \in Seq(TickType), NEW t \in TickType, NEW w,
         NEW n, n = Len(F) + 1
  PROVE  Building(Append(F, t), {n}, w) = StartNew(t, w)
<1> DEFINE G == Append(F, t)
           K == {n}
<1>1. n \in Nat /\ n \in DOMAIN G /\ G[n] = t
  BY AppendProperties
<1> HIDE DEF G
<1>2. t.price \in Nat /\ t.qty \in Nat
  BY DEF TickType
<1>3. Min(K) = n /\ Max(K) = n
  <2>1. K \in SUBSET Int /\ n \in K /\ \A i \in K : i <= n /\ n <= i
    BY <1>1
  <2> HIDE DEF K
  <2> QED
    BY <2>1, OneLeast, OneGreatest
<1>4. Prices(G, K) = {t.price}
  BY <1>1 DEF Prices
<1>5. Max({t.price}) = t.price /\ Min({t.price}) = t.price
  <2> DEFINE P == {t.price}
             p == t.price
  <2>1. P \in SUBSET Int /\ p \in P /\ \A x \in P : x <= p /\ p <= x
    BY <1>2
  <2> HIDE DEF P, p
  <2>2. Max(P) = p /\ Min(P) = p
    BY <2>1, OneLeast, OneGreatest
  <2> QED
    BY <2>2 DEF P, p
<1>6. IsFiniteSet({}) /\ {} \cup {n} = K /\ n \notin {}
  BY FS_EmptySet
<1>7. VolumeOf(G, K) = t.qty
  <2> DEFINE g == [i \in DOMAIN G |-> G[i].qty]
  <2>1. g[n] = t.qty
    BY <1>1
  <2>2. \A x \in {} \cup {n} : g[x] \in Int
    BY <1>2, <2>1
  <2> HIDE DEF g
  <2>3. SumFunctionOnSet(g, {} \cup {n}) = SumFunctionOnSet(g, {}) + g[n]
    BY <1>6, <2>2, SumAdds
  <2>4. SumFunctionOnSet(g, K) = t.qty
    BY <1>2, <1>6, <2>1, <2>3, SumOfNothing
  <2> QED
    BY <2>4 DEF VolumeOf, g
<1>8. WorthOf(G, K) = t.price * t.qty
  <2> DEFINE g == [i \in DOMAIN G |-> G[i].qty * G[i].price]
  <2>1. g[n] = t.price * t.qty /\ t.price * t.qty \in Int
    BY <1>1, <1>2
  <2>2. \A x \in {} \cup {n} : g[x] \in Int
    BY <2>1
  <2> HIDE DEF g
  <2>3. SumFunctionOnSet(g, {} \cup {n}) = SumFunctionOnSet(g, {}) + g[n]
    BY <1>6, <2>2, SumAdds
  <2>4. SumFunctionOnSet(g, K) = t.price * t.qty
    BY <1>6, <2>1, <2>3, SumOfNothing
  <2> QED
    BY <2>4 DEF WorthOf, g
<1>9. Cardinality(K) = 1
  BY FS_Singleton
<1>10. Building(G, K, w) = StartNew(t, w)
  BY <1>1, <1>3, <1>4, <1>5, <1>7, <1>8, <1>9, Zenon DEF Building, StartNew
<1> QED
  BY <1>10 DEF G

LEMMA UpdateIs ==
  ASSUME NEW t \in TickType, NEW b,
         b = [start |-> b.start, open |-> b.open, high |-> b.high, low |-> b.low,
              close |-> b.close, volume |-> b.volume, trades |-> b.trades,
              worth |-> b.worth],
         NEW c, c = UpdateCurrent(b, t)
  PROVE  c = [start |-> b.start, open |-> b.open, high |-> Max({b.high, t.price}),
            low |-> Min({b.low, t.price}), close |-> t.price,
            volume |-> b.volume + t.qty, trades |-> b.trades + 1,
            worth |-> b.worth + t.price * t.qty]
<1> DEFINE h == Max({b.high, t.price})
           l == Min({b.low, t.price})
<1>1. t.price \in Nat /\ t.qty \in Nat
  BY DEF TickType
<1>2. b = [start |-> b.start, open |-> b.open, high |-> b.high, low |-> b.low,
              close |-> b.close, volume |-> b.volume, trades |-> b.trades,
              worth |-> b.worth]
  OBVIOUS
<1>3. c = UpdateCurrent(b, t)
  OBVIOUS
<1> QED
  BY <1>2, <1>3 DEF UpdateCurrent

LEMMA BarGrows ==
  ASSUME NEW F, NEW K, SomeTicks(F, K), NEW t \in TickType, NEW w,
         NEW n, n = Len(F) + 1
  PROVE  Building(Append(F, t), K \cup {n}, w) = UpdateCurrent(Building(F, K, w), t)
<1> DEFINE G == Append(F, t)
           M == K \cup {n}
           P == Prices(F, K)
<1>1. /\ F \in Seq(TickType) /\ K \subseteq 1 .. Len(F) /\ IsFiniteSet(K)
      /\ \A i \in K : i \in 1 .. Len(F) /\ F[i] \in TickType
      /\ Min(K) \in K /\ Max(K) \in K /\ \A i \in K : Min(K) <= i
      /\ K \in SUBSET Int
      /\ IsFiniteSet(P) /\ P \in SUBSET Nat /\ P # {}
  BY SomeTicksOf DEF SomeTicks
<1>2. /\ \A i \in K : G[i] = F[i] /\ i \in DOMAIN F /\ i \in DOMAIN G
      /\ n \in Nat /\ n \in DOMAIN G /\ G[n] = t /\ n \notin K
      /\ \A i \in K : i < n
  BY <1>1, AppendProperties
<1> HIDE DEF G
<1>3. t.price \in Nat /\ t.qty \in Nat
  BY DEF TickType
<1>4. Min(M) = Min(K) /\ Max(M) = n
  <2> DEFINE l == Min(K)
  <2>1. /\ K \in SUBSET Int /\ n \in Int /\ l \in K /\ \A i \in K : l <= i
        /\ \A i \in K : i < n
    BY <1>1, <1>2
  <2> HIDE DEF l
  <2>2. M \in SUBSET Int /\ n \in M /\ l \in M
    BY <2>1
  <2>3. \A i \in M : i <= n
    BY <2>1
  <2>4. \A i \in M : l <= i
    BY <2>1
  <2> HIDE DEF M
  <2>5. Min(M) = l /\ Max(M) = n
    BY <2>2, <2>3, <2>4, OneLeast, OneGreatest
  <2> QED
    BY <2>5 DEF l
<1>5. Prices(G, M) = P \cup {t.price}
  BY <1>2 DEF Prices
<1>6. /\ Max(P \cup {t.price}) = Max({Max(P), t.price})
      /\ Min(P \cup {t.price}) = Min({Min(P), t.price})
  <2> DEFINE p == t.price
             h == Max(P)
             l == Min(P)
  <2>1. P \in SUBSET Int
    BY <1>1
  <2>2. h \in P /\ \A x \in P : x <= h
    BY <1>1, <2>1, GreatestMember
  <2>3. l \in P /\ \A x \in P : l <= x
    BY <1>1, <2>1, LeastMember
  <2>4. h \in Nat /\ l \in Nat /\ p \in Nat
    BY <1>1, <1>3, <2>2, <2>3
  <2> HIDE DEF p, h, l, P
  <2>5. /\ Max({h, p}) \in {h, p} /\ h <= Max({h, p}) /\ p <= Max({h, p})
        /\ Min({l, p}) \in {l, p} /\ Min({l, p}) <= l /\ Min({l, p}) <= p
    BY <2>4, MaxOfTwo
  <2> DEFINE a == Max({h, p})
             b == Min({l, p})
  <2>6. /\ a \in P \cup {p} /\ b \in P \cup {p} /\ a \in Int /\ b \in Int
        /\ P \cup {p} \in SUBSET Int
    BY <2>1, <2>2, <2>3, <2>4, <2>5
  <2>7. h <= a /\ p <= a /\ b <= l /\ b <= p
    BY <2>5
  <2> HIDE DEF a, b
  <2>8. \A x \in P \cup {p} : x <= a
    BY <2>1, <2>2, <2>4, <2>6, <2>7
  <2>9. \A x \in P \cup {p} : b <= x
    BY <2>1, <2>3, <2>4, <2>6, <2>7
  <2>10. Max(P \cup {p}) = a /\ Min(P \cup {p}) = b
    BY <2>6, <2>8, <2>9, OneLeast, OneGreatest
  <2> QED
    BY <2>10 DEF a, b, p, h, l
<1>7. VolumeOf(G, M) = VolumeOf(F, K) + t.qty
  <2> DEFINE f == [i \in DOMAIN F |-> F[i].qty]
             g == [i \in DOMAIN G |-> G[i].qty]
  <2>1. \A i \in K : f[i] \in Int /\ g[i] = f[i]
    BY <1>1, <1>2 DEF TickType
  <2>2. g[n] = t.qty
    BY <1>2
  <2> HIDE DEF f, g
  <2>3. \A x \in K \cup {n} : g[x] \in Int
    BY <1>3, <2>1, <2>2
  <2>4. SumFunctionOnSet(f, K) = SumFunctionOnSet(g, K)
    BY <1>1, <2>1, SumCongruent
  <2>5. SumFunctionOnSet(g, K \cup {n}) = SumFunctionOnSet(g, K) + g[n]
    BY <1>1, <1>2, <2>3, SumAdds
  <2> QED
    BY <2>2, <2>4, <2>5 DEF VolumeOf, f, g
<1>8. WorthOf(G, M) = WorthOf(F, K) + t.price * t.qty
  <2> DEFINE f == [i \in DOMAIN F |-> F[i].qty * F[i].price]
             g == [i \in DOMAIN G |-> G[i].qty * G[i].price]
  <2>a. \A i \in K : F[i].qty \in Int /\ F[i].price \in Int
    <3>1. \A i \in K : F[i] \in TickType
      BY <1>1
    <3> QED
      BY <3>1 DEF TickType
  <2>b. \A i \in K : G[i] = F[i] /\ i \in DOMAIN F /\ i \in DOMAIN G
    BY <1>2
  <2>1. \A i \in K : f[i] \in Int /\ g[i] = f[i]
    BY <2>a, <2>b
  <2>2. g[n] = t.price * t.qty /\ t.price * t.qty \in Int
    BY <1>2, <1>3
  <2> HIDE DEF f, g
  <2>3. \A x \in K \cup {n} : g[x] \in Int
    BY <2>1, <2>2
  <2>4. SumFunctionOnSet(f, K) = SumFunctionOnSet(g, K)
    BY <1>1, <2>1, SumCongruent
  <2>5. SumFunctionOnSet(g, K \cup {n}) = SumFunctionOnSet(g, K) + g[n]
    BY <1>1, <1>2, <2>3, SumAdds
  <2> QED
    BY <2>2, <2>4, <2>5 DEF WorthOf, f, g
<1>9. Cardinality(M) = Cardinality(K) + 1
  BY <1>1, <1>2, FS_AddElement
<1>10. G[Min(K)].price = F[Min(K)].price
  BY <1>1, <1>2
<1> DEFINE b == Building(F, K, w)
<1>11. /\ b.start = w /\ b.open = F[Min(K)].price /\ b.high = Max(P) /\ b.low = Min(P)
       /\ b.volume = VolumeOf(F, K) /\ b.trades = Cardinality(K)
       /\ b.worth = WorthOf(F, K)
  BY DEF Building
<1>a. b = [start |-> b.start, open |-> b.open, high |-> b.high, low |-> b.low,
           close |-> b.close, volume |-> b.volume, trades |-> b.trades,
           worth |-> b.worth]
  BY DEF Building
<1> HIDE DEF b, P, M
<1> DEFINE c == UpdateCurrent(b, t)
<1>b. c = UpdateCurrent(b, t)
  OBVIOUS
<1> HIDE DEF c
<1>c. c = [start |-> b.start, open |-> b.open, high |-> Max({b.high, t.price}),
           low |-> Min({b.low, t.price}), close |-> t.price,
           volume |-> b.volume + t.qty, trades |-> b.trades + 1,
           worth |-> b.worth + t.price * t.qty]
  BY <1>a, <1>b, UpdateIs
<1>12. UpdateCurrent(b, t)
         = [start |-> w, open |-> F[Min(K)].price, high |-> Max({Max(P), t.price}),
            low |-> Min({Min(P), t.price}), close |-> t.price,
            volume |-> VolumeOf(F, K) + t.qty, trades |-> Cardinality(K) + 1,
            worth |-> WorthOf(F, K) + t.price * t.qty]
  BY <1>11, <1>b, <1>c, Zenon
<1>13. /\ G[Max(M)].price = t.price
       /\ Max(Prices(G, M)) = Max({Max(P), t.price})
       /\ Min(Prices(G, M)) = Min({Min(P), t.price})
       /\ G[Min(M)].price = F[Min(K)].price
  BY <1>2, <1>4, <1>5, <1>6, <1>10, Zenon
<1>14. Building(G, M, w)
         = [start |-> w, open |-> F[Min(K)].price, high |-> Max({Max(P), t.price}),
            low |-> Min({Min(P), t.price}), close |-> t.price,
            volume |-> VolumeOf(F, K) + t.qty, trades |-> Cardinality(K) + 1,
            worth |-> WorthOf(F, K) + t.price * t.qty]
  BY <1>7, <1>8, <1>9, <1>13, Zenon DEF Building
<1> QED
  BY <1>12, <1>14, Zenon DEF G, M, b

(* The window of a tick is the latest one reached so far.                    *)
LEMMA WindowReached ==
  ASSUME NEW F \in Seq(TickType), NEW i \in 1 .. Len(F), NEW secs \in Positive
  PROVE  /\ WindowIn(F, i, secs) \in Nat
         /\ \E j \in 1 .. i : WindowIn(F, i, secs) = FloorTs(F[j].time, secs)
         /\ \A j \in 1 .. i : FloorTs(F[j].time, secs) \in Nat
                              /\ FloorTs(F[j].time, secs) <= WindowIn(F, i, secs)
<1> DEFINE f == [j \in 1 .. i |-> FloorTs(F[j].time, secs)]
           S == {f[j] : j \in 1 .. i}
<1>1. ASSUME NEW j \in 1 .. i PROVE FloorTs(F[j].time, secs) \in Nat
  <2>1. j \in 1 .. Len(F)
    BY <1>1
  <2>2. F[j] \in TickType
    BY <2>1, ElementOfSeq
  <2>3. F[j].time \in Nat
    BY <2>2 DEF TickType
  <2> QED
    BY <2>3, Floors
<1>2. \A j \in 1 .. i : f[j] = FloorTs(F[j].time, secs) /\ f[j] \in Nat
  BY <1>1
<1>3. WindowIn(F, i, secs) = Max(S)
  BY DEF WindowIn
<1>4. i \in Nat /\ i \in 1 .. i
  OBVIOUS
<1> HIDE DEF f
<1>5. S \in SUBSET Int /\ S # {} /\ IsFiniteSet(S)
  <2>1. IsFiniteSet(S)
    BY <1>4, ValuesFinite, Zenon
  <2> QED
    BY <1>2, <1>4, <2>1
<1>6. Max(S) \in S /\ \A x \in S : x <= Max(S)
  BY <1>5, GreatestMember
<1>7. PICK j \in 1 .. i : Max(S) = f[j]
  BY <1>6
<1>8. \A k \in 1 .. i : f[k] <= Max(S)
  BY <1>6
<1> HIDE DEF S
<1> QED
  BY <1>2, <1>3, <1>7, <1>8

LEMMA WindowGrows ==
  ASSUME NEW F \in Seq(TickType), NEW i \in 1 .. Len(F), NEW j \in i .. Len(F),
         NEW secs \in Positive
  PROVE  WindowIn(F, i, secs) <= WindowIn(F, j, secs)
<1>1. j \in 1 .. Len(F)
  OBVIOUS
<1>2. PICK k \in 1 .. i : WindowIn(F, i, secs) = FloorTs(F[k].time, secs)
  BY WindowReached
<1>3. k \in 1 .. j
  OBVIOUS
<1>4. FloorTs(F[k].time, secs) <= WindowIn(F, j, secs)
  BY <1>1, <1>3, WindowReached
<1> QED
  BY <1>2, <1>4

LEMMA WindowKept ==
  ASSUME NEW F \in Seq(TickType), NEW t \in TickType, NEW i \in 1 .. Len(F), NEW secs
  PROVE  WindowIn(Append(F, t), i, secs) = WindowIn(F, i, secs)
<1> DEFINE G == Append(F, t)
<1>1. \A j \in 1 .. i : j \in 1 .. Len(F)
  OBVIOUS
<1>2. \A j \in 1 .. i : G[j] = F[j]
  BY <1>1, AppendProperties
<1> HIDE DEF G
<1>3. {FloorTs(G[j].time, secs) : j \in 1 .. i}
        = {FloorTs(F[j].time, secs) : j \in 1 .. i}
  BY <1>2
<1>4. WindowIn(G, i, secs) = WindowIn(F, i, secs)
  BY <1>3, Zenon DEF WindowIn
<1> QED
  BY <1>4 DEF G

(* The next tick opens its own window if that is later, else it joins the    *)
(* open one.                                                                 *)
LEMMA WindowFirst ==
  ASSUME NEW t \in TickType, NEW secs \in Positive
  PROVE  WindowIn(Append(<<>>, t), 1, secs) = FloorTs(t.time, secs)
<1> DEFINE G == Append(<<>>, t)
<1>1. G \in Seq(TickType) /\ Len(G) = 1 /\ G[1] = t
  OBVIOUS
<1> HIDE DEF G
<1>2. 1 \in 1 .. Len(G) /\ \A j \in 1 .. 1 : j = 1
  BY <1>1
<1>3. \E j \in 1 .. 1 : WindowIn(G, 1, secs) = FloorTs(G[j].time, secs)
  BY <1>1, <1>2, WindowReached
<1> QED
  BY <1>1, <1>2, <1>3 DEF G

LEMMA WindowNext ==
  ASSUME NEW F \in Seq(TickType), F # <<>>, NEW t \in TickType, NEW secs \in Positive,
         NEW w, w = WindowIn(F, Len(F), secs), NEW f, f = FloorTs(t.time, secs),
         NEW n, n = Len(F) + 1
  PROVE  /\ w \in Nat /\ f \in Nat
         /\ f > w => WindowIn(Append(F, t), n, secs) = f
         /\ ~(f > w) => WindowIn(Append(F, t), n, secs) = w
<1> DEFINE G == Append(F, t)
<1>1. /\ G \in Seq(TickType) /\ Len(G) = n /\ G[n] = t /\ Len(F) \in Nat
      /\ Len(F) \in 1 .. Len(F) /\ n \in 1 .. n /\ n \in 1 .. Len(G)
      /\ \A i \in 1 .. Len(F) : G[i] = F[i]
  BY EmptySeq, AppendProperties
<1> HIDE DEF G
<1> DEFINE v == WindowIn(G, n, secs)
           g == [j \in 1 .. n |-> FloorTs(G[j].time, secs)]
<1>2. /\ v \in Nat
      /\ \E j \in 1 .. n : v = g[j]
      /\ \A j \in 1 .. n : g[j] \in Nat /\ g[j] <= v
  BY <1>1, WindowReached
<1>3. g[n] = f
  BY <1>1
<1>4. /\ w \in Nat
      /\ \E j \in 1 .. Len(F) : w = FloorTs(F[j].time, secs)
      /\ \A j \in 1 .. Len(F) : FloorTs(F[j].time, secs) <= w
  BY <1>1, WindowReached
<1>5. \A j \in 1 .. Len(F) : j \in 1 .. n /\ g[j] = FloorTs(F[j].time, secs)
  BY <1>1
<1> HIDE DEF v, g
<1>6. /\ \E j \in 1 .. Len(F) : w = g[j]
      /\ \A j \in 1 .. Len(F) : g[j] <= w
  BY <1>4, <1>5
<1>7. f \in Nat /\ f <= v /\ w <= v
  BY <1>1, <1>2, <1>3, <1>5, <1>6
<1>8. v = f \/ v <= w
  <2>1. PICK j \in 1 .. n : v = g[j]
    BY <1>2
  <2>2. j = n \/ j \in 1 .. Len(F)
    BY <1>1
  <2> QED
    BY <1>3, <1>6, <2>1, <2>2
<1>9. (f > w => v = f) /\ (~(f > w) => v = w)
  BY <1>2, <1>4, <1>7, <1>8
<1> QED
  BY <1>4, <1>7, <1>9 DEF G, v

(* The ticks of the windows after one tick more.                             *)
LEMMA TicksInSome ==
  ASSUME NEW F \in Seq(TickType), NEW i \in 1 .. Len(F), NEW secs
  PROVE  SomeTicks(F, TicksIn(F, WindowIn(F, i, secs), secs))
BY DEF SomeTicks, TicksIn

LEMMA TicksInKept ==
  ASSUME NEW F \in Seq(TickType), NEW t \in TickType, NEW secs, NEW x,
         NEW n, n = Len(F) + 1
  PROVE  TicksIn(Append(F, t), x, secs)
         = IF WindowIn(Append(F, t), n, secs) = x THEN TicksIn(F, x, secs) \cup {n}
           ELSE TicksIn(F, x, secs)
<1> DEFINE G == Append(F, t)
<1>1. Len(G) = n /\ Len(F) \in Nat /\ 1 .. n = (1 .. Len(F)) \cup {n}
  BY AppendProperties
<1>2. \A i \in 1 .. Len(F) : WindowIn(G, i, secs) = WindowIn(F, i, secs)
  BY WindowKept
<1> HIDE DEF G
<1>3. TicksIn(G, x, secs)
        = IF WindowIn(G, n, secs) = x THEN TicksIn(F, x, secs) \cup {n}
          ELSE TicksIn(F, x, secs)
  BY <1>1, <1>2 DEF TicksIn
<1> QED
  BY <1>3 DEF G

(* The bar of a window, as it is handed out; the windows of a feed.          *)
Handed(F, w, secs) == CloseCurrent(Building(F, TicksIn(F, w, secs), w), secs)
Windows(F, secs)   == {WindowIn(F, i, secs) : i \in 1 .. Len(F)}
AllBars(secs)      == {CloseCurrent(Building(F, K, w), secs) :
                         F \in Seq(TickType), K \in SUBSET Nat, w \in Nat}

(* What a builder holds after a feed and has handed out on the way, be the   *)
(* ticks in order or late: the bar of the open window, and those of all the  *)
(* earlier ones.                                                             *)
Complete(s, F, w, secs) ==
  /\ s \in Seq(AllBars(secs))
  /\ \A x \in Windows(F, secs) : x # w => \E m \in 1 .. Len(s) : s[m].from = x
  /\ \A m \in 1 .. Len(s) :
       /\ s[m].from \in Windows(F, secs) /\ s[m].from < w
       /\ s[m] = Handed(F, s[m].from, secs)
  /\ \A m, n \in 1 .. Len(s) : m < n => s[m].from < s[n].from

BarsGood(b, s, F, secs) ==
  /\ F = <<>> => b = NoBar /\ s = <<>>
  /\ F # <<>> => LET w == WindowIn(F, Len(F), secs)
                 IN  /\ b = Building(F, TicksIn(F, w, secs), w)
                     /\ Complete(s, F, w, secs)

LEMMA WindowsAre ==
  ASSUME NEW F \in Seq(TickType), NEW secs \in Positive, NEW x \in Windows(F, secs)
  PROVE  /\ x \in Nat /\ F # <<>> /\ x <= WindowIn(F, Len(F), secs)
         /\ SomeTicks(F, TicksIn(F, x, secs))
<1>1. PICK i \in 1 .. Len(F) : x = WindowIn(F, i, secs)
  BY DEF Windows
<1>2. Len(F) \in Nat /\ Len(F) \in i .. Len(F) /\ i \in Nat
  OBVIOUS
<1>3. x \in Nat
  BY <1>1, WindowReached
<1>4. x <= WindowIn(F, Len(F), secs)
  BY <1>1, <1>2, WindowGrows
<1>5. SomeTicks(F, TicksIn(F, x, secs))
  BY <1>1, TicksInSome
<1>6. F # <<>>
  BY <1>2
<1> QED
  BY <1>3, <1>4, <1>5, <1>6

(* A tick changes no bar but that of its window.                             *)
LEMMA HandedKept ==
  ASSUME NEW F \in Seq(TickType), NEW t \in TickType, NEW secs \in Positive,
         NEW x \in Windows(F, secs), WindowIn(Append(F, t), Len(F) + 1, secs) # x
  PROVE  Handed(Append(F, t), x, secs) = Handed(F, x, secs)
<1>1. SomeTicks(F, TicksIn(F, x, secs))
  BY WindowsAre
<1>2. TicksIn(Append(F, t), x, secs) = TicksIn(F, x, secs)
  BY TicksInKept
<1>3. Building(Append(F, t), TicksIn(F, x, secs), x)
        = Building(F, TicksIn(F, x, secs), x)
  BY <1>1, BarIsKept
<1> QED
  BY <1>2, <1>3, Zenon DEF Handed

LEMMA WindowsGrow ==
  ASSUME NEW F \in Seq(TickType), NEW t \in TickType, NEW secs,
         NEW n, n = Len(F) + 1
  PROVE  Windows(Append(F, t), secs)
         = Windows(F, secs) \cup {WindowIn(Append(F, t), n, secs)}
<1> DEFINE G == Append(F, t)
<1>1. Len(G) = n /\ Len(F) \in Nat /\ 1 .. n = (1 .. Len(F)) \cup {n}
  BY AppendProperties
<1>2. \A i \in 1 .. Len(F) : WindowIn(G, i, secs) = WindowIn(F, i, secs)
  BY WindowKept
<1> HIDE DEF G
<1>3. Windows(G, secs) = Windows(F, secs) \cup {WindowIn(G, n, secs)}
  BY <1>1, <1>2 DEF Windows
<1> QED
  BY <1>3 DEF G

LEMMA BuildingIsBar ==
  ASSUME NEW F, NEW K, NEW w \in Nat
  PROVE  /\ Building(F, K, w) # NoBar /\ Building(F, K, w).start = w
         /\ \A secs : CloseCurrent(Building(F, K, w), secs).from = w
<1>1. Building(F, K, w).start = w
  BY DEF Building
<1>2. NoBar.start = -1
  BY DEF NoBar
<1> QED
  BY <1>1, <1>2 DEF CloseCurrent

LEMMA FirstTick ==
  ASSUME NEW t \in TickType, NEW secs \in Positive
  PROVE  BarsGood(AfterTick(NoBar, t, secs), <<>>, Append(<<>>, t), secs)
<1> DEFINE G == Append(<<>>, t)
           w == FloorTs(t.time, secs)
<1>1. G \in Seq(TickType) /\ Len(G) = 1 /\ G # <<>> /\ <<>> \in Seq(TickType)
      /\ Len(<<>>) = 0
  OBVIOUS
<1>2. WindowIn(G, 1, secs) = w
  BY WindowFirst
<1>3. AfterTick(NoBar, t, secs) = StartNew(t, w)
  BY DEF AfterTick
<1>a. G = Append(<<>>, t) /\ 1 = Len(<<>>) + 1
  OBVIOUS
<1> HIDE DEF G, w
<1>4. Building(G, {1}, w) = StartNew(t, w)
  BY <1>1, <1>a, BarBegins, Zenon
<1>5. TicksIn(G, w, secs) = {1}
  BY <1>1, <1>2 DEF TicksIn
<1>6. Windows(G, secs) = {w}
  BY <1>1, <1>2 DEF Windows
<1>7. Complete(<<>>, G, w, secs)
  BY <1>6, EmptySeq DEF Complete
<1>8. BarsGood(AfterTick(NoBar, t, secs), <<>>, G, secs)
  BY <1>1, <1>2, <1>3, <1>4, <1>5, <1>7, Zenon DEF BarsGood
<1> QED
  BY <1>8 DEF G

(* A tick of the open window or of an earlier one.                           *)
LEMMA TickJoins ==
  ASSUME NEW F \in Seq(TickType), F # <<>>, NEW t \in TickType,
         NEW secs \in Positive, NEW b, NEW s, BarsGood(b, s, F, secs),
         ~Closes(b, t, secs)
  PROVE  BarsGood(AfterTick(b, t, secs), s, Append(F, t), secs)
<1> DEFINE G == Append(F, t)
           n == Len(F) + 1
           w == WindowIn(F, Len(F), secs)
           f == FloorTs(t.time, secs)
           K == TicksIn(F, w, secs)
<1>1. /\ G \in Seq(TickType) /\ Len(G) = n /\ G # <<>> /\ n = Len(F) + 1
      /\ Len(F) \in 1 .. Len(F)
  BY EmptySeq, AppendProperties
<1>a. /\ G = Append(F, t) /\ n = Len(F) + 1 /\ w = WindowIn(F, Len(F), secs)
      /\ f = FloorTs(t.time, secs) /\ K = TicksIn(F, w, secs)
  OBVIOUS
<1>2. b = Building(F, K, w) /\ Complete(s, F, w, secs)
  BY DEF BarsGood
<1>3. w \in Nat /\ f \in Nat /\ (~(f > w) => WindowIn(G, n, secs) = w)
  <2> HIDE DEF G, n, w, f, K
  <2> QED
    BY <1>a, WindowNext
<1>4. b # NoBar /\ b.start = w
  BY <1>2, <1>3, BuildingIsBar
<1>5. ~(f > w)
  BY <1>4 DEF Closes
<1>6. WindowIn(G, n, secs) = w
  BY <1>3, <1>5
<1>7. SomeTicks(F, K)
  BY <1>1, TicksInSome
<1>8. AfterTick(b, t, secs) = UpdateCurrent(b, t)
  BY <1>4 DEF AfterTick
<1>9. TicksIn(G, w, secs) = K \cup {n}
  <2> HIDE DEF G, n, w, f, K
  <2> QED
    BY <1>6, <1>a, TicksInKept
<1>10. Building(G, K \cup {n}, w) = UpdateCurrent(b, t)
  <2> HIDE DEF G, n, w, f, K
  <2> QED
    BY <1>2, <1>7, <1>a, BarGrows
<1>11. Windows(G, secs) = Windows(F, secs)
  <2>1. w \in Windows(F, secs)
    BY <1>1 DEF Windows
  <2>2. Windows(G, secs) = Windows(F, secs) \cup {WindowIn(G, n, secs)}
    BY <1>1, WindowsGrow, Zenon
  <2> QED
    BY <1>6, <2>1, <2>2
<1>12. \A x \in Windows(F, secs) : x # w => Handed(G, x, secs) = Handed(F, x, secs)
  BY <1>6, HandedKept
<1> HIDE DEF G, n, w, f, K
<1>13. Complete(s, G, w, secs)
  <2>1. \A m \in 1 .. Len(s) :
          /\ s[m].from \in Windows(F, secs) /\ s[m].from < w
          /\ s[m] = Handed(F, s[m].from, secs)
    BY <1>2 DEF Complete
  <2>2. \A m \in 1 .. Len(s) : s[m].from # w
    <3>1. SUFFICES ASSUME NEW m \in 1 .. Len(s), s[m].from = w PROVE FALSE
      OBVIOUS
    <3>2. w < w
      BY <2>1, <3>1
    <3> QED
      BY <1>3, <3>2
  <2>3. \A m \in 1 .. Len(s) : s[m] = Handed(G, s[m].from, secs)
    BY <1>12, <2>1, <2>2, Zenon
  <2> QED
    BY <1>2, <1>11, <2>1, <2>3, Zenon DEF Complete
<1>14. BarsGood(AfterTick(b, t, secs), s, G, secs)
  BY <1>1, <1>6, <1>8, <1>9, <1>10, <1>13, Zenon DEF BarsGood
<1> QED
  BY <1>14 DEF G

(* A tick of a later window.                                                 *)
LEMMA TickCloses ==
  ASSUME NEW F \in Seq(TickType), F # <<>>, NEW t \in TickType,
         NEW secs \in Positive, NEW b, NEW s, BarsGood(b, s, F, secs),
         Closes(b, t, secs)
  PROVE  BarsGood(AfterTick(b, t, secs), Append(s, CloseCurrent(b, secs)),
                  Append(F, t), secs)
<1> DEFINE G == Append(F, t)
           n == Len(F) + 1
           w == WindowIn(F, Len(F), secs)
           f == FloorTs(t.time, secs)
           K == TicksIn(F, w, secs)
           c == CloseCurrent(b, secs)
           z == Append(s, c)
           l == Len(s) + 1
<1>1. /\ G \in Seq(TickType) /\ Len(G) = n /\ G # <<>> /\ n = Len(F) + 1
      /\ Len(F) \in 1 .. Len(F)
  BY EmptySeq, AppendProperties
<1>a. /\ G = Append(F, t) /\ n = Len(F) + 1 /\ w = WindowIn(F, Len(F), secs)
      /\ f = FloorTs(t.time, secs) /\ K = TicksIn(F, w, secs)
  OBVIOUS
<1>2. b = Building(F, K, w) /\ Complete(s, F, w, secs)
  BY DEF BarsGood
<1>3. w \in Nat /\ f \in Nat /\ (f > w => WindowIn(G, n, secs) = f)
  <2> HIDE DEF G, n, w, f, K
  <2> QED
    BY <1>a, WindowNext
<1>4. b.start = w /\ c.from = w
  BY <1>2, <1>3, BuildingIsBar
<1>5. f > w
  BY <1>4 DEF Closes
<1>6. WindowIn(G, n, secs) = f
  BY <1>3, <1>5
<1>7. AfterTick(b, t, secs) = StartNew(t, f)
  BY DEF AfterTick
<1>8. w \in Windows(F, secs) /\ Windows(G, secs) = Windows(F, secs) \cup {f}
  <2>1. w \in Windows(F, secs)
    BY <1>1 DEF Windows
  <2>2. Windows(G, secs) = Windows(F, secs) \cup {WindowIn(G, n, secs)}
    BY <1>1, WindowsGrow, Zenon
  <2> QED
    BY <1>6, <2>1, <2>2
<1>9. \A x \in Windows(F, secs) : x \in Nat /\ x <= w
  BY WindowsAre
<1>10. \A x \in Windows(F, secs) : x < f
  BY <1>3, <1>5, <1>9
<1>11. TicksIn(G, f, secs) = {n}
  <2>1. TicksIn(G, f, secs) = TicksIn(F, f, secs) \cup {n}
    <3> HIDE DEF G, n, w, f, K
    <3> QED
      BY <1>6, <1>a, TicksInKept
  <2>2. \A i \in 1 .. Len(F) : WindowIn(F, i, secs) # f
    <3>1. \A i \in 1 .. Len(F) : WindowIn(F, i, secs) \in Windows(F, secs)
      BY DEF Windows
    <3>2. f \notin Windows(F, secs)
      BY <1>3, <1>10
    <3> QED
      BY <3>1, <3>2, Zenon
  <2>3. TicksIn(F, f, secs) = {}
    BY <2>2 DEF TicksIn
  <2> QED
    BY <2>1, <2>3
<1>12. Building(G, {n}, f) = StartNew(t, f)
  BY <1>1, BarBegins, Zenon
<1>13. \A x \in Windows(F, secs) : Handed(G, x, secs) = Handed(F, x, secs)
  <2>1. ASSUME NEW x \in Windows(F, secs) PROVE WindowIn(G, n, secs) # x
    <3>1. x < f
      BY <1>10, <2>1
    <3> QED
      BY <1>3, <1>6, <3>1
  <2> QED
    BY <2>1, HandedKept
<1>14. c = Handed(F, w, secs) /\ c \in AllBars(secs)
  <2>1. c = Handed(F, w, secs)
    BY <1>2, Zenon DEF Handed
  <2>2. K \in SUBSET Nat
    BY DEF TicksIn
  <2> QED
    BY <1>2, <1>3, <2>1, <2>2 DEF AllBars
<1>15. /\ s \in Seq(AllBars(secs))
       /\ \A x \in Windows(F, secs) : x # w => \E m \in 1 .. Len(s) : s[m].from = x
       /\ \A m \in 1 .. Len(s) :
            /\ s[m].from \in Windows(F, secs) /\ s[m].from < w
            /\ s[m] = Handed(F, s[m].from, secs)
       /\ \A m, k \in 1 .. Len(s) : m < k => s[m].from < s[k].from
  BY <1>2 DEF Complete
<1>16. /\ z \in Seq(AllBars(secs)) /\ Len(z) = l /\ z[l] = c
       /\ \A m \in 1 .. Len(s) : z[m] = s[m]
       /\ 1 .. l = (1 .. Len(s)) \cup {l} /\ l \in 1 .. l
       /\ l \in Nat /\ Len(s) = l - 1
  BY <1>14, <1>15, AppendProperties
<1> HIDE DEF G, n, w, f, K, c, z
<1>17. Complete(z, G, f, secs)
  <2>1. \A x \in Windows(G, secs) : x # f => \E m \in 1 .. Len(z) : z[m].from = x
    <3>1. SUFFICES ASSUME NEW x \in Windows(G, secs), x # f
                   PROVE  \E m \in 1 .. l : z[m].from = x
      BY <1>16
    <3>2. x \in Windows(F, secs)
      BY <1>8, <3>1
    <3>3. CASE x = w
      BY <1>4, <1>16, <3>3
    <3>4. CASE x # w
      <4>1. PICK m \in 1 .. Len(s) : s[m].from = x
        BY <1>15, <3>2, <3>4
      <4> QED
        BY <1>16, <4>1
    <3> QED
      BY <3>3, <3>4
  <2>2. ASSUME NEW m \in 1 .. Len(z)
        PROVE  /\ z[m].from \in Windows(G, secs) /\ z[m].from < f
               /\ z[m] = Handed(G, z[m].from, secs)
    <3>1. CASE m \in 1 .. Len(s)
      <4>1. z[m] = s[m] /\ s[m].from \in Windows(F, secs)
            /\ s[m] = Handed(F, s[m].from, secs)
        BY <1>15, <1>16, <3>1
      <4>2. s[m].from < f /\ s[m].from \in Windows(G, secs)
        BY <1>8, <1>10, <4>1
      <4>3. s[m] = Handed(G, s[m].from, secs)
        BY <1>13, <4>1, Zenon
      <4> QED
        BY <4>1, <4>2, <4>3, Zenon
    <3>2. CASE m = l
      <4>1. z[m] = c /\ z[m].from = w
        BY <1>4, <1>16, <3>2
      <4>2. w < f /\ w \in Windows(G, secs)
        BY <1>8, <1>10
      <4>3. c = Handed(G, w, secs)
        BY <1>8, <1>13, <1>14, Zenon
      <4> QED
        BY <4>1, <4>2, <4>3, Zenon
    <3> QED
      BY <1>16, <2>2, <3>1, <3>2
  <2>3. ASSUME NEW m \in 1 .. Len(z), NEW k \in 1 .. Len(z), m < k
        PROVE  z[m].from < z[k].from
    <3>1. m \in 1 .. Len(s)
      BY <1>16, <2>3
    <3>2. CASE k \in 1 .. Len(s)
      <4>1. s[m].from < s[k].from
        BY <1>15, <2>3, <3>1, <3>2
      <4> QED
        BY <1>16, <3>1, <3>2, <4>1
    <3>3. CASE k = l
      <4>1. z[k].from = w /\ z[m] = s[m]
        BY <1>4, <1>16, <3>1, <3>3
      <4>2. s[m].from < w
        BY <1>15, <3>1
      <4> QED
        BY <4>1, <4>2
    <3> QED
      BY <1>16, <2>3, <3>2, <3>3
  <2> QED
    BY <1>16, <2>1, <2>2, <2>3, Zenon DEF Complete
<1>18. BarsGood(AfterTick(b, t, secs), z, G, secs)
  BY <1>1, <1>6, <1>7, <1>11, <1>12, <1>17, Zenon DEF BarsGood
<1> QED
  BY <1>18 DEF G, z, c

StreamInv ==
  /\ order \in Orders /\ fed \in Seq(TickType) /\ queue \in Seq(TickType)
  /\ tick = Nobody \/ (tick.next = 2 /\ tick.it \in TickType)
  /\ \A k \in 1 .. Len(Timeframes) :
       BarsGood(builders[k], bars[k], fed, Timeframes[k])

LEMMA TwoConsumers == ASSUME order \in Orders PROVE Len(order) = 2
<1>1. order \in {<<"bars", "orb">>, <<"orb", "bars">>}
  BY MarketFeedAssumption
<1> QED
  BY <1>1

LEMMA FreshStream ==
  ASSUME order \in Orders, Fresh
  PROVE  StreamInv
<1>1. /\ queue = <<>> /\ tick = Nobody /\ fed = <<>>
      /\ builders = [k \in DOMAIN Timeframes |-> NoBar]
      /\ bars = [k \in DOMAIN Timeframes |-> <<>>]
  BY DEF Fresh
<1>2. \A k \in 1 .. Len(Timeframes) : builders[k] = NoBar /\ bars[k] = <<>>
  BY <1>1, Frames
<1>3. \A k \in 1 .. Len(Timeframes) :
        BarsGood(builders[k], bars[k], fed, Timeframes[k])
  BY <1>1, <1>2, Zenon DEF BarsGood
<1> QED
  BY <1>1, <1>3 DEF StreamInv

(* The loop serves a tick to the two consumers and takes the next.           *)
LEMMA TickServed ==
  ASSUME StreamInv, NEW consumer, Serving(consumer)
  PROVE  /\ Served \in TickType /\ order' = order /\ queue' \in Seq(TickType)
         /\ tick' = Nobody \/ (tick'.next = 2 /\ tick'.it \in TickType)
<1>1. /\ order \in Orders /\ queue \in Seq(TickType)
      /\ tick = Nobody \/ (tick.next = 2 /\ tick.it \in TickType)
  BY DEF StreamInv
<1>2. /\ tick # Nobody \/ queue # <<>>
      /\ order' = order
      /\ queue' = IF tick = Nobody THEN Tail(queue) ELSE queue
      /\ tick' = IF tick.next < Len(order)
                 THEN [next |-> tick.next + 1, it |-> Served] ELSE Nobody
  BY DEF Serving
<1>3. Len(order) = 2
  BY <1>1, TwoConsumers
<1>4. CASE tick = Nobody
  <2>1. queue # <<>>
    BY <1>2, <1>4
  <2>2. Head(queue) \in TickType /\ Tail(queue) \in Seq(TickType)
    BY <1>1, <2>1, HeadTailProperties
  <2>3. Served \in TickType /\ tick.next = 1
    BY <1>4, <2>2 DEF Served, Nobody
  <2>4. tick' = [next |-> 2, it |-> Served]
    BY <1>2, <1>3, <2>3
  <2> QED
    BY <1>2, <1>4, <2>2, <2>3, <2>4
<1>5. CASE tick # Nobody
  <2>1. tick.next = 2 /\ tick.it \in TickType
    BY <1>1, <1>5
  <2>2. Served \in TickType
    BY <1>5, <2>1 DEF Served
  <2>3. tick' = Nobody
    BY <1>2, <1>3, <2>1
  <2> QED
    BY <1>1, <1>2, <1>5, <2>2, <2>3
<1> QED
  BY <1>4, <1>5

LEMMA StreamTicks ==
  ASSUME StreamInv, ServeBars
  PROVE  StreamInv'
<1> DEFINE t == Served
<1>1. /\ order \in Orders /\ fed \in Seq(TickType)
      /\ \A k \in 1 .. Len(Timeframes) :
           BarsGood(builders[k], bars[k], fed, Timeframes[k])
  BY DEF StreamInv
<1>2. /\ Serving("bars") /\ fed' = Append(fed, t)
      /\ builders' = [k \in DOMAIN Timeframes |->
                        AfterTick(builders[k], t, Timeframes[k])]
      /\ bars' = [k \in DOMAIN Timeframes |->
                    IF k \in Closing(t)
                    THEN Append(bars[k], CloseCurrent(builders[k], Timeframes[k]))
                    ELSE bars[k]]
  BY DEF ServeBars
<1>3. /\ t \in TickType /\ order' = order /\ queue' \in Seq(TickType)
      /\ tick' = Nobody \/ (tick'.next = 2 /\ tick'.it \in TickType)
  BY <1>2, TickServed
<1> HIDE DEF t
<1>4. fed' \in Seq(TickType)
  BY <1>1, <1>2, <1>3, AppendProperties
<1>5. ASSUME NEW k \in 1 .. Len(Timeframes)
      PROVE  BarsGood(builders'[k], bars'[k], fed', Timeframes[k])
  <2> DEFINE secs == Timeframes[k]
             b    == builders[k]
             s    == bars[k]
  <2>1. secs \in Positive /\ k \in DOMAIN Timeframes
    BY <1>5, Frames
  <2>2. BarsGood(b, s, fed, secs)
    BY <1>1, <1>5
  <2>3. builders'[k] = AfterTick(b, t, secs)
    BY <1>2, <2>1
  <2>4. bars'[k] = IF Closes(b, t, secs) THEN Append(s, CloseCurrent(b, secs)) ELSE s
    <3>1. k \in Closing(t) <=> Closes(b, t, secs)
      BY <2>1 DEF Closing
    <3> QED
      BY <1>2, <2>1, <3>1
  <2> HIDE DEF secs, b, s
  <2>5. CASE fed = <<>>
    <3>1. b = NoBar /\ s = <<>>
      BY <2>2, <2>5 DEF BarsGood
    <3>2. bars'[k] = <<>>
      BY <2>4, <3>1 DEF Closes
    <3>3. BarsGood(AfterTick(NoBar, t, secs), <<>>, Append(<<>>, t), secs)
      BY <1>3, <2>1, FirstTick
    <3> QED
      BY <1>2, <2>3, <2>5, <3>1, <3>2, <3>3 DEF secs
  <2>6. CASE fed # <<>> /\ ~Closes(b, t, secs)
    <3>1. BarsGood(AfterTick(b, t, secs), s, Append(fed, t), secs)
      BY <1>1, <1>3, <2>1, <2>2, <2>6, TickJoins
    <3> QED
      BY <1>2, <2>3, <2>4, <2>6, <3>1 DEF secs
  <2>7. CASE fed # <<>> /\ Closes(b, t, secs)
    <3>1. BarsGood(AfterTick(b, t, secs), Append(s, CloseCurrent(b, secs)),
                   Append(fed, t), secs)
      BY <1>1, <1>3, <2>1, <2>2, <2>7, TickCloses
    <3> QED
      BY <1>2, <2>3, <2>4, <2>7, <3>1 DEF secs
  <2> QED
    BY <2>5, <2>6, <2>7
<1> QED
  BY <1>1, <1>3, <1>4, <1>5 DEF StreamInv

LEMMA StreamInvNext == StreamInv /\ [FeedNext]_feedVars => StreamInv'
<1>1. SUFFICES ASSUME StreamInv, [FeedNext]_feedVars PROVE StreamInv'
  OBVIOUS
<1>2. /\ order \in Orders /\ queue \in Seq(TickType)
      /\ tick = Nobody \/ (tick.next = 2 /\ tick.it \in TickType)
  BY <1>1 DEF StreamInv
<1>3. ASSUME NEW t \in Ticks, Enqueue(t) PROVE StreamInv'
  <2>1. /\ UNCHANGED <<tick, order, builders, fed, bars>>
        /\ queue' = Append(queue, t) \/ queue' = queue
    BY <1>3 DEF Enqueue, features
  <2>2. t \in TickType
    BY <1>3, TicksAreTicks
  <2>3. queue' \in Seq(TickType)
    BY <1>2, <2>1, <2>2, AppendProperties
  <2> QED
    BY <1>1, <2>1, <2>3 DEF StreamInv
<1>4. CASE ServeBars
  BY <1>1, <1>4, StreamTicks
<1>5. CASE ServeORB
  <2>1. Serving("orb") /\ UNCHANGED <<builders, bars, fed>>
    BY <1>5 DEF ServeORB
  <2>2. /\ order' = order /\ queue' \in Seq(TickType)
        /\ tick' = Nobody \/ (tick'.next = 2 /\ tick'.it \in TickType)
    BY <1>1, <2>1, TickServed
  <2> QED
    BY <1>1, <2>1, <2>2 DEF StreamInv
<1>6. CASE FeedRestart
  <2>1. /\ queue' = <<>> /\ tick' = Nobody /\ fed' = <<>> /\ order' = order
        /\ builders' = [k \in DOMAIN Timeframes |-> NoBar]
        /\ bars' = [k \in DOMAIN Timeframes |-> <<>>]
    BY <1>6 DEF FeedRestart
  <2>2. \A k \in 1 .. Len(Timeframes) : builders'[k] = NoBar /\ bars'[k] = <<>>
    BY <2>1, Frames
  <2>3. \A k \in 1 .. Len(Timeframes) :
          BarsGood(builders'[k], bars'[k], fed', Timeframes[k])
    BY <2>1, <2>2, Zenon DEF BarsGood
  <2> QED
    BY <1>2, <2>1, <2>3 DEF StreamInv
<1>7. CASE UNCHANGED feedVars
  BY <1>1, <1>7 DEF feedVars, wires, features, StreamInv
<1> QED
  BY <1>1, <1>3, <1>4, <1>5, <1>6, <1>7 DEF FeedNext

LEMMA StreamIsTheTicks == StreamInv => BarsAreTheTicks
<1>1. SUFFICES ASSUME StreamInv PROVE BarsAreTheTicks
  OBVIOUS
<1>2. /\ fed \in Seq(TickType) /\ DOMAIN fed = 1 .. Len(fed) /\ Len(fed) \in Nat
  BY <1>1 DEF StreamInv
<1>3. ASSUME NEW k \in DOMAIN Timeframes
      PROVE  LET secs     == Timeframes[k]
                 windows  == {WindowOf(i, secs) : i \in DOMAIN fed}
                 finished == {w \in windows : \E v \in windows : w < v}
                 from     == [n \in DOMAIN bars[k] |-> bars[k][n].from]
             IN  /\ {from[n] : n \in DOMAIN from} = finished
                 /\ \A m, n \in DOMAIN from : m < n => from[m] < from[n]
                 /\ \A n \in DOMAIN from : bars[k][n] = BarOf(from[n], secs)
  <2> DEFINE secs     == Timeframes[k]
             s        == bars[k]
             windows  == {WindowOf(i, secs) : i \in DOMAIN fed}
             finished == {w \in windows : \E v \in windows : w < v}
             from     == [n \in DOMAIN s |-> s[n].from]
  <2>1. secs \in Positive /\ BarsGood(builders[k], s, fed, secs)
    BY <1>1, <1>3, Frames DEF StreamInv
  <2>2. windows = Windows(fed, secs)
    BY <1>2 DEF WindowOf, Windows, WindowIn
  <2>3. \A x : BarOf(x, secs) = Handed(fed, x, secs)
    <3>1. SUFFICES ASSUME NEW x PROVE BarOf(x, secs) = Handed(fed, x, secs)
      OBVIOUS
    <3>2. {i \in DOMAIN fed : WindowOf(i, secs) = x} = TicksIn(fed, x, secs)
      BY <1>2 DEF WindowOf, TicksIn, WindowIn
    <3> HIDE DEF secs
    <3> DEFINE K == TicksIn(fed, x, secs)
    <3>3. BarOf(x, secs) =
            [open |-> fed[Min(K)].price, close |-> fed[Max(K)].price,
             high |-> Max(Prices(fed, K)), low |-> Min(Prices(fed, K)),
             volume |-> VolumeOf(fed, K), worth |-> WorthOf(fed, K),
             trades |-> Cardinality(K), from |-> x, until |-> x + secs]
      BY <3>2, Zenon DEF BarOf, Prices, VolumeOf, WorthOf
    <3> HIDE DEF K
    <3>4. CloseCurrent(Building(fed, K, x), secs) =
            [open |-> fed[Min(K)].price, close |-> fed[Max(K)].price,
             high |-> Max(Prices(fed, K)), low |-> Min(Prices(fed, K)),
             volume |-> VolumeOf(fed, K), worth |-> WorthOf(fed, K),
             trades |-> Cardinality(K), from |-> x, until |-> x + secs]
      BY DEF CloseCurrent, Building
    <3> QED
      BY <3>3, <3>4 DEF Handed, K
  <2> HIDE DEF secs, s, windows
  <2>4. /\ {from[n] : n \in DOMAIN from} = finished
        /\ \A m, n \in DOMAIN from : m < n => from[m] < from[n]
        /\ \A n \in DOMAIN from : s[n] = Handed(fed, from[n], secs)
    <3>1. CASE fed = <<>>
      <4>1. s = <<>> /\ Len(fed) = 0
        BY <2>1, <3>1 DEF BarsGood
      <4>2. windows = {} /\ DOMAIN from = {}
        <5>1. 1 .. Len(fed) = {}
          BY <4>1
        <5> QED
          BY <2>2, <4>1, <5>1 DEF Windows
      <4> QED
        BY <4>2
    <3>2. CASE fed # <<>>
      <4> DEFINE w == WindowIn(fed, Len(fed), secs)
      <4>1. Complete(s, fed, w, secs)
        BY <2>1, <3>2 DEF BarsGood
      <4>2. /\ s \in Seq(AllBars(secs))
            /\ \A x \in windows : x # w => \E m \in 1 .. Len(s) : s[m].from = x
            /\ \A m \in 1 .. Len(s) :
                 /\ s[m].from \in windows /\ s[m].from < w
                 /\ s[m] = Handed(fed, s[m].from, secs)
            /\ \A m, n \in 1 .. Len(s) : m < n => s[m].from < s[n].from
        BY <2>2, <4>1 DEF Complete
      <4>3. w \in windows
        <5>1. Len(fed) \in 1 .. Len(fed)
          BY <1>2, <3>2, EmptySeq
        <5> QED
          BY <2>2, <5>1 DEF Windows
      <4>4. \A x \in windows : x \in Nat /\ x <= w
        BY <1>2, <2>1, <2>2, WindowsAre
      <4> HIDE DEF w
      <4>5. DOMAIN s = 1 .. Len(s)
        BY <4>2
      <4>6. DOMAIN from = 1 .. Len(s) /\ \A m \in 1 .. Len(s) : from[m] = s[m].from
        BY <4>5
      <4> HIDE DEF from
      <4>7. \A x : x \in finished <=> x \in windows /\ x # w
        <5>1. \A x \in windows : x # w => x < w
          BY <4>3, <4>4
        <5>2. \A x \in windows : x < w => x \in finished
          BY <4>3
        <5>3. \A v \in windows : ~(w < v)
          BY <4>3, <4>4
        <5> QED
          BY <5>1, <5>2, <5>3
      <4>8. \A x : x \in {from[n] : n \in DOMAIN from} <=> x \in windows /\ x # w
        <5>1. ASSUME NEW m \in 1 .. Len(s)
              PROVE  from[m] \in windows /\ from[m] # w
          BY <4>2, <4>3, <4>4, <4>6, <5>1
        <5>2. ASSUME NEW x \in windows, x # w PROVE \E m \in 1 .. Len(s) : from[m] = x
          BY <4>2, <4>6, <5>2
        <5> QED
          BY <4>6, <5>1, <5>2
      <4> HIDE DEF finished
      <4>9. {from[n] : n \in DOMAIN from} = finished
        BY <4>7, <4>8
      <4>10. \A m, n \in 1 .. Len(s) : m < n => from[m] < from[n]
        BY <4>2, <4>6
      <4>11. \A m \in 1 .. Len(s) : s[m] = Handed(fed, from[m], secs)
        BY <4>2, <4>6, Zenon
      <4> QED
        BY <4>6, <4>9, <4>10, <4>11, Zenon
    <3> QED
      BY <3>1, <3>2
  <2>5. \A n \in DOMAIN from : s[n] = BarOf(from[n], secs)
    BY <2>3, <2>4, Zenon
  <2> QED
    BY <2>4, <2>5, Zenon DEF secs, s, windows
<1> QED
  BY <1>3, Zenon DEF BarsAreTheTicks

(* BarsAreTheTicks for every feed, in order or late, any frames and restarts *)
(* (features/bar_builder.py): each bar handed out is that of all the ticks   *)
(* of its window, each finished window is handed out once, in order.         *)
THEOREM BarsAlwaysTheTicks == FeedSpec => []BarsAreTheTicks
<1>1. FeedInit => StreamInv
  BY FreshStream DEF FeedInit
<1> QED
  BY <1>1, StreamInvNext, StreamIsTheTicks, PTL DEF FeedSpec

=============================================================================
