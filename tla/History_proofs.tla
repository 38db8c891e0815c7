--------------------------- MODULE History_proofs ---------------------------
(***************************************************************************)
(* Proofs about module History, for chains of any length with any trades   *)
(* and prices, and pages of any size: the paged scan answers with a        *)
(* snapshot of the core.                                                   *)
(*                                                                         *)
(* The argument.  The core is a function of its logs (Reflects); new logs  *)
(* only enter the block that is being built.  So the logs up to the head   *)
(* of a scan do not change while it runs, and a scan whose pages have      *)
(* passed its head has fetched each of them once.                          *)
(***************************************************************************)
EXTENDS History, FiniteSetTheorems, WellFoundedInduction, TLAPS

\* The logs of the blocks up to b.
Upto(b) == {l \in log : l.block <= b}

\* The landed folds.
FoldsOf(logs) ==
    {[at |-> l.at, opens |-> l.ev.opens, paused |-> PausedPairsAt(logs, l.block - 1)] :
       l \in Of(logs, FoldEvent)}

\* The trades whose verified call is behind another one.
HiddenIds(logs) == {l.ev.id : l \in {m \in Of(logs, OpenEvent) : Hides(m.ev)}}

\* A state of the core is what its logs say.
Reflects(core, logs) ==
    /\ core.bound = {l.ev.id : l \in Of(logs, OpenEvent)}
    /\ core.hidden = HiddenIds(logs)
    /\ FoldedIds(logs) \subseteq core.bound
    /\ core.opens = core.bound \ FoldedIds(logs)
    /\ core.folds = FoldsOf(logs)
    /\ PairsOf(core.paused) = PausedPairsAt(logs, MaxBlocks)
    /\ core.prices = Prices(logs)

LogInv ==
    /\ log \subseteq Log /\ IsFiniteSet(log)
    /\ height \in Nat /\ DeployBlock - 1 <= height
    /\ \A l \in log :
          /\ l.at <= Cardinality(log)
          /\ DeployBlock <= l.block /\ l.block <= height + 1 /\ l.block <= MaxBlocks

\* A trade is opened once.
OpensOnce(logs) ==
    \A l, m \in Of(logs, OpenEvent) : l.ev.id = m.ev.id => l = m

CoreInv ==
    /\ now \in CoreState /\ sealed \in CoreState /\ taken \in CoreState
    /\ Reflects(now, log)
    /\ Reflects(sealed, Upto(height))
    /\ Reflects(taken, Upto(head))
    /\ OpensOnce(log)

\* The pages so far are the logs below lo, each once.
ScanInv ==
    /\ head \in Nat /\ head <= height
    /\ pc \in {"idle", "pages"}
    /\ lo \in Nat
    /\ DOMAIN copies \subseteq log /\ copies \in [DOMAIN copies -> Nat]
    /\ pc = "pages" =>
          /\ DeployBlock <= lo /\ lo <= head + 1
          /\ copies = [l \in {k \in log : k.block < lo} |-> 1]
          /\ answer = NoAnswer /\ inputs = NoAnswer

HistoryInv == LogInv /\ CoreInv /\ ScanInv

-----------------------------------------------------------------------------
(* The pause set depends on the logs up to its block. *)

LEMMA PausedLocal ==
    ASSUME NEW L, NEW M, NEW b, NEW c,
           {l \in L : l.block <= b} = {l \in M : l.block <= c}
    PROVE  PausedPairsAt(L, b) = PausedPairsAt(M, c)
  <1>1. ASSUME NEW p \in Pair
        PROVE  {l \in Of(L, MarketEvent) : l.block <= b /\ l.ev.pair = p}
                 = {l \in Of(M, MarketEvent) : l.block <= c /\ l.ev.pair = p}
    <2>1. ASSUME NEW l
          PROVE  l \in L /\ l.block <= b <=> l \in M /\ l.block <= c
      OBVIOUS
    <2> QED BY <2>1 DEF Of
  <1> QED BY <1>1 DEF PausedPairsAt

\* A log that is added without being a market set changes no pause set, and one
\* above the block neither.
LEMMA PausedAdd ==
    ASSUME NEW L, NEW k, NEW b \in Int, k.block \in Int,
           k.ev \notin MarketEvent \/ b < k.block
    PROVE  PausedPairsAt(L \cup {k}, b) = PausedPairsAt(L, b)
  <1>1. ASSUME NEW p
        PROVE  {l \in Of(L \cup {k}, MarketEvent) : l.block <= b /\ l.ev.pair = p}
                 = {l \in Of(L, MarketEvent) : l.block <= b /\ l.ev.pair = p}
    BY DEF Of
  <1> QED BY <1>1 DEF PausedPairsAt

\* The newest market set decides on its pair.
LEMMA PausedWrite ==
    ASSUME NEW L \in SUBSET Log, NEW k \in Log, NEW b \in Int, k.ev \in MarketEvent,
           k.block <= b, \A l \in L : l.at < k.at
    PROVE  PausedPairsAt(L \cup {k}, b)
             = IF k.ev.enabled /\ k.ev.paused
               THEN PausedPairsAt(L, b) \cup {k.ev.pair}
               ELSE PausedPairsAt(L, b) \ {k.ev.pair}
  <1> DEFINE W(p) == {l \in Of(L, MarketEvent) : l.block <= b /\ l.ev.pair = p}
             V(p) == {l \in Of(L \cup {k}, MarketEvent) : l.block <= b /\ l.ev.pair = p}
             Set(X, l) == l.ev.enabled /\ l.ev.paused /\ \A j \in X : j.at <= l.at
  <1>1. ASSUME NEW p, p # k.ev.pair PROVE V(p) = W(p)
    BY <1>1 DEF Of
  <1>2. V(k.ev.pair) = W(k.ev.pair) \cup {k}
    BY DEF Of
  <1>3. k.ev.pair \in Pair
    BY DEF MarketEvent
  <1>4. \A l \in W(k.ev.pair) : l.at \in Nat /\ l.at < k.at
    BY DEF Of, Log
  <1>5. k.at \in Nat
    BY DEF Log
  <1>6. (\E l \in V(k.ev.pair) : Set(V(k.ev.pair), l)) <=> (k.ev.enabled /\ k.ev.paused)
    <2> HIDE DEF W, V
    <2>1. ASSUME k.ev.enabled, k.ev.paused PROVE Set(V(k.ev.pair), k)
      BY <2>1, <1>2, <1>4, <1>5
    <2>2. ASSUME NEW l \in V(k.ev.pair), Set(V(k.ev.pair), l) PROVE l = k
      BY <2>2, <1>2, <1>4, <1>5
    <2> QED BY <2>1, <2>2, <1>2
  <1>7. PausedPairsAt(L \cup {k}, b) = {p \in Pair : \E l \in V(p) : Set(V(p), l)}
    BY DEF PausedPairsAt
  <1>8. PausedPairsAt(L, b) = {p \in Pair : \E l \in W(p) : Set(W(p), l)}
    BY DEF PausedPairsAt
  <1>9. ASSUME NEW p \in Pair, p # k.ev.pair
        PROVE  p \in PausedPairsAt(L \cup {k}, b) <=> p \in PausedPairsAt(L, b)
    <2>1. V(p) = W(p)
      BY <1>1, <1>9
    <2> HIDE DEF W, V, Set
    <2> QED BY <2>1, <1>7, <1>8
  <1>10. k.ev.pair \in PausedPairsAt(L \cup {k}, b) <=> k.ev.enabled /\ k.ev.paused
    <2> HIDE DEF W, V, Set
    <2> QED BY <1>3, <1>6, <1>7
  <1>11. PausedPairsAt(L, b) \subseteq Pair /\ PausedPairsAt(L \cup {k}, b) \subseteq Pair
    BY DEF PausedPairsAt
  <1> HIDE DEF W, V, Set
  <1> QED BY <1>3, <1>9, <1>10, <1>11

-----------------------------------------------------------------------------
(* One instrument: markets are told apart by their pairs. *)

LEMMA PairsType ==
    ASSUME NEW S \in SUBSET Market PROVE PairsOf(S) \in SUBSET Pair
  BY DEF PairsOf, Market

LEMMA PairsMove ==
    ASSUME NEW S \in SUBSET Market, NEW m \in Market
    PROVE  /\ PairsOf(S \cup {m}) = PairsOf(S) \cup {m.pair}
           /\ PairsOf(S \ {m}) = PairsOf(S) \ {m.pair}
  <1>1. ASSUME NEW a \in Market, NEW b \in Market, a.pair = b.pair PROVE a = b
    BY <1>1, HistoryAssumption DEF Market
  <1> QED BY <1>1 DEF PairsOf

-----------------------------------------------------------------------------
(* The core follows its logs. *)

\* The events of different kinds are different.
LEMMA KindsDiffer ==
    ASSUME NEW e
    PROVE  /\ e \in OpenEvent => e \notin FoldEvent /\ e \notin PriceEvent /\ e \notin MarketEvent
           /\ e \in FoldEvent => e \notin OpenEvent /\ e \notin PriceEvent /\ e \notin MarketEvent
           /\ e \in PriceEvent => e \notin OpenEvent /\ e \notin FoldEvent /\ e \notin MarketEvent
           /\ e \in MarketEvent => e \notin OpenEvent /\ e \notin FoldEvent /\ e \notin PriceEvent
           /\ e \in AlienEvent => /\ e \notin OpenEvent /\ e \notin FoldEvent
                                  /\ e \notin PriceEvent /\ e \notin MarketEvent
  BY DEF OpenEvent, FoldEvent, PriceEvent, MarketEvent, AlienEvent

\* The parts of Reflects that a log of another kind leaves alone.
LEMMA KeepsOthers ==
    ASSUME NEW L \in SUBSET Log, NEW k \in Log, NEW h \in Nat, k.block = h + 1,
           \A l \in L : l.block <= h + 1
    PROVE  /\ k.ev \notin OpenEvent =>
                /\ {l.ev.id : l \in Of(L \cup {k}, OpenEvent)} = {l.ev.id : l \in Of(L, OpenEvent)}
                /\ HiddenIds(L \cup {k}) = HiddenIds(L)
                /\ OpensOnce(L \cup {k}) <=> OpensOnce(L)
           /\ k.ev \notin FoldEvent => FoldedIds(L \cup {k}) = FoldedIds(L)
           /\ k.ev \notin PriceEvent => Prices(L \cup {k}) = Prices(L)
           /\ k.ev \notin MarketEvent =>
                PausedPairsAt(L \cup {k}, MaxBlocks) = PausedPairsAt(L, MaxBlocks)
           /\ \A l \in L :
                PausedPairsAt(L \cup {k}, l.block - 1) = PausedPairsAt(L, l.block - 1)
  <1>1. k.block \in Int /\ MaxBlocks \in Int /\ \A l \in L : l.block \in Int /\ l.block - 1 \in Int
    BY HistoryAssumption DEF Log
  <1>2. \A l \in L : l.block - 1 < k.block
    BY <1>1
  <1>3. ASSUME NEW l \in L
        PROVE  PausedPairsAt(L \cup {k}, l.block - 1) = PausedPairsAt(L, l.block - 1)
    BY <1>1, <1>2, PausedAdd
  <1>4. k.ev \notin MarketEvent =>
          PausedPairsAt(L \cup {k}, MaxBlocks) = PausedPairsAt(L, MaxBlocks)
    BY <1>1, PausedAdd
  <1>5. /\ k.ev \notin OpenEvent => Of(L \cup {k}, OpenEvent) = Of(L, OpenEvent)
        /\ k.ev \notin FoldEvent => Of(L \cup {k}, FoldEvent) = Of(L, FoldEvent)
        /\ k.ev \notin PriceEvent => Of(L \cup {k}, PriceEvent) = Of(L, PriceEvent)
    BY DEF Of
  <1> QED BY <1>3, <1>4, <1>5 DEF FoldedIds, Prices, HiddenIds, OpensOnce

\* What the replay knows of the fold of log k, which comes after the logs L.
FoldRow(k, L, h) ==
    [at |-> k.at, opens |-> k.ev.opens,
     paused |-> PausedPairsAt({l \in L : l.block <= h}, MaxBlocks)]

LEMMA FoldsAdd ==
    ASSUME NEW L \in SUBSET Log, NEW k \in Log, NEW h \in Nat, k.block = h + 1, k.block <= MaxBlocks,
           \A l \in L : l.block <= h + 1
    PROVE  FoldsOf(L \cup {k}) =
             IF k.ev \in FoldEvent
             THEN FoldsOf(L) \cup {FoldRow(k, L, h)}
             ELSE FoldsOf(L)
  <1> DEFINE row(l, logs) == [at |-> l.at, opens |-> l.ev.opens,
                             paused |-> PausedPairsAt(logs, l.block - 1)]
             M == {l \in L : l.block <= h}
  <1>1. \A l \in L : row(l, L \cup {k}) = row(l, L)
    BY KeepsOthers
  <1>2. /\ k.block \in Int /\ k.block - 1 = h /\ MaxBlocks \in Int
        /\ \A l \in L : l.block \in Int
    BY HistoryAssumption DEF Log
  <1>3. {l \in L \cup {k} : l.block <= h} = {l \in M : l.block <= MaxBlocks}
    BY <1>2
  <1>4. row(k, L \cup {k}).paused = PausedPairsAt(M, MaxBlocks)
    <2> HIDE DEF M
    <2> QED BY <1>2, <1>3, PausedLocal
  <1>5. CASE k.ev \notin FoldEvent
    <2>1. Of(L \cup {k}, FoldEvent) = Of(L, FoldEvent)
      BY <1>5 DEF Of
    <2> QED BY <1>1, <1>5, <2>1 DEF FoldsOf, Of
  <1>6. CASE k.ev \in FoldEvent
    <2>1. Of(L \cup {k}, FoldEvent) = Of(L, FoldEvent) \cup {k}
      BY <1>6 DEF Of
    <2>2. FoldsOf(L \cup {k}) = {row(l, L \cup {k}) : l \in Of(L, FoldEvent)} \cup {row(k, L \cup {k})}
      BY <2>1 DEF FoldsOf
    <2>3. {row(l, L \cup {k}) : l \in Of(L, FoldEvent)} = FoldsOf(L)
      BY <1>1 DEF FoldsOf, Of
    <2>4. row(k, L \cup {k}) = [at |-> k.at, opens |-> k.ev.opens,
                                 paused |-> PausedPairsAt(M, MaxBlocks)]
      BY <1>4
    <2> QED BY <1>6, <2>2, <2>3, <2>4 DEF FoldRow
  <1> QED BY <1>5, <1>6

-----------------------------------------------------------------------------
(* An event of the core. *)

\* The log of event e.
NewLog(e) == [at |-> Cardinality(log) + 1, block |-> height + 1, ev |-> e]

LEMMA EmitLog ==
    ASSUME LogInv, NEW e \in Event, Emit(e)
    PROVE  /\ NewLog(e) \in Log /\ NewLog(e).block <= MaxBlocks
           /\ log' = log \cup {NewLog(e)}
           /\ now' = After(e, NewLog(e).at)
           /\ \A l \in log : l.at < NewLog(e).at
           /\ height' = height
           /\ \A b \in Int : b <= height => Upto(b)' = Upto(b)
           /\ LogInv'
  <1> DEFINE k == NewLog(e)
  <1>1. IsFiniteSet(log) /\ Cardinality(log) \in Nat /\ height \in Nat /\ height < MaxBlocks
        /\ MaxBlocks \in Nat /\ Legal(e)
    BY FS_CardinalityType, HistoryAssumption DEF LogInv, Emit
  <1>2. /\ k \in Log /\ k.block <= MaxBlocks /\ k.block = height + 1
        /\ k.at = Cardinality(log) + 1 /\ k.ev = e
    BY <1>1 DEF NewLog, Log
  <1>3. log' = log \cup {k} /\ now' = After(e, k.at) /\ height' = height
    BY DEF Emit, NewLog
  <1>4. \A l \in log : l.at \in Nat /\ l.at < k.at /\ l.block \in Nat
    BY <1>1, <1>2 DEF LogInv, Log
  <1>5. \A b \in Int : b <= height => Upto(b)' = Upto(b)
    BY <1>1, <1>2, <1>3 DEF Upto
  <1>6. k \notin log
    BY <1>2, <1>4
  <1>7. IsFiniteSet(log') /\ Cardinality(log') = Cardinality(log) + 1
    BY <1>1, <1>3, <1>6, FS_AddElement
  <1>9. DeployBlock \in Nat /\ DeployBlock <= height + 1
    BY HistoryAssumption DEF LogInv
  <1>10. \A l \in log' : /\ l.at <= Cardinality(log')
                        /\ DeployBlock <= l.block /\ l.block <= height' + 1
                        /\ l.block <= MaxBlocks
    <2> HIDE DEF k
    <2> QED BY <1>1, <1>2, <1>3, <1>4, <1>7, <1>9 DEF LogInv
  <1>11. LogInv'
    <2> HIDE DEF k
    <2> QED BY <1>2, <1>3, <1>7, <1>10 DEF LogInv
  <1> QED BY <1>2, <1>3, <1>4, <1>5, <1>11

\* After an event the core is what its logs say.
LEMMA EmitReflects ==
    ASSUME LogInv, CoreInv, NEW e \in Event, Emit(e)
    PROVE  now' \in CoreState /\ Reflects(now', log') /\ OpensOnce(log')
  <1> DEFINE k == NewLog(e)
             c == After(e, k.at)
  <1>1. /\ log \in SUBSET Log /\ k \in Log /\ height \in Nat
        /\ k.block = height + 1 /\ k.block <= MaxBlocks /\ k.ev = e /\ k.at \in Nat
        /\ \A l \in log : l.block <= height + 1
        /\ \A l \in log : l.at < k.at
        /\ MaxBlocks \in Int
    BY EmitLog, HistoryAssumption DEF LogInv, NewLog, Log
  <1>2. log' = log \cup {k} /\ now' = c /\ Legal(e)
    BY EmitLog DEF Emit
  <1>3. now \in CoreState /\ sealed \in CoreState /\ Reflects(now, log)
        /\ PairsOf(sealed.paused) = PausedPairsAt({l \in log : l.block <= height}, MaxBlocks)
        /\ OpensOnce(log)
    BY DEF CoreInv, Reflects, Upto
  <1>4. /\ now.bound = {l.ev.id : l \in Of(log, OpenEvent)}
        /\ FoldedIds(log) \subseteq now.bound
        /\ now.opens = now.bound \ FoldedIds(log)
        /\ now.folds = FoldsOf(log)
        /\ PairsOf(now.paused) = PausedPairsAt(log, MaxBlocks)
        /\ now.prices = Prices(log)
        /\ now.hidden = HiddenIds(log)
    BY <1>3 DEF Reflects
  <1> HIDE DEF k
  <1>5. /\ e \notin OpenEvent =>
             /\ {l.ev.id : l \in Of(log', OpenEvent)} = {l.ev.id : l \in Of(log, OpenEvent)}
             /\ HiddenIds(log') = HiddenIds(log)
             /\ OpensOnce(log')
        /\ e \notin FoldEvent => FoldedIds(log') = FoldedIds(log) /\ FoldsOf(log') = FoldsOf(log)
        /\ e \notin PriceEvent => Prices(log') = Prices(log)
        /\ e \notin MarketEvent => PausedPairsAt(log', MaxBlocks) = PausedPairsAt(log, MaxBlocks)
    BY <1>1, <1>2, <1>3, KeepsOthers, FoldsAdd
  <1>6. CASE e \in OpenEvent
    <2>1. c = [bound |-> now.bound \cup {e.id}, opens |-> now.opens \cup {e.id},
               hidden |-> now.hidden \cup (IF Hides(e) THEN {e.id} ELSE {}),
               folds |-> now.folds, paused |-> now.paused, prices |-> now.prices]
      BY <1>6, KindsDiffer DEF After
    <2>2. e \notin FoldEvent /\ e \notin PriceEvent /\ e \notin MarketEvent
          /\ e.id \in OpenId /\ e.id \notin now.bound
      BY <1>2, <1>6, KindsDiffer DEF Legal, OpenEvent
    <2>3. {l.ev.id : l \in Of(log', OpenEvent)} = {l.ev.id : l \in Of(log, OpenEvent)} \cup {e.id}
      BY <1>1, <1>2, <1>6 DEF Of
    <2>4. c \in CoreState /\ c.folds = now.folds /\ c.paused = now.paused
          /\ c.prices = now.prices /\ c.bound = now.bound \cup {e.id}
          /\ c.opens = now.opens \cup {e.id}
          /\ c.hidden = now.hidden \cup (IF Hides(e) THEN {e.id} ELSE {})
      <3> HIDE DEF c
      <3> QED BY <1>3, <2>1, <2>2 DEF CoreState
    <2> HIDE DEF c
    <2>10. Of(log', OpenEvent) = Of(log, OpenEvent) \cup {k}
      BY <1>1, <1>2, <1>6 DEF Of
    <2>11. c.hidden = HiddenIds(log')
      BY <1>1, <1>4, <2>4, <2>10 DEF HiddenIds
    <2>12. OpensOnce(log')
      BY <1>1, <1>3, <1>4, <2>2, <2>10 DEF OpensOnce
    <2>5. c.bound = {l.ev.id : l \in Of(log', OpenEvent)}
      BY <1>4, <2>3, <2>4
    <2>6. FoldedIds(log') = FoldedIds(log) /\ FoldedIds(log) \subseteq c.bound
          /\ e.id \notin FoldedIds(log)
      BY <1>4, <1>5, <2>2, <2>4
    <2>7. c.opens = c.bound \ FoldedIds(log')
      BY <1>4, <2>4, <2>6
    <2>8. c.folds = FoldsOf(log') /\ PairsOf(c.paused) = PausedPairsAt(log', MaxBlocks)
          /\ c.prices = Prices(log')
      BY <1>4, <1>5, <2>2, <2>4
    <2>9. Reflects(c, log')
      BY <2>5, <2>6, <2>7, <2>8, <2>11 DEF Reflects
    <2> QED BY <1>2, <2>4, <2>9, <2>12
  <1>7. CASE e \in FoldEvent
    <2> DEFINE f == [at |-> k.at, opens |-> e.opens, paused |-> PairsOf(sealed.paused)]
    <2>1. c = [bound |-> now.bound, opens |-> now.opens \ e.opens,
               hidden |-> now.hidden,
               folds |-> now.folds \cup {f}, paused |-> now.paused, prices |-> now.prices]
      BY <1>7, KindsDiffer DEF After
    <2>2. e \notin OpenEvent /\ e \notin PriceEvent /\ e \notin MarketEvent
          /\ e.opens \subseteq now.opens /\ e.opens \in SUBSET OpenId
      BY <1>2, <1>7, KindsDiffer DEF Legal, FoldEvent
    <2>3. FoldedIds(log') = FoldedIds(log) \cup e.opens
      <3>1. Of(log', FoldEvent) = Of(log, FoldEvent) \cup {k}
        BY <1>1, <1>2, <1>7 DEF Of
      <3> QED BY <1>1, <3>1 DEF FoldedIds
    <2>4. FoldsOf(log') = FoldsOf(log) \cup {f}
      <3>1. FoldsOf(log \cup {k}) = FoldsOf(log) \cup {FoldRow(k, log, height)}
        BY <1>1, <1>7, FoldsAdd
      <3>2. FoldRow(k, log, height) = f
        BY <1>1, <1>3 DEF FoldRow
      <3> QED BY <1>2, <3>1, <3>2
    <2>5. f \in [at : Nat, opens : SUBSET OpenId, paused : SUBSET Pair]
      <3>1. sealed.paused \in SUBSET Market
        BY <1>3 DEF CoreState
      <3>2. PairsOf(sealed.paused) \in SUBSET Pair
        BY <3>1, PairsType
      <3> QED BY <1>1, <2>2, <3>2
    <2>6. c \in CoreState /\ c.folds = now.folds \cup {f} /\ c.paused = now.paused
          /\ c.prices = now.prices /\ c.bound = now.bound
          /\ c.opens = now.opens \ e.opens /\ c.hidden = now.hidden
      <3> HIDE DEF c, f
      <3> QED BY <1>3, <2>1, <2>2, <2>5 DEF CoreState
    <2> HIDE DEF c, f
    <2>7. c.bound = {l.ev.id : l \in Of(log', OpenEvent)} /\ FoldedIds(log') \subseteq c.bound
      BY <1>4, <1>5, <2>2, <2>3, <2>6
    <2>8. c.opens = c.bound \ FoldedIds(log')
      BY <1>4, <2>3, <2>6
    <2>9. c.folds = FoldsOf(log') /\ PairsOf(c.paused) = PausedPairsAt(log', MaxBlocks)
          /\ c.prices = Prices(log') /\ c.hidden = HiddenIds(log')
      BY <1>4, <1>5, <2>2, <2>4, <2>6
    <2>10. Reflects(c, log')
      BY <2>7, <2>8, <2>9 DEF Reflects
    <2> QED BY <1>2, <1>5, <2>2, <2>6, <2>10
  <1>8. CASE e \in PriceEvent
    <2>1. c = [now EXCEPT !.prices = @ \cup {e.price}]
      BY <1>8, KindsDiffer DEF After
    <2>2. e \notin OpenEvent /\ e \notin FoldEvent /\ e \notin MarketEvent /\ e.price \in Price
      BY <1>8, KindsDiffer DEF PriceEvent
    <2>3. Prices(log') = Prices(log) \cup {e.price}
      BY <1>1, <1>2, <1>8 DEF Of, Prices
    <2>4. c \in CoreState /\ c.folds = now.folds /\ c.paused = now.paused
          /\ c.prices = now.prices \cup {e.price} /\ c.bound = now.bound
          /\ c.opens = now.opens /\ c.hidden = now.hidden
      BY <1>3, <2>1, <2>2 DEF CoreState
    <2> HIDE DEF c
    <2> QED BY <1>2, <1>4, <1>5, <2>2, <2>3, <2>4 DEF Reflects
  <1>9. CASE e \in MarketEvent
    <2> DEFINE market == MarketOf(e)
               q == IF e.enabled /\ e.paused THEN now.paused \cup {market}
                    ELSE now.paused \ {market}
    <2>1. e \notin OpenEvent /\ e \notin FoldEvent /\ e \notin PriceEvent /\ market \in Market
      BY <1>9, KindsDiffer DEF MarketEvent, Market, MarketOf
    <2>2. c = [now EXCEPT !.paused = q]
      <3> HIDE DEF k
      <3>1. e \notin AlienEvent
        BY <1>9, KindsDiffer
      <3>2. After(e, k.at)
              = [now EXCEPT !.paused = IF e.enabled /\ e.paused
                                       THEN now.paused \cup {MarketOf(e)}
                                       ELSE now.paused \ {MarketOf(e)}]
        BY <1>9, <2>1, <3>1 DEF After
      <3> QED BY <3>2
    <2>3. PausedPairsAt(log', MaxBlocks) = PairsOf(q)
      <3>1. \A l \in log : l.at < k.at
        BY <1>1
      <3>2. PausedPairsAt(log \cup {k}, MaxBlocks)
              = IF k.ev.enabled /\ k.ev.paused
                THEN PausedPairsAt(log, MaxBlocks) \cup {k.ev.pair}
                ELSE PausedPairsAt(log, MaxBlocks) \ {k.ev.pair}
        BY <1>1, <1>9, <3>1, PausedWrite
      <3>3. now.paused \in SUBSET Market /\ market.pair = e.pair
        BY <1>3 DEF CoreState, MarketOf
      <3> HIDE DEF market
      <3>4. PairsOf(q) = IF e.enabled /\ e.paused THEN PairsOf(now.paused) \cup {e.pair}
                         ELSE PairsOf(now.paused) \ {e.pair}
        <4>1. /\ PairsOf(now.paused \cup {market}) = PairsOf(now.paused) \cup {market.pair}
              /\ PairsOf(now.paused \ {market}) = PairsOf(now.paused) \ {market.pair}
          BY <2>1, <3>3, PairsMove
        <4>2. CASE e.enabled /\ e.paused
          BY <3>3, <4>1, <4>2
        <4>3. CASE ~(e.enabled /\ e.paused)
          BY <3>3, <4>1, <4>3
        <4> QED BY <4>2, <4>3
      <3> HIDE DEF q
      <3>5. k.ev = e /\ log' = log \cup {k}
        BY <1>1, <1>2
      <3>6. PausedPairsAt(log, MaxBlocks) = PairsOf(now.paused)
        BY <1>4
      <3> HIDE DEF k
      <3> QED BY <3>2, <3>4, <3>5, <3>6
    <2>4. c \in CoreState /\ c.folds = now.folds /\ c.paused = q
          /\ c.prices = now.prices /\ c.bound = now.bound
          /\ c.opens = now.opens /\ c.hidden = now.hidden
      <3> HIDE DEF market
      <3> QED BY <1>3, <2>1, <2>2 DEF CoreState
    <2> HIDE DEF c, q, market
    <2> QED BY <1>2, <1>4, <1>5, <2>1, <2>3, <2>4 DEF Reflects
  <1>10. CASE e \in AlienEvent
    <2>1. /\ e \notin OpenEvent /\ e \notin FoldEvent /\ e \notin PriceEvent
          /\ e \notin MarketEvent
      BY <1>10, KindsDiffer
    <2>2. c = now
      BY <1>10, <2>1 DEF After
    <2> HIDE DEF c
    <2> QED BY <1>2, <1>3, <1>4, <1>5, <2>1, <2>2 DEF Reflects
  <1> QED BY <1>6, <1>7, <1>8, <1>9, <1>10 DEF Event

-----------------------------------------------------------------------------
(* The scan. *)

\* A page adds the logs of its blocks, each of them once.
LEMMA PageOnce ==
    ASSUME LogInv, ScanInv, GetLogs
    PROVE  ScanInv'
  <1>1. /\ lo \in Nat /\ head \in Nat /\ DeployBlock <= lo /\ lo <= head
        /\ pc = "pages" /\ UNCHANGED <<log, height, pc, head, answer, inputs>>
        /\ copies = [l \in {k \in log : k.block < lo} |-> 1]
        /\ answer = NoAnswer /\ inputs = NoAnswer
    BY DEF ScanInv, GetLogs, chainVars
  <1>2. Hi \in Nat /\ lo <= Hi /\ Hi <= head /\ lo' = Hi + 1
    BY <1>1, HistoryAssumption DEF Hi, GetLogs
  <1>3. \A l \in log : l.block \in Nat
    BY DEF LogInv, Log
  <1>4. DOMAIN copies \cup Page = {k \in log : k.block < lo'}
    BY <1>1, <1>2, <1>3 DEF Page
  <1>5. ASSUME NEW l \in DOMAIN copies \cup Page
        PROVE  (IF l \in Page THEN Fetched(l) + 1 ELSE Fetched(l)) = 1
    <2>1. CASE l \in Page
      <3>1. l \notin DOMAIN copies
        BY <1>1, <1>2, <1>3, <2>1 DEF Page
      <3> QED BY <2>1, <3>1 DEF Fetched
    <2>2. CASE l \notin Page
      <3>1. l \in DOMAIN copies /\ copies[l] = 1
        BY <1>1, <1>5, <2>2
      <3> QED BY <2>2, <3>1 DEF Fetched
    <2> QED BY <2>1, <2>2
  <1>6. Copies = [l \in DOMAIN copies \cup Page |-> 1]
    BY <1>5 DEF Copies
  <1>7. copies' = [l \in {k \in log : k.block < lo'} |-> 1]
    BY <1>4, <1>6 DEF GetLogs
  <1>8. DOMAIN copies' = {k \in log : k.block < lo'} /\ copies' \in [DOMAIN copies' -> Nat]
    BY <1>7
  <1>9. DeployBlock <= lo' /\ lo' <= head' + 1 /\ lo' \in Nat
    BY <1>1, <1>2, HistoryAssumption
  <1> QED BY <1>1, <1>7, <1>8, <1>9 DEF ScanInv

\* A scan past its head has every log up to it.
LEMMA AllFetched ==
    ASSUME LogInv, ScanInv, pc = "pages", lo > head
    PROVE  copies = [l \in Upto(head) |-> 1]
  <1>1. lo = head + 1 /\ head \in Nat /\ copies = [l \in {k \in log : k.block < lo} |-> 1]
    BY DEF ScanInv
  <1>2. \A l \in log : l.block \in Nat
    BY DEF LogInv, Log
  <1>3. {k \in log : k.block < lo} = Upto(head)
    BY <1>1, <1>2 DEF Upto
  <1> QED BY <1>1, <1>3

\* The call that a reader who knows the hidden trades expects.
Found(o, hidden) == [id |-> o, verified |-> o \notin hidden]

LEMMA Least ==
    ASSUME NEW S \in SUBSET Nat, S # {} PROVE \E n \in S : \A m \in S : n <= m
  <1>1. PICK n \in S : \A m \in S : ~(<<m, n>> \in OpToRel(<, Nat))
    BY NatLessThanWellFounded, WFMin
  <1>2. \A m \in S : ~(m < n)
    BY <1>1 DEF OpToRel
  <1> QED BY <1>2

\* The search of the calldata finds a call of the trade, the verified one unless
\* that is hidden.
LEMMA FirstCall ==
    ASSUME NEW e \in OpenEvent, Signed(e)
    PROVE  OpenSigs(e) = [id |-> e.id, verified |-> ~Hides(e)]
  <1> DEFINE Hits == {i \in DOMAIN e.calls : e.calls[i].id = e.id}
  <1>1. e.calls \in Seq(Call)
    BY HistoryAssumption DEF OpenEvent
  <1>2. Hits \in SUBSET Nat /\ Hits # {} /\ DOMAIN e.calls \subseteq Nat
    BY <1>1 DEF Signed
  <1>3. PICK n \in Hits : \A m \in Hits : n <= m
    BY <1>2, Least
  <1>4. \E i \in DOMAIN e.calls :
          /\ e.calls[i].id = e.id
          /\ \A j \in DOMAIN e.calls : e.calls[j].id = e.id => i <= j
    BY <1>3
  <1>5. PICK i \in DOMAIN e.calls :
          /\ OpenSigs(e) = e.calls[i]
          /\ e.calls[i].id = e.id
          /\ \A j \in DOMAIN e.calls : e.calls[j].id = e.id => i <= j
    BY <1>4 DEF OpenSigs
  <1>6. \A j \in DOMAIN e.calls : e.calls[j] \in Call
    BY <1>1
  <1>7. Hides(e) <=> ~e.calls[i].verified
    BY <1>2, <1>5, <1>6 DEF Hides, Call
  <1> QED BY <1>5, <1>6, <1>7 DEF Call

\* What is derived from logs that were fetched once is what the core held.
LEMMA DerivedIsView ==
    ASSUME NEW core, NEW logs \in SUBSET Log, Reflects(core, logs), Readable(logs),
           OpensOnce(logs)
    PROVE  Derived([l \in logs |-> 1]) = CoreView(core)
  <1> DEFINE fetched == [l \in logs |-> 1]
  <1>1. DOMAIN fetched = logs /\ \A l \in logs : fetched[l] = 1
    OBVIOUS
  <1>2. /\ core.bound = {l.ev.id : l \in Of(logs, OpenEvent)}
        /\ core.opens = core.bound \ FoldedIds(logs)
        /\ core.folds = FoldsOf(logs)
        /\ PairsOf(core.paused) = PausedPairsAt(logs, MaxBlocks)
        /\ core.prices = Prices(logs)
        /\ core.hidden = HiddenIds(logs)
    BY DEF Reflects
  <1> HIDE DEF fetched
  <1>3. ASSUME NEW l \in Of(logs, OpenEvent)
        PROVE  OpenSigs(l.ev) = Found(l.ev.id, core.hidden)
    <2>1. l.ev \in OpenEvent /\ Signed(l.ev)
      BY DEF Readable, Of
    <2>2. l.ev.id \in core.hidden <=> Hides(l.ev)
      BY <1>2, <1>3 DEF HiddenIds, OpensOnce
    <2> QED BY <2>1, <2>2, FirstCall DEF Found
  <1>4. UnfoldedOpens(fetched)
          = {[id |-> o, sigs |-> [id |-> o, verified |-> o \notin core.hidden], times |-> 1] :
               o \in core.opens}
    <2>1. UnfoldedOpens(fetched)
            = {[id |-> l.ev.id, sigs |-> OpenSigs(l.ev), times |-> fetched[l]] :
                 l \in {k \in Of(logs, OpenEvent) : k.ev.id \notin FoldedIds(logs)}}
      BY <1>1 DEF UnfoldedOpens
    <2>2. \A l \in Of(logs, OpenEvent) :
            [id |-> l.ev.id, sigs |-> OpenSigs(l.ev), times |-> fetched[l]]
              = [id |-> l.ev.id, sigs |-> Found(l.ev.id, core.hidden), times |-> 1]
      BY <1>1, <1>3 DEF Of
    <2> DEFINE row(o) == [id |-> o, sigs |-> Found(o, core.hidden), times |-> 1]
               Open == {k \in Of(logs, OpenEvent) : k.ev.id \notin FoldedIds(logs)}
    <2>3. core.opens = {l.ev.id : l \in Open}
      BY <1>2
    <2>4. UnfoldedOpens(fetched) = {row(l.ev.id) : l \in Open}
      BY <2>1, <2>2
    <2> HIDE DEF row, Open
    <2>5. {row(l.ev.id) : l \in Open} = {row(o) : o \in core.opens}
      BY <2>3
    <2> QED BY <2>4, <2>5 DEF row, Found
  <1>5. Folds(fetched)
          = {[at |-> f.at, opens |-> f.opens, times |-> 1, paused |-> f.paused] : f \in core.folds}
    <2> DEFINE row(l) == [at |-> l.at, opens |-> l.ev.opens,
                          paused |-> PausedPairsAt(logs, l.block - 1)]
               out(f) == [at |-> f.at, opens |-> f.opens, times |-> 1, paused |-> f.paused]
               in(l) == [at |-> l.at, opens |-> l.ev.opens, times |-> fetched[l],
                         paused |-> PausedPairsAt(logs, l.block - 1)]
    <2>1. Folds(fetched) = {in(l) : l \in Of(logs, FoldEvent)}
      BY <1>1 DEF Folds
    <2>2. \A l \in Of(logs, FoldEvent) : in(l) = out(row(l))
      BY <1>1 DEF Of
    <2>3. core.folds = {row(l) : l \in Of(logs, FoldEvent)}
      BY <1>2 DEF FoldsOf
    <2> HIDE DEF row, out, in
    <2>4. {out(f) : f \in core.folds} = {in(l) : l \in Of(logs, FoldEvent)}
      BY <2>2, <2>3
    <2> QED BY <2>1, <2>4 DEF out
  <1> QED BY <1>1, <1>2, <1>4, <1>5 DEF Derived, CoreView, fetched

-----------------------------------------------------------------------------
(* The invariant. *)

LEMMA HistoryInit == Init => HistoryInv
  <1> SUFFICES ASSUME Init PROVE HistoryInv
    OBVIOUS
  <1>1. DeployBlock \in Nat /\ DeployBlock >= 1
    BY HistoryAssumption
  <1>2. LogInv
    BY <1>1, FS_EmptySet DEF LogInv, Init, Of
  <1>3. Upto(height) = {} /\ Upto(head) = {}
    BY DEF Init, Upto
  <1>4. Start \in CoreState /\ Reflects(Start, {}) /\ OpensOnce({})
    BY DEF Start, CoreState, Reflects, FoldedIds, FoldsOf, Prices, PausedPairsAt, Of,
           HiddenIds, PairsOf, OpensOnce
  <1>5. CoreInv
    BY <1>3, <1>4 DEF CoreInv, Init
  <1>6. ScanInv
    BY <1>1 DEF ScanInv, Init
  <1> QED BY <1>2, <1>5, <1>6 DEF HistoryInv

LEMMA HistoryStep ==
    ASSUME HistoryInv, [Next]_vars PROVE HistoryInv'
  <1> USE DEF HistoryInv
  <1>1. ASSUME NEW e \in Event, Emit(e) PROVE HistoryInv'
    <2>1. UNCHANGED <<height, sealed, taken, head>> /\ UNCHANGED scanVars
      BY <1>1 DEF Emit, scanVars
    <2>2. LogInv' /\ log' = log \cup {NewLog(e)} /\ now' \in CoreState /\ Reflects(now', log')
          /\ OpensOnce(log')
      BY <1>1, EmitLog, EmitReflects
    <2>3. height \in Int /\ head \in Int /\ head <= height
      BY DEF LogInv, ScanInv
    <2>4. Upto(height)' = Upto(height) /\ Upto(head)' = Upto(head)
      BY <1>1, <2>1, <2>3, EmitLog DEF Upto
    <2>5. CoreInv'
      BY <2>1, <2>2, <2>4 DEF CoreInv
    <2>6. {l \in log' : l.block < lo} = {l \in log : l.block < lo} \/ pc # "pages"
      <3>1. NewLog(e).block = height + 1 /\ height \in Nat
        BY DEF NewLog, LogInv
      <3>2. pc = "pages" => lo \in Nat /\ lo <= height + 1
        BY <2>3 DEF ScanInv
      <3> QED BY <2>2, <3>1, <3>2
    <2>7. ScanInv'
      BY <2>1, <2>2, <2>6 DEF ScanInv, scanVars
    <2> QED BY <2>2, <2>5, <2>7
  <1>2. CASE Seal
    <2>1. height' = height + 1 /\ sealed' = now /\ UNCHANGED <<log, now>> /\ UNCHANGED scanVars
      BY <1>2 DEF Seal
    <2>2. height \in Nat
      BY DEF LogInv
    <2>3. \A l \in log : l.block \in Nat /\ l.block <= height + 1
      BY DEF LogInv, Log
    <2>4. LogInv'
      BY <2>1, <2>2, <2>3, HistoryAssumption DEF LogInv
    <2>5. Upto(height)' = log
      BY <2>1, <2>2, <2>3 DEF Upto
    <2>6. Upto(head)' = Upto(head) /\ taken' = taken
      BY <2>1 DEF Upto, scanVars
    <2>7. CoreInv'
      BY <2>1, <2>5, <2>6 DEF CoreInv
    <2>8. ScanInv'
      BY <2>1, <2>2 DEF ScanInv, scanVars
    <2> QED BY <2>4, <2>7, <2>8
  <1>3. CASE Begin
    <2>1. /\ UNCHANGED <<log, height, now, sealed>> /\ pc' = "pages" /\ head' = height
          /\ lo' = DeployBlock /\ copies' = [l \in {} |-> 0]
          /\ answer' = NoAnswer /\ inputs' = NoAnswer /\ taken' = sealed
      BY <1>3 DEF Begin, chainVars
    <2>2. height \in Nat /\ DeployBlock \in Nat /\ DeployBlock <= height + 1
      BY HistoryAssumption DEF LogInv
    <2>3. LogInv'
      BY <2>1 DEF LogInv
    <2>4. Upto(height)' = Upto(height) /\ Upto(head)' = Upto(height)
      BY <2>1 DEF Upto
    <2>5. CoreInv'
      BY <2>1, <2>4 DEF CoreInv
    <2>6. {l \in log : l.block < DeployBlock} = {}
      BY <2>2 DEF LogInv, Log
    <2>7. copies' = [l \in {k \in log' : k.block < lo'} |-> 1]
      BY <2>1, <2>6
    <2>8. DOMAIN copies' \subseteq log' /\ copies' \in [DOMAIN copies' -> Nat]
      BY <2>7
    <2>9. ScanInv'
      BY <2>1, <2>2, <2>7, <2>8 DEF ScanInv
    <2> QED BY <2>3, <2>5, <2>9
  <1>4. CASE GetLogs
    <2>1. UNCHANGED <<log, height, now, sealed, taken, head>>
      BY <1>4 DEF GetLogs, chainVars
    <2>2. LogInv' /\ CoreInv'
      BY <2>1 DEF LogInv, CoreInv, Upto
    <2> QED BY <1>4, <2>2, PageOnce
  <1>5. CASE Decode \/ Abort
    <2>1. UNCHANGED <<log, height, now, sealed, taken, head, lo, copies>> /\ pc' = "idle"
      BY <1>5 DEF Decode, Abort, chainVars
    <2>2. LogInv' /\ CoreInv'
      BY <2>1 DEF LogInv, CoreInv, Upto
    <2>3. ScanInv'
      BY <2>1 DEF ScanInv
    <2> QED BY <2>2, <2>3
  <1>6. CASE UNCHANGED vars
    <2>1. LogInv' /\ CoreInv' /\ ScanInv'
      BY <1>6 DEF vars, chainVars, scanVars, LogInv, CoreInv, ScanInv, Upto
    <2> QED BY <2>1
  <1> QED BY <1>1, <1>2, <1>3, <1>4, <1>5, <1>6 DEF Next

LEMMA HistoryInvariant == Spec => []HistoryInv
  BY HistoryInit, HistoryStep, PTL DEF Spec

-----------------------------------------------------------------------------
(* The scan is a snapshot. *)

LEMMA ViewIsYield ==
    ASSUME NEW core \in CoreState PROVE CoreView(core) \in Yield
  <1>1. /\ core.opens \in SUBSET OpenId /\ core.paused \in SUBSET Market
        /\ core.prices \in SUBSET Price
        /\ core.folds \in SUBSET [at : Nat, opens : SUBSET OpenId, paused : SUBSET Pair]
    BY DEF CoreState
  <1>2. {[id |-> o, sigs |-> [id |-> o, verified |-> o \notin core.hidden], times |-> 1] :
           o \in core.opens} \in SUBSET OpenRecord
    <2>1. \A o \in core.opens : [id |-> o, verified |-> o \notin core.hidden] \in Call
      BY <1>1 DEF Call
    <2> QED BY <1>1, <2>1 DEF OpenRecord
  <1>3. {[at |-> f.at, opens |-> f.opens, times |-> 1, paused |-> f.paused] :
           f \in core.folds} \in SUBSET FoldRecord
    BY <1>1 DEF FoldRecord
  <1>4. Latest(core.prices) \in SUBSET {p \in Price : p.rate >= 0}
    BY <1>1 DEF Latest
  <1>5. PairsOf(core.paused) \in SUBSET Pair
    BY <1>1, PairsType
  <1> QED BY <1>1, <1>2, <1>3, <1>4, <1>5 DEF CoreView, Yield

\* What a scan answers: the view of the core at its head, or a refusal.
LEMMA DecodeAnswers ==
    ASSUME HistoryInv, Decode
    PROVE  /\ answer = NoAnswer /\ DOMAIN copies = Upto(head)
           /\ Readable(Upto(head)) => answer' = CoreView(taken) /\ answer' \in Yield
           /\ ~Readable(Upto(head)) => answer' = Refused
  <1>1. pc = "pages" /\ lo > head
    BY DEF Decode
  <1>2. copies = [l \in Upto(head) |-> 1] /\ answer = NoAnswer
    BY <1>1, AllFetched DEF HistoryInv, ScanInv
  <1>3. DOMAIN copies = Upto(head)
    BY <1>2
  <1>4. answer' = IF Readable(Upto(head)) THEN Derived(copies) ELSE Refused
    BY <1>3 DEF Decode
  <1>5. Upto(head) \in SUBSET Log /\ Reflects(taken, Upto(head)) /\ taken \in CoreState
        /\ OpensOnce(Upto(head))
    BY DEF HistoryInv, LogInv, CoreInv, Upto, OpensOnce, Of
  <1>6. Readable(Upto(head)) => Derived(copies) = CoreView(taken)
    BY <1>2, <1>5, DerivedIsView
  <1> QED BY <1>2, <1>3, <1>4, <1>5, <1>6, ViewIsYield

LEMMA StepReads ==
    ASSUME HistoryInv, [Next]_vars
    PROVE  [Core!Next]_<<sealed, taken, answer>>
  <1>1. ASSUME NEW e \in Event, Emit(e) PROVE UNCHANGED <<sealed, taken, answer>>
    BY <1>1 DEF Emit, scanVars
  <1>2. CASE Seal
    BY <1>2 DEF Seal, scanVars, Core!Next, Core!Move
  <1>3. CASE Begin
    BY <1>3 DEF Begin, chainVars, Core!Next, Core!Ask
  <1>4. CASE GetLogs \/ Abort
    BY <1>4 DEF GetLogs, Abort, chainVars
  <1>5. CASE Decode
    <2>1. UNCHANGED <<sealed, taken>> /\ answer = NoAnswer
          /\ answer' \in {CoreView(taken), Refused}
      BY <1>5, DecodeAnswers DEF Decode, chainVars
    <2> QED BY <2>1 DEF Core!Next, Core!Tell
  <1>6. CASE UNCHANGED vars
    BY <1>6 DEF vars, chainVars, scanVars
  <1> QED BY <1>1, <1>2, <1>3, <1>4, <1>5, <1>6 DEF Next

\* The paged scan of a growing chain implements the snapshot: each answer is
\* what the core held at the end of the block that the scan asked for first.
THEOREM ScanReadsSnapshot == Spec => ReadsSnapshot
  <1>1. Init => Core!Init
    BY DEF Init, Core!Init
  <1>2. HistoryInv /\ [Next]_vars => [Core!Next]_<<sealed, taken, answer>>
    BY StepReads
  <1> QED BY <1>1, <1>2, HistoryInvariant, PTL DEF Spec, ReadsSnapshot, Core!Spec

-----------------------------------------------------------------------------
(* Refusals. *)

\* A log the scan cannot get past.
Unreadable(l) ==
    \/ l.ev \in OpenEvent /\ ~Signed(l.ev)
    \/ l.ev \in FoldEvent /\ ~l.ev.plain
    \/ l.ev \in AlienEvent

Blocked == \E l \in Upto(head) : Unreadable(l)

UnfitOpen == taken.bound \cap Unfit # {}

RefusalInv ==
    /\ answer \in Yield \cup {NoAnswer, Refused}
    /\ stopped \subseteq {"scan", "inputs"}
    /\ answer = Refused => Blocked
    /\ inputs = Refused => answer = Refused \/ UnfitOpen
    /\ "scan" \in stopped => Blocked /\ answer \in {NoAnswer, Refused}
    /\ "inputs" \in stopped => (Blocked \/ UnfitOpen) /\ inputs \in {NoAnswer, Refused}

\* What stopped one scan stops those that come later: their heads are not lower,
\* and a trade that was bound stays in the history.
LEMMA BeginKeeps ==
    ASSUME HistoryInv, Begin
    PROVE  (Blocked => Blocked') /\ (UnfitOpen => UnfitOpen')
  <1>1. log' = log /\ head' = height /\ taken' = sealed /\ head <= height
        /\ head \in Nat /\ height \in Nat /\ \A l \in log : l.block \in Nat
    BY DEF Begin, chainVars, HistoryInv, ScanInv, LogInv, Log
  <1>2. Upto(head)' = Upto(height) /\ Upto(head) \subseteq Upto(height)
    BY <1>1 DEF Upto
  <1>3. Blocked => Blocked'
    BY <1>2 DEF Blocked, Unreadable
  <1>4. taken.bound \subseteq sealed.bound
    BY <1>2 DEF HistoryInv, CoreInv, Reflects, Of
  <1> QED BY <1>1, <1>3, <1>4 DEF UnfitOpen

LEMMA DecodeRefuses ==
    ASSUME HistoryInv, RefusalInv, Decode PROVE RefusalInv'
  <1>1. Upto(head)' = Upto(head) /\ taken' = taken
    BY DEF Decode, chainVars, Upto
  <1>2. (Blocked' <=> Blocked) /\ (UnfitOpen' <=> UnfitOpen)
    BY <1>1 DEF Blocked, UnfitOpen, Unreadable
  <1>3. Readable(Upto(head)) <=> ~Blocked
    BY DEF Readable, Blocked, Unreadable, Of
  <1>4. /\ ~Blocked => answer' = CoreView(taken) /\ answer' \in Yield
        /\ Blocked => answer' = Refused
    BY <1>3, DecodeAnswers
  <1>5. ~Blocked => answer' # Refused
    BY <1>4, AnswerAssumption
  <1>6. ~Blocked => (inputs' = Refused <=> UnfitOpen)
    <2> SUFFICES ASSUME ~Blocked PROVE inputs' = Refused <=> UnfitOpen
      OBVIOUS
    <2>1. inputs' = Inputs(answer')
      BY <1>5 DEF Decode
    <2>2. /\ answer'.opens = {[id |-> o, sigs |-> [id |-> o, verified |-> o \notin taken.hidden],
                             times |-> 1] : o \in taken.opens}
          /\ answer'.folds = {[at |-> f.at, opens |-> f.opens, times |-> 1, paused |-> f.paused] :
                             f \in taken.folds}
      BY <1>4 DEF CoreView
    <2>3. answer'.opens \in SUBSET OpenRecord
      BY <1>4 DEF Yield
    <2>4. [new_positions |-> answer'.opens] # Refused
      BY <2>3, AnswerAssumption
    <2>5. (\E r \in answer'.opens : r.id \in Unfit) <=> taken.opens \cap Unfit # {}
      <3> DEFINE row(o) == [id |-> o, sigs |-> [id |-> o, verified |-> o \notin taken.hidden],
                            times |-> 1]
      <3>1. \A o : row(o).id = o
        OBVIOUS
      <3>2. answer'.opens = {row(o) : o \in taken.opens}
        BY <2>2
      <3> HIDE DEF row
      <3>3. (\E r \in {row(o) : o \in taken.opens} : r.id \in Unfit)
              <=> \E o \in taken.opens : o \in Unfit
        BY <3>1
      <3> QED BY <3>2, <3>3
    <2>6. (\E f \in answer'.folds : f.opens \cap Unfit # {})
            <=> \E f \in taken.folds : f.opens \cap Unfit # {}
      <3> DEFINE row(f) == [at |-> f.at, opens |-> f.opens, times |-> 1, paused |-> f.paused]
      <3>1. \A f : row(f).opens = f.opens
        OBVIOUS
      <3>2. answer'.folds = {row(f) : f \in taken.folds}
        BY <2>2
      <3> HIDE DEF row
      <3>3. (\E f \in {row(g) : g \in taken.folds} : f.opens \cap Unfit # {})
              <=> \E f \in taken.folds : f.opens \cap Unfit # {}
        BY <3>1
      <3> QED BY <3>2, <3>3
    <2>7. taken.bound = taken.opens \cup UNION {f.opens : f \in taken.folds}
      <3>1. Reflects(taken, Upto(head))
        BY DEF HistoryInv, CoreInv
      <3>2. UNION {f.opens : f \in FoldsOf(Upto(head))} = FoldedIds(Upto(head))
        <4> DEFINE row(l) == [at |-> l.at, opens |-> l.ev.opens,
                              paused |-> PausedPairsAt(Upto(head), l.block - 1)]
        <4>1. \A l : row(l).opens = l.ev.opens
          OBVIOUS
        <4>2. FoldsOf(Upto(head)) = {row(l) : l \in Of(Upto(head), FoldEvent)}
          BY DEF FoldsOf
        <4> HIDE DEF row
        <4>3. UNION {f.opens : f \in {row(l) : l \in Of(Upto(head), FoldEvent)}}
                = UNION {l.ev.opens : l \in Of(Upto(head), FoldEvent)}
          BY <4>1
        <4> QED BY <4>2, <4>3 DEF FoldedIds
      <3> QED BY <3>1, <3>2 DEF Reflects
    <2>8. inputs' = Refused <=> \/ \E f \in answer'.folds : f.opens \cap Unfit # {}
                                \/ \E r \in answer'.opens : r.id \in Unfit
      BY <2>1, <2>4 DEF Inputs
    <2>9. taken.bound \cap Unfit # {}
            <=> \/ taken.opens \cap Unfit # {}
                \/ \E f \in taken.folds : f.opens \cap Unfit # {}
      BY <2>7
    <2> QED BY <2>5, <2>6, <2>8, <2>9 DEF UnfitOpen
  <1>7. Blocked => inputs' = Refused
    BY <1>4 DEF Decode
  <1>8. stopped' = stopped \cup (IF answer' = Refused THEN {"scan"} ELSE {})
                           \cup (IF inputs' = Refused THEN {"inputs"} ELSE {})
    BY DEF Decode
  <1> QED BY <1>2, <1>4, <1>5, <1>6, <1>7, <1>8 DEF RefusalInv

LEMMA RefusalStep ==
    ASSUME HistoryInv, RefusalInv, [Next]_vars PROVE RefusalInv'
  <1>1. ASSUME NEW e \in Event, Emit(e) PROVE RefusalInv'
    <2>1. UNCHANGED <<head, taken, answer, inputs, stopped>>
      BY <1>1 DEF Emit, scanVars
    <2>2. Upto(head)' = Upto(head)
      BY <1>1, <2>1, EmitLog DEF HistoryInv, ScanInv, Upto
    <2> QED BY <2>1, <2>2 DEF RefusalInv, Blocked, UnfitOpen, Unreadable
  <1>2. CASE Seal \/ GetLogs \/ Abort \/ UNCHANGED vars
    <2>1. UNCHANGED <<log, head, taken, answer, inputs, stopped>>
      BY <1>2 DEF Seal, GetLogs, Abort, vars, chainVars, scanVars
    <2> QED BY <2>1 DEF RefusalInv, Blocked, UnfitOpen, Unreadable, Upto
  <1>3. CASE Begin
    <2>1. answer' = NoAnswer /\ inputs' = NoAnswer /\ stopped' = stopped
      BY <1>3 DEF Begin
    <2> QED BY <1>3, <2>1, BeginKeeps, AnswerAssumption DEF RefusalInv
  <1>4. CASE Decode
    BY <1>4, DecodeRefuses
  <1> QED BY <1>1, <1>2, <1>3, <1>4 DEF Next

LEMMA RefusalInvariant == Spec => []RefusalInv
  <1>1. Init => RefusalInv
    BY AnswerAssumption DEF Init, RefusalInv
  <1>2. HistoryInv /\ RefusalInv /\ [Next]_vars => RefusalInv'
    BY RefusalStep
  <1> QED BY <1>1, <1>2, HistoryInvariant, PTL DEF Spec

\* The type invariant of the scan, with the sign of a price among it.
THEOREM ScanTypeCorrect == Spec => []ScanTypeOK
  <1>1. HistoryInv /\ RefusalInv => ScanTypeOK
    BY DEF HistoryInv, LogInv, CoreInv, ScanInv, RefusalInv, ScanTypeOK
  <1> QED BY <1>1, HistoryInvariant, RefusalInvariant, PTL

\* A refusal is never taken back.
THEOREM RefusalsAreForGoodAlways == Spec => []RefusalsAreForGood
  <1>1. RefusalInv => RefusalsAreForGood
    BY DEF RefusalInv, RefusalsAreForGood
  <1> QED BY <1>1, RefusalInvariant, PTL
=============================================================================
