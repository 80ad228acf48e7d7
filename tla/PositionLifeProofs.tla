-------------------------- MODULE PositionLifeProofs --------------------------
(***************************************************************************)
(* What PositionLife says of its verdicts, for any quotes, legs, strategies *)
(* and rules.  What a verdict was reached from is still there while it     *)
(* stands, so each property is one of the rules, read backwards.           *)
(***************************************************************************)
EXTENDS PositionLife, FiniteSumsProofs

-----------------------------------------------------------------------------
(* The values *)

LEMMA OneThing ==
  ASSUME NEW x
  PROVE  The({x}) = x
  BY DEF The

LEMMA AtMostOneCases ==
  ASSUME NEW S, NEW T \in AtMostOne(S)
  PROVE  T = {} \/ \E x \in S : T = {x}
  BY DEF AtMostOne

(***************************************************************************)
(* The greater of a number and the one there may be before.                *)
(***************************************************************************)
LEMMA PeakNext ==
  ASSUME NEW B \in AtMostOne(Int), NEW x \in Int
  PROVE  /\ Max(B \cup {x}) \in B \cup {x}
         /\ \A y \in B \cup {x} : Max(B \cup {x}) >= y
<1>1. \E m \in B \cup {x} : \A y \in B \cup {x} : m >= y
  <2>1. CASE B = {}
    BY <2>1
  <2>2. ASSUME NEW b \in Int, B = {b}
        PROVE  \E m \in B \cup {x} : \A y \in B \cup {x} : m >= y
    <3>1. CASE b >= x
      BY <2>2, <3>1
    <3>2. CASE x >= b
      BY <2>2, <3>2
    <3> QED
      BY <2>2, <3>1, <3>2
  <2> QED
    BY <2>1, <2>2, AtMostOneCases
<1> QED
  BY <1>1, Zenon DEF Max

(***************************************************************************)
(* Of finitely many things with a number each, one has the least.          *)
(***************************************************************************)
LEMMA LeastKey ==
  ASSUME NEW S, IsFiniteSet(S), S # {}, NEW f, \A x \in S : f[x] \in Nat
  PROVE  \E x \in S : \A y \in S : f[x] <= f[y]
<1> DEFINE F == {T \in SUBSET S : T = {} \/ \E x \in T : \A y \in T : f[x] <= f[y]}
<1>1. ASSUME NEW T \in SUBSET S, \A U \in SUBSET T : U # T => U \in F
      PROVE  T \in F
  <2> SUFFICES ASSUME T # {}
               PROVE  \E x \in T : \A y \in T : f[x] <= f[y]
    OBVIOUS
  <2>1. PICK z \in T : TRUE
    OBVIOUS
  <2>2. CASE T \ {z} = {}
    BY <2>1, <2>2
  <2>3. CASE T \ {z} # {}
    <3>0. T \ {z} \in F
      <4> HIDE DEF F
      <4> QED
        BY <1>1, <2>1
    <3>1. PICK x \in T \ {z} : \A y \in T \ {z} : f[x] <= f[y]
      BY <2>3, <3>0
    <3>2. f[x] \in Nat /\ f[z] \in Nat /\ \A y \in T : f[y] \in Nat
      BY <2>1, <3>1
    <3>3. CASE f[x] <= f[z]
      BY <3>1, <3>3
    <3>4. CASE f[z] <= f[x]
      BY <3>1, <3>2, <3>4
    <3> QED
      BY <3>2, <3>3, <3>4
  <2> QED
    BY <2>2, <2>3
<1>2. F \in SUBSET SUBSET S
  OBVIOUS
<1>3. S \in F
  <2> HIDE DEF F
  <2> QED
    BY <1>1, <1>2, SubsetInduction
<1> QED
  BY <1>3

LEMMA MidType ==
  ASSUME NEW q \in Quote
  PROVE  Mid(q) \in Nat
  BY DEF Quote, Mid, TwoSided

(***************************************************************************)
(* A combo is worth a whole number, or nothing is known of it.             *)
(***************************************************************************)
LEMMA ComboMidType ==
  ASSUME NEW s \in Strategies, NEW book \in [Legs -> AtMostOne(Quotes)]
  PROVE  ComboMid(Ratio[s], book) \in AtMostOne(Int)
<1> DEFINE ratio == Ratio[s]
           worth == [l \in DOMAIN ratio |-> ratio[l] * Mid(The(book[l]))]
<1>1. IsFiniteSet(Legs) /\ ratio \in [Legs -> Int] /\ Quotes \subseteq Quote
  BY LifeAssumption
<1>2. CASE \A l \in DOMAIN ratio : \E q \in book[l] : Mid(q) > 0
  <2>1. ASSUME NEW l \in Legs
        PROVE  worth[l] \in Int
    <3>1. book[l] \in AtMostOne(Quotes)
      OBVIOUS
    <3>2. PICK q \in Quotes : book[l] = {q}
      <4> HIDE DEF ratio
      <4> QED
        BY <1>1, <1>2, <3>1, AtMostOneCases
    <3>3. Mid(The(book[l])) \in Nat
      BY <1>1, <3>2, OneThing, MidType
    <3>4. ratio[l] \in Int
      BY <1>1
    <3>5. worth[l] = ratio[l] * Mid(The(book[l]))
      BY <1>1
    <3> HIDE DEF ratio, worth
    <3> QED
      BY <3>3, <3>4, <3>5
  <2>2. DOMAIN ratio = Legs
    BY <1>1
  <2>3. Total(worth, Legs) \in Int
    <3> HIDE DEF worth, ratio
    <3> QED
      BY <1>1, <2>1, TotalType
  <2>4. ComboMid(ratio, book) = {Total(worth, DOMAIN ratio)}
    BY <1>2 DEF ComboMid
  <2> HIDE DEF worth, ratio
  <2>5. ComboMid(ratio, book) = {Total(worth, Legs)}
    BY <2>2, <2>4
  <2> QED
    BY <2>3, <2>5 DEF AtMostOne, ratio
<1>3. CASE ~ \A l \in DOMAIN ratio : \E q \in book[l] : Mid(q) > 0
  BY <1>3 DEF ComboMid, AtMostOne
<1> QED
  BY <1>2, <1>3

LEMMA RulesType ==
  ASSUME NEW s \in Strategies
  PROVE  StopRules(s) \in Rule
<1>1. CASE s \in DOMAIN Rules
  BY <1>1, LifeAssumption DEF StopRules
<1>2. CASE s \notin DOMAIN Rules
  <2>1. {} \in Optional
    BY FS_EmptySet DEF Optional
  <2> QED
    BY <1>2, <2>1 DEF StopRules, DefaultRules, Rule
<1> QED
  BY <1>1, <1>2

LEMMA ReasonType ==
  ASSUME NEW rules, NEW open, NEW mark, NEW d, NEW ctx
  PROVE  ExitReason(rules, open, mark, d, ctx) \in Reasons \ {"none"}
  BY DEF ExitReason, BaseReason, Reasons

-----------------------------------------------------------------------------
(* The invariant *)

Row == [status : {"none", "filling", "open", "closing", "closed"},
        strategy : AtMostOne(Strategies), open : Int,
        entryIv : AtMostOne({v.iv : v \in Views})]

Shapes ==
  /\ dte \in Days
  /\ snap \in Snapshot
  /\ pos \in Row
  /\ (pos.status # "none" => pos.strategy # {})
  /\ marks \in AtMostOne(Int)
  /\ (pos.status \in {"none", "filling"} => marks = {} /\ verdict = NoVerdict)
  /\ fresh \in BOOLEAN
  /\ verdict \in [reason : Reasons, pnl : Int, sawPeak : BOOLEAN]

(***************************************************************************)
(* A verdict stands until there is something new to judge: it is what the  *)
(* rules say of the position and the snapshot there are.                   *)
(***************************************************************************)
Grounds ==
  [entryIv |-> pos.entryIv,
   iv |-> {v.iv : v \in snap.chain},
   spot |-> {v.spot : v \in snap.chain},
   shortStrike |-> UNION {ShortStrike(Ratio[Held], Strike, v.spot) : v \in snap.chain},
   pnl |-> Pnl,
   peak |-> IF verdict.sawPeak THEN The(marks) ELSE Pnl,
   sides |-> ComboSides(Ratio[Held], snap.book)]

Judged ==
  verdict.reason # "none" =>
    /\ pos.status \in {"open", "closing", "closed"} /\ HeldMid # {}
    /\ verdict.pnl = Pnl
    /\ \E m \in marks : m >= Pnl
    /\ verdict.reason = ExitReason(StopRules(Held), Abs(pos.open), Abs(The(HeldMid)),
                                  dte, Grounds)

LifeInv == Shapes /\ Judged /\ best = marks

LEMMA HeldTypes ==
  ASSUME Shapes, pos.status # "none"
  PROVE  Held \in Strategies /\ pos.strategy = {Held} /\ HeldMid \in AtMostOne(Int)
<1>1. PICK s \in Strategies : pos.strategy = {s}
  <2>1. pos.strategy \in AtMostOne(Strategies)
    BY DEF Shapes, Row
  <2> QED
    BY <2>1, AtMostOneCases DEF Shapes
<1>2. Held = s
  BY <1>1, OneThing DEF Held
<1>3. snap.book \in [Legs -> AtMostOne(Quotes)]
  BY DEF Shapes, Snapshot
<1> QED
  BY <1>1, <1>2, <1>3, ComboMidType DEF HeldMid

LEMMA PnlType ==
  ASSUME Shapes, pos.status # "none", HeldMid # {}
  PROVE  The(HeldMid) \in Int /\ HeldMid = {The(HeldMid)} /\ Pnl \in Int
<1>1. PICK m \in Int : HeldMid = {m}
  BY HeldTypes, AtMostOneCases
<1>2. The(HeldMid) = m
  BY <1>1, OneThing
<1>3. pos.open \in Int
  BY DEF Shapes, Row
<1> QED
  BY <1>1, <1>2, <1>3 DEF Pnl

LEMMA InitInv == Init => LifeInv
<1> SUFFICES ASSUME Init PROVE LifeInv
  OBVIOUS
<1>1. {} \in AtMostOne(Int) /\ {} \in AtMostOne(Strategies)
      /\ {} \in AtMostOne({v.iv : v \in Views}) /\ {} \in AtMostOne(Quotes)
      /\ {} \in AtMostOne(Views)
  BY DEF AtMostOne
<1>2. snap \in Snapshot
  BY <1>1 DEF Init, NoSnapshot, Snapshot
<1>3. pos \in Row /\ pos.status = "none"
  BY <1>1 DEF Init, NoPosition, Row
<1>4. verdict = NoVerdict /\ verdict \in [reason : Reasons, pnl : Int, sawPeak : BOOLEAN]
      /\ verdict.reason = "none"
  BY DEF Init, NoVerdict, Reasons
<1>5. Shapes
  BY <1>1, <1>2, <1>3, <1>4 DEF Init, Shapes
<1> QED
  BY <1>4, <1>5 DEF Init, LifeInv, Judged

(***************************************************************************)
(* The steps of the world: what was judged is not the newest any more.     *)
(***************************************************************************)
LEMMA NewsInv ==
  ASSUME LifeInv, SnapshotArrives \/ DaysPass
  PROVE  LifeInv'
<1>1. dte' \in Days /\ snap' \in Snapshot
  BY DEF LifeInv, Shapes, SnapshotArrives, DaysPass
<1>2. /\ fresh' = FALSE /\ verdict' = NoVerdict
      /\ pos' = pos /\ marks' = marks /\ best' = best
  BY DEF SnapshotArrives, DaysPass
<1>3. NoVerdict \in [reason : Reasons, pnl : Int, sawPeak : BOOLEAN] /\ NoVerdict.reason = "none"
  BY DEF NoVerdict, Reasons
<1>4. Shapes'
  BY <1>1, <1>2, <1>3 DEF LifeInv, Shapes
<1> QED
  BY <1>2, <1>3, <1>4 DEF LifeInv, Judged

LEMMA AdmitInv ==
  ASSUME LifeInv, NEW s \in Strategies, Admit(s)
  PROVE  LifeInv'
<1>1. PICK mid \in ComboMid(Ratio[s], snap.book) :
        pos' = [status |-> "filling", strategy |-> {s}, open |-> mid, entryIv |-> {}]
  BY DEF Admit
<1>2. /\ fresh' = TRUE /\ pos.status = "none"
      /\ UNCHANGED <<dte, snap, marks, best, verdict>>
  BY DEF Admit
<1>3. mid \in Int
  <2>1. snap.book \in [Legs -> AtMostOne(Quotes)]
    BY DEF LifeInv, Shapes, Snapshot
  <2> QED
    BY <1>1, <2>1, ComboMidType, AtMostOneCases
<1>4. pos' \in Row
  <2>1. {s} \in AtMostOne(Strategies) /\ {} \in AtMostOne({v.iv : v \in Views})
    BY DEF AtMostOne
  <2> QED
    BY <1>1, <1>3, <2>1 DEF Row
<1>5. pos'.status = "filling" /\ pos'.strategy # {}
  BY <1>1
<1>6. Shapes'
  BY <1>2, <1>4, <1>5 DEF LifeInv, Shapes
<1>7. verdict'.reason = "none"
  BY <1>2 DEF LifeInv, Shapes, NoVerdict
<1> QED
  BY <1>2, <1>6, <1>7 DEF LifeInv, Judged

LEMMA FillInv ==
  ASSUME LifeInv, Fill
  PROVE  LifeInv'
<1>1. /\ pos.status = "filling" /\ UNCHANGED <<dte, snap, marks, fresh, best, verdict>>
      /\ pos' = [pos EXCEPT !.status = "open", !.entryIv = {v.iv : v \in snap.chain}]
  BY DEF Fill
<1>2. {v.iv : v \in snap.chain} \in AtMostOne({v.iv : v \in Views})
  <2>1. snap.chain \in AtMostOne(Views)
    BY DEF LifeInv, Shapes, Snapshot
  <2>2. CASE snap.chain = {}
    BY <2>2 DEF AtMostOne
  <2>3. ASSUME NEW v \in Views, snap.chain = {v}
        PROVE  {w.iv : w \in snap.chain} \in AtMostOne({w.iv : w \in Views})
    <3>1. {w.iv : w \in snap.chain} = {v.iv} /\ v.iv \in {w.iv : w \in Views}
      BY <2>3
    <3> QED
      BY <3>1 DEF AtMostOne
  <2> QED
    BY <2>1, <2>2, <2>3, AtMostOneCases
<1>3. pos' = [status |-> "open", strategy |-> pos.strategy, open |-> pos.open,
              entryIv |-> {v.iv : v \in snap.chain}]
  BY <1>1 DEF LifeInv, Shapes, Row
<1>4. pos' \in Row /\ pos'.strategy # {} /\ pos'.status = "open"
  BY <1>1, <1>2, <1>3 DEF LifeInv, Shapes, Row
<1>5. Shapes'
  BY <1>1, <1>4 DEF LifeInv, Shapes
<1>6. verdict'.reason = "none"
  BY <1>1 DEF LifeInv, Shapes, NoVerdict
<1> QED
  BY <1>1, <1>5, <1>6 DEF LifeInv, Judged

(***************************************************************************)
(* A step that leaves all but the status of the position as it is leaves   *)
(* the grounds of the verdict.                                             *)
(***************************************************************************)
StatusOnly ==
  /\ UNCHANGED <<dte, snap>>
  /\ pos'.strategy = pos.strategy /\ pos'.open = pos.open /\ pos'.entryIv = pos.entryIv

LEMMA StatusKeeps ==
  ASSUME StatusOnly
  PROVE  /\ Held' = Held /\ HeldMid' = HeldMid /\ Pnl' = Pnl
         /\ UNCHANGED <<marks, verdict>> => Grounds' = Grounds
<1>1. Held' = Held
  BY DEF StatusOnly, Held
<1>2. HeldMid' = HeldMid
  BY <1>1 DEF StatusOnly, HeldMid
<1>3. Pnl' = Pnl
  BY <1>2 DEF StatusOnly, Pnl
<1>4. ASSUME UNCHANGED <<marks, verdict>>
      PROVE  Grounds' = Grounds
  BY <1>1, <1>3, <1>4 DEF StatusOnly, Grounds
<1> QED
  BY <1>1, <1>2, <1>3, <1>4

LEMMA StandsInv ==
  ASSUME LifeInv, StatusOnly, UNCHANGED <<marks, verdict>>,
         pos.status \in {"open", "closing", "closed"},
         pos'.status \in {"open", "closing", "closed"}
  PROVE  Judged'
<1>1. SUFFICES ASSUME verdict'.reason # "none" PROVE Judged'
  BY DEF Judged
<1>2. /\ HeldMid # {} /\ verdict.pnl = Pnl /\ (\E m \in marks : m >= Pnl)
      /\ verdict.reason = ExitReason(StopRules(Held), Abs(pos.open), Abs(The(HeldMid)),
                                    dte, Grounds)
  BY <1>1 DEF LifeInv, Judged
<1>3. /\ Held' = Held /\ HeldMid' = HeldMid /\ Pnl' = Pnl /\ Grounds' = Grounds
      /\ dte' = dte /\ pos'.open = pos.open
  BY StatusKeeps DEF StatusOnly
<1> HIDE DEF Held, HeldMid, Pnl, Grounds
<1> QED
  BY <1>2, <1>3 DEF Judged

LEMMA MovedInv ==
  ASSUME LifeInv, Close \/ Reopen
  PROVE  LifeInv'
<1>1. PICK st \in {"open", "closed"} : pos' = [pos EXCEPT !.status = st]
  BY DEF Close, Reopen
<1>2. pos.status = "closing" /\ UNCHANGED <<dte, snap, marks, fresh, best, verdict>>
  BY DEF Close, Reopen
<1>3. pos' = [status |-> st, strategy |-> pos.strategy, open |-> pos.open,
              entryIv |-> pos.entryIv]
  BY <1>1 DEF LifeInv, Shapes, Row
<1>4. pos' \in Row /\ pos'.strategy # {} /\ pos'.status = st
  BY <1>2, <1>3 DEF LifeInv, Shapes, Row
<1>5. Shapes'
  BY <1>2, <1>4 DEF LifeInv, Shapes
<1>6. StatusOnly
  BY <1>2, <1>3 DEF StatusOnly
<1>7. Judged'
  BY <1>2, <1>4, <1>6, StandsInv
<1> QED
  BY <1>2, <1>5, <1>7 DEF LifeInv

LEMMA TickMarks ==
  ASSUME LifeInv, ManagerTick
  PROVE  \E m \in Int : /\ marks' = {m} /\ best' = {m} /\ m >= Pnl
                        /\ Max({m} \cup {Pnl}) = m
                        /\ m = Pnl \/ m \in marks
                        /\ \A y \in marks : m >= y
<1>1. marks \in AtMostOne(Int) /\ Pnl \in Int
  <2>1. pos.status # "none" /\ HeldMid # {}
    BY DEF ManagerTick, Watched
  <2> QED
    BY <2>1, PnlType DEF LifeInv, Shapes
<1> DEFINE m == Max(marks \cup {Pnl})
<1>2. m \in marks \cup {Pnl} /\ \A y \in marks \cup {Pnl} : m >= y
  BY <1>1, PeakNext
<1>3. marks \subseteq Int
  BY <1>1, AtMostOneCases
<1>4. m \in Int
  BY <1>1, <1>2, <1>3
<1>5. Max({m} \cup {Pnl}) = m
  <2>1. {m} \in AtMostOne(Int)
    BY <1>4 DEF AtMostOne
  <2>2. /\ Max({m} \cup {Pnl}) \in {m} \cup {Pnl}
        /\ Max({m} \cup {Pnl}) >= m
    BY <1>1, <2>1, PeakNext
  <2>3. m >= Pnl
    BY <1>2
  <2> HIDE DEF m
  <2> QED
    BY <1>1, <1>4, <2>2, <2>3
<1>6. marks' = {m} /\ best' = {m}
  BY DEF ManagerTick, PeakOfMarks, LifeInv
<1> QED
  BY <1>2, <1>4, <1>5, <1>6

LEMMA TickInv ==
  ASSUME LifeInv, ManagerTick
  PROVE  LifeInv'
<1>1. /\ pos.status \in {"open", "closing"} /\ pos.status # "none"
      /\ HeldMid # {} /\ UNCHANGED <<dte, snap, fresh>>
  BY DEF ManagerTick, Watched
<1>2. PICK m \in Int : /\ marks' = {m} /\ best' = {m} /\ m >= Pnl
                       /\ Max({m} \cup {Pnl}) = m
                       /\ m = Pnl \/ m \in marks
                       /\ \A y \in marks : m >= y
  BY TickMarks
<1>3. Pnl \in Int /\ marks' \in AtMostOne(Int)
  BY <1>1, <1>2, PnlType DEF LifeInv, AtMostOne
<1>4. CASE pos.status = "closing"
  <2>1. UNCHANGED <<pos, verdict>>
    BY <1>4 DEF ManagerTick
  <2>2. Shapes'
    BY <1>1, <1>3, <2>1 DEF LifeInv, Shapes
  <2>3. Judged'
    <3>1. CASE verdict.reason = "none"
      BY <2>1, <3>1 DEF Judged
    <3>2. CASE verdict.reason # "none"
      <4>1. PICK k \in marks : k >= Pnl
        BY <3>2 DEF LifeInv, Judged
      <4>2. marks = {k} /\ k \in Int
        <5>1. marks \in AtMostOne(Int)
          BY DEF LifeInv, Shapes
        <5> QED
          BY <4>1, <5>1, AtMostOneCases
      <4>3. m = k
        BY <1>2, <1>3, <4>1, <4>2
      <4>4. marks' = marks
        BY <1>2, <4>2, <4>3
      <4>5. StatusOnly
        BY <1>1, <2>1 DEF StatusOnly
      <4> QED
        BY <1>4, <2>1, <4>4, <4>5, StandsInv
    <3> QED
      BY <3>1, <3>2
  <2> QED
    BY <1>2, <2>2, <2>3 DEF LifeInv
<1>5. CASE pos.status # "closing"
  <2>1. PICK readable \in BOOLEAN :
          LET reason == ExitReason(StopRules(Held), Abs(pos.open), Abs(The(HeldMid)),
                                   dte, ExitContext(readable))
          IN  /\ verdict' = [reason |-> reason, pnl |-> Pnl, sawPeak |-> readable]
              /\ pos' = [pos EXCEPT !.status = IF ShouldExit(reason) THEN "closing"
                                                                     ELSE @]
    BY <1>5 DEF ManagerTick
  <2> DEFINE reason == ExitReason(StopRules(Held), Abs(pos.open), Abs(The(HeldMid)),
                                  dte, ExitContext(readable))
             st == IF ShouldExit(reason) THEN "closing" ELSE pos.status
  <2>2. /\ verdict' = [reason |-> reason, pnl |-> Pnl, sawPeak |-> readable]
        /\ pos' = [pos EXCEPT !.status = st]
    BY <2>1
  <2>3. reason \in Reasons \ {"none"} /\ st \in {"open", "closing"}
    BY <1>1, ReasonType
  <2> HIDE DEF st
  <2>4. pos' = [status |-> st, strategy |-> pos.strategy, open |-> pos.open,
                entryIv |-> pos.entryIv]
    BY <2>2 DEF LifeInv, Shapes, Row
  <2>5. pos' \in Row /\ pos'.status = st /\ pos'.strategy # {}
    BY <1>1, <2>3, <2>4 DEF LifeInv, Shapes, Row
  <2>6. StatusOnly
    BY <1>1, <2>4 DEF StatusOnly
  <2>7. /\ Held' = Held /\ HeldMid' = HeldMid /\ Pnl' = Pnl
        /\ dte' = dte /\ pos'.open = pos.open /\ snap' = snap /\ pos'.entryIv = pos.entryIv
    BY <2>6, StatusKeeps DEF StatusOnly
  <2>8. Grounds' = ExitContext(readable)
    <3>1. (IF readable THEN The(marks') ELSE Pnl)
            = (IF readable THEN Max(marks' \cup {Pnl}) ELSE Pnl)
      BY <1>2, OneThing
    <3>2. verdict'.sawPeak = readable
      BY <2>2
    <3> HIDE DEF Held, Pnl, reason
    <3> QED
      BY <2>7, <3>1, <3>2 DEF Grounds, ExitContext
  <2> HIDE DEF Held, HeldMid, Pnl, Grounds, reason
  <2>9. verdict' \in [reason : Reasons, pnl : Int, sawPeak : BOOLEAN]
    BY <1>3, <2>2, <2>3
  <2>10. Shapes'
    BY <1>1, <1>3, <2>3, <2>5, <2>9 DEF LifeInv, Shapes
  <2>11. verdict'.reason
           = ExitReason(StopRules(Held'), Abs(pos'.open), Abs(The(HeldMid')), dte', Grounds')
    BY <2>2, <2>7, <2>8 DEF reason
  <2>12. Judged'
    BY <1>1, <1>2, <2>2, <2>3, <2>5, <2>7, <2>11 DEF Judged
  <2> QED
    BY <1>2, <2>10, <2>12 DEF LifeInv
<1> QED
  BY <1>4, <1>5

LEMMA StutterInv ==
  ASSUME LifeInv, UNCHANGED vars
  PROVE  LifeInv'
  BY DEF LifeInv, Shapes, Judged, Grounds, Pnl, HeldMid, Held, vars

LEMMA LifeStep ==
  ASSUME LifeInv, [Next]_vars
  PROVE  LifeInv'
  BY NewsInv, AdmitInv, FillInv, MovedInv, TickInv, StutterInv DEF Next

(***************************************************************************)
(* What a position, its marks and its verdict are, and that the verdict is *)
(* what the rules say as long as it stands.                                *)
(***************************************************************************)
THEOREM VerdictsStand == Spec => []LifeInv
<1>1. LifeInv /\ [Next]_vars => LifeInv'
  BY LifeStep
<1> QED
  BY <1>1, InitInv, PTL DEF Spec

(***************************************************************************)
(* The state keeps its types, and marks are of filled positions only, for  *)
(* any quotes, legs, strategies and rules.                                 *)
(***************************************************************************)
THEOREM LifeTypes == Spec => []LifeTypeOK
<1>1. ASSUME LifeInv PROVE LifeTypeOK
  <2>1. Cardinality(marks) <= 1 /\ marks \subseteq Int
    <3>1. marks = {} \/ \E x \in Int : marks = {x}
      BY <1>1, AtMostOneCases DEF LifeInv, Shapes
    <3>2. Cardinality({}) = 0
      BY FS_EmptySet
    <3>3. ASSUME NEW x \in Int, marks = {x}
          PROVE  Cardinality(marks) = 1 /\ marks \subseteq Int
      BY <3>3, FS_Singleton
    <3> QED
      BY <3>1, <3>2, <3>3
  <2> QED
    BY <1>1, <2>1 DEF LifeInv, Shapes, Row, LifeTypeOK
<1> QED
  BY <1>1, VerdictsStand, PTL

-----------------------------------------------------------------------------
(* The rules, read backwards *)

LEMMA Verdicts ==
  ASSUME NEW rules, NEW open, NEW mark, NEW d, NEW ctx, NEW reason,
         reason = ExitReason(rules, open, mark, d, ctx)
  PROVE  /\ reason \in {"target", "defer"} => Target(rules, open, mark)
         /\ reason = "stop" => Stop(rules, open, mark)
         /\ reason = "vol_crush" => VolCrush(rules, ctx)
         /\ reason = "trail" => Trail(rules, open, ctx)
         /\ reason = "time_stop" => TimeStop(rules, d)
         /\ reason \in {"hold", "defer"} =>
              /\ ~TimeStop(rules, d) /\ ~StrikeTested(rules, ctx)
              /\ ~Trail(rules, open, ctx)
              /\ Target(rules, open, mark) \/ ~Stop(rules, open, mark)
  BY DEF ExitReason, BaseReason, Deferred

(***************************************************************************)
(* The hypothesis on strategies.yaml: a target is above the price of the   *)
(* entry, a stop is below.  Nothing in the code asks for it.               *)
(***************************************************************************)
RulesBite == \A s \in Strategies : StopRules(s).target > 0 /\ StopRules(s).stop > 0

OneSign(rules, v) == IF rules.isCredit THEN v < 0 ELSE v > 0

LEMMA Products ==
  ASSUME NEW x \in Int, NEW p \in Nat, x > 0, p > 0
  PROVE  /\ x * (100 - p) = 100 * x - p * x /\ x * (100 + p) = 100 * x + p * x
         /\ p * x \in Int /\ p * x > 0
  OBVIOUS

LEMMA TargetProfits ==
  ASSUME NEW rules \in Rule, rules.target > 0, NEW o \in Int, NEW v \in Int,
         OneSign(rules, v), OneSign(rules, o), Target(rules, Abs(o), Abs(v))
  PROVE  v - o > 0
<1> DEFINE p == rules.target
<1>1. p \in Nat /\ p > 0 /\ rules.isCredit \in BOOLEAN
  BY DEF Rule
<1>2. CASE rules.isCredit
  <2>1. o < 0 /\ v < 0 /\ Abs(o) = -o /\ Abs(v) = -v
    BY <1>2 DEF OneSign, Abs, Distance
  <2>2. 100 * (-v) <= (-o) * (100 - p)
    BY <1>2, <2>1 DEF Target
  <2> HIDE DEF p
  <2>3. (-o) * (100 - p) = 100 * (-o) - p * (-o) /\ p * (-o) \in Int /\ p * (-o) > 0
    BY <1>1, <2>1, Products
  <2> QED
    BY <2>2, <2>3
<1>3. CASE ~rules.isCredit
  <2>1. o > 0 /\ v > 0 /\ Abs(o) = o /\ Abs(v) = v
    BY <1>3 DEF OneSign, Abs, Distance
  <2>2. 100 * v >= o * (100 + p)
    BY <1>3, <2>1 DEF Target
  <2> HIDE DEF p
  <2>3. o * (100 + p) = 100 * o + p * o /\ p * o \in Int /\ p * o > 0
    BY <1>1, <2>1, Products
  <2> QED
    BY <2>2, <2>3
<1> QED
  BY <1>1, <1>2, <1>3

LEMMA StopLoses ==
  ASSUME NEW rules \in Rule, rules.stop > 0, NEW o \in Int, NEW v \in Int,
         OneSign(rules, v), OneSign(rules, o)
  PROVE  /\ Stop(rules, Abs(o), Abs(v)) => v - o < 0
         /\ ~Stop(rules, Abs(o), Abs(v)) \/ v - o > 0 => -100 * (v - o) < rules.stop * Abs(o)
<1> DEFINE p == rules.stop
<1>1. p \in Nat /\ p > 0 /\ rules.isCredit \in BOOLEAN
  BY DEF Rule
<1>2. CASE rules.isCredit
  <2>1. o < 0 /\ v < 0 /\ Abs(o) = -o /\ Abs(v) = -v
    BY <1>2 DEF OneSign, Abs, Distance
  <2>2. Stop(rules, Abs(o), Abs(v)) <=> 100 * (-v) >= (-o) * (100 + p)
    BY <1>2, <2>1 DEF Stop
  <2> HIDE DEF p
  <2>3. (-o) * (100 + p) = 100 * (-o) + p * (-o) /\ p * (-o) \in Int /\ p * (-o) > 0
    BY <1>1, <2>1, Products
  <2>4. /\ Stop(rules, Abs(o), Abs(v)) => v - o < 0
        /\ ~Stop(rules, Abs(o), Abs(v)) \/ v - o > 0 => -100 * (v - o) < p * (-o)
    BY <2>2, <2>3
  <2> QED
    BY <2>1, <2>4 DEF p
<1>3. CASE ~rules.isCredit
  <2>1. o > 0 /\ v > 0 /\ Abs(o) = o /\ Abs(v) = v
    BY <1>3 DEF OneSign, Abs, Distance
  <2>2. Stop(rules, Abs(o), Abs(v)) <=> 100 * v <= o * (100 - p)
    BY <1>3, <2>1 DEF Stop
  <2> HIDE DEF p
  <2>3. o * (100 - p) = 100 * o - p * o /\ p * o \in Int /\ p * o > 0
    BY <1>1, <2>1, Products
  <2>4. /\ Stop(rules, Abs(o), Abs(v)) => v - o < 0
        /\ ~Stop(rules, Abs(o), Abs(v)) \/ v - o > 0 => -100 * (v - o) < p * o
    BY <2>2, <2>3
  <2> QED
    BY <2>1, <2>4 DEF p
<1> QED
  BY <1>1, <1>2, <1>3

(***************************************************************************)
(* What a standing verdict says of the position.                           *)
(***************************************************************************)
LEMMA Standing ==
  ASSUME LifeInv, verdict.reason # "none"
  PROVE  /\ Held \in Strategies /\ StopRules(Held) \in Rule
         /\ pos.open \in Int /\ The(HeldMid) \in Int /\ HeldMid = {The(HeldMid)}
         /\ Pnl = The(HeldMid) - pos.open /\ verdict.pnl = Pnl
         /\ KeepsSign => /\ OneSign(StopRules(Held), The(HeldMid))
                         /\ OneSign(StopRules(Held), pos.open)
<1>1. Shapes /\ pos.status # "none" /\ HeldMid # {} /\ verdict.pnl = Pnl
  BY DEF LifeInv, Judged
<1>2. Held \in Strategies /\ StopRules(Held) \in Rule
  BY <1>1, HeldTypes, RulesType
<1>3. pos.open \in Int
  BY <1>1 DEF Shapes, Row
<1>4. The(HeldMid) \in Int /\ HeldMid = {The(HeldMid)}
  BY <1>1, PnlType
<1>5. KeepsSign => /\ OneSign(StopRules(Held), The(HeldMid))
                   /\ OneSign(StopRules(Held), pos.open)
  <2> SUFFICES ASSUME KeepsSign
               PROVE  /\ OneSign(StopRules(Held), The(HeldMid))
                      /\ OneSign(StopRules(Held), pos.open)
    OBVIOUS
  <2>1. The(HeldMid) \in HeldMid
    BY <1>4
  <2> QED
    BY <2>1 DEF KeepsSign, OneSign
<1> QED
  BY <1>1, <1>2, <1>3, <1>4, <1>5 DEF Pnl

(***************************************************************************)
(* An exit is called by its name, for any rules that bite.                 *)
(***************************************************************************)
THEOREM ReasonsAreNamed == RulesBite => (Spec => []ReasonsFitPnl)
<1> SUFFICES ASSUME RulesBite PROVE Spec => []ReasonsFitPnl
  OBVIOUS
<1>1. ASSUME LifeInv PROVE ReasonsFitPnl
  <2> SUFFICES ASSUME verdict.reason # "none", KeepsSign
               PROVE  /\ verdict.reason \in {"target", "vol_crush", "defer"} => verdict.pnl > 0
                      /\ verdict.reason = "stop" => verdict.pnl < 0
    BY DEF ReasonsFitPnl
  <2> DEFINE rules == StopRules(Held)
             o == pos.open
             v == The(HeldMid)
  <2>1. /\ rules \in Rule /\ o \in Int /\ v \in Int /\ verdict.pnl = v - o
        /\ OneSign(rules, v) /\ OneSign(rules, o) /\ rules.target > 0 /\ rules.stop > 0
    BY <1>1, Standing DEF RulesBite
  <2>2. verdict.reason = ExitReason(rules, Abs(o), Abs(v), dte, Grounds)
    BY <1>1 DEF LifeInv, Judged
  <2>3. verdict.reason = "vol_crush" => verdict.pnl > 0
    <3>1. Grounds.pnl = verdict.pnl
      BY <1>1, Standing DEF Grounds
    <3> HIDE DEF rules, o, v
    <3> QED
      BY <2>2, <3>1, Verdicts DEF VolCrush
  <2> HIDE DEF rules, o, v
  <2>4. verdict.reason \in {"target", "defer"} => v - o > 0
    BY <2>1, <2>2, Verdicts, TargetProfits
  <2>5. verdict.reason = "stop" => v - o < 0
    BY <2>1, <2>2, Verdicts, StopLoses
  <2> QED
    BY <2>1, <2>3, <2>4, <2>5
<1> QED
  BY <1>1, VerdictsStand, PTL

(***************************************************************************)
(* The short strike that is tested is one of those nearest to the money.   *)
(***************************************************************************)
LEMMA NearestShort ==
  ASSUME NEW s \in Strategies, NEW spot \in Nat, \E k \in Legs : Ratio[s][k] < 0
  PROVE  \E l \in Legs :
           /\ Ratio[s][l] < 0 /\ ShortStrike(Ratio[s], Strike, spot) = {Strike[l]}
           /\ \A k \in Legs :
                Ratio[s][k] < 0 => Distance(Strike[l], spot) <= Distance(Strike[k], spot)
<1> DEFINE shorts == {l \in DOMAIN Ratio[s] : Ratio[s][l] < 0}
           far(l) == Distance(Strike[l], spot)
           key == [l \in shorts |-> far(l)]
           nearest == {l \in shorts : \A k \in shorts : far(l) <= far(k)}
<1>1. /\ DOMAIN Ratio[s] = Legs /\ Legs \subseteq Nat /\ IsFiniteSet(Legs)
      /\ \A l \in Legs : Strike[l] \in Nat
  BY LifeAssumption
<1>2. shorts \subseteq Legs /\ shorts # {} /\ IsFiniteSet(shorts)
  BY <1>1, FS_Subset
<1>3. \A l \in shorts : key[l] \in Nat
  BY <1>1, <1>2 DEF Distance
<1>4. nearest # {}
  <2>1. \E x \in shorts : \A y \in shorts : key[x] <= key[y]
    <3> HIDE DEF shorts, key
    <3> QED
      BY <1>2, <1>3, LeastKey
  <2> HIDE DEF shorts, far
  <2> QED
    BY <2>1
<1>5. Min(nearest) \in nearest
  <2> DEFINE id == [l \in nearest |-> l]
  <2>1. nearest \subseteq shorts /\ nearest \subseteq Nat /\ IsFiniteSet(nearest)
    BY <1>1, <1>2, FS_Subset
  <2>2. \A l \in nearest : id[l] \in Nat /\ id[l] = l
    BY <2>1
  <2> HIDE DEF nearest, id
  <2>3. \E x \in nearest : \A y \in nearest : id[x] <= id[y]
    BY <1>4, <2>1, <2>2, LeastKey
  <2>4. \E x \in nearest : \A y \in nearest : x <= y
    BY <2>2, <2>3
  <2> QED
    BY <2>4, Zenon DEF Min
<1>6. ShortStrike(Ratio[s], Strike, spot) = {Strike[Min(nearest)]}
  BY <1>2 DEF ShortStrike
<1> DEFINE l == Min(nearest)
<1>7. l \in shorts /\ \A k \in shorts : far(l) <= far(k)
  <2> HIDE DEF far, shorts, l
  <2>1. l \in nearest
    BY <1>5 DEF l
  <2> QED
    BY <2>1
<1>8. l \in Legs /\ ShortStrike(Ratio[s], Strike, spot) = {Strike[l]}
  BY <1>2, <1>6, <1>7
<1> HIDE DEF l, nearest
<1>9. Ratio[s][l] < 0
  BY <1>7
<1>10. ASSUME NEW k \in Legs, Ratio[s][k] < 0
       PROVE  Distance(Strike[l], spot) <= Distance(Strike[k], spot)
  <2>1. k \in shorts
    BY <1>1, <1>10
  <2>2. far(l) <= far(k)
    <3> HIDE DEF shorts, far
    <3> QED
      BY <1>7, <2>1
  <2> QED
    BY <2>2
<1> QED
  BY <1>8, <1>9, <1>10

LEMMA NotTested ==
  ASSUME LifeInv, verdict.reason # "none", ~StrikeTested(StopRules(Held), Grounds),
         StopRules(Held).isCredit, \E k \in Legs : Ratio[Held][k] < 0,
         NEW b \in StopRules(Held).strikeBuffer, NEW v \in snap.chain
  PROVE  \E l \in Legs :
           /\ Ratio[Held][l] < 0 /\ 1000 * Distance(v.spot, Strike[l]) > b * Strike[l]
           /\ \A k \in Legs :
                Ratio[Held][k] < 0 => Distance(v.spot, Strike[l]) <= Distance(v.spot, Strike[k])
<1>1. Held \in Strategies /\ StopRules(Held) \in Rule
  BY Standing
<1>2. v \in Views /\ snap.chain = {v} /\ v.spot \in Nat \ {0}
  <2>1. snap.chain \in AtMostOne(Views)
    BY DEF LifeInv, Shapes, Snapshot
  <2>2. PICK w \in Views : snap.chain = {w}
    BY <2>1, AtMostOneCases
  <2> QED
    BY <2>2, LifeAssumption
<1>3. b \in Nat
  BY <1>1 DEF Rule, Optional
<1>4. PICK l \in Legs :
        /\ Ratio[Held][l] < 0 /\ ShortStrike(Ratio[Held], Strike, v.spot) = {Strike[l]}
        /\ \A k \in Legs :
             Ratio[Held][k] < 0 => Distance(Strike[l], v.spot) <= Distance(Strike[k], v.spot)
  BY <1>1, <1>2, NearestShort
<1>5. Grounds.spot = {v.spot} /\ Grounds.shortStrike = {Strike[l]}
  <2>1. Grounds.spot = {w.spot : w \in snap.chain}
    BY DEF Grounds
  <2>2. Grounds.shortStrike
          = UNION {ShortStrike(Ratio[Held], Strike, w.spot) : w \in snap.chain}
    BY DEF Grounds
  <2>3. {ShortStrike(Ratio[Held], Strike, w.spot) : w \in snap.chain} = {{Strike[l]}}
    BY <1>2, <1>4
  <2> QED
    BY <1>2, <2>1, <2>2, <2>3
<1>6. ~(Strike[l] > 0 /\ 1000 * Distance(v.spot, Strike[l]) <= b * Strike[l])
  BY <1>5 DEF StrikeTested
<1>7. \A k \in Legs : Strike[k] \in Nat /\ Distance(Strike[k], v.spot) = Distance(v.spot, Strike[k])
  <2>1. Strike \in [Legs -> Nat]
    BY LifeAssumption
  <2>2. ASSUME NEW x \in Nat, NEW y \in Nat
        PROVE  Distance(x, y) = Distance(y, x)
    BY DEF Distance
  <2> QED
    BY <1>2, <2>1, <2>2
<1>8. 1000 * Distance(v.spot, Strike[l]) > b * Strike[l]
  <2>1. Strike[l] \in Nat /\ v.spot \in Nat \ {0}
    BY <1>2, <1>7
  <2>2. CASE Strike[l] = 0
    <3>1. Distance(v.spot, Strike[l]) = v.spot /\ b * Strike[l] = 0
      BY <1>3, <2>1, <2>2 DEF Distance
    <3> QED
      BY <2>1, <3>1
  <2>3. CASE Strike[l] > 0
    <3> DEFINE x == 1000 * Distance(v.spot, Strike[l])
               y == b * Strike[l]
    <3>1. x \in Int /\ y \in Int
      BY <1>3, <2>1 DEF Distance
    <3>2. ~(x <= y)
      BY <1>6, <2>3
    <3> HIDE DEF x, y
    <3>3. x > y
      BY <3>1, <3>2
    <3> QED
      BY <3>3 DEF x, y
  <2> QED
    BY <2>1, <2>2, <2>3
<1> QED
  BY <1>4, <1>7, <1>8

(***************************************************************************)
(* What a tick leaves open is within its risk limits, for any quotes and   *)
(* legs and any rules that bite.                                           *)
(***************************************************************************)
THEOREM HeldPositionsAreSafe == RulesBite => (Spec => []HeldWithinRisk)
<1> SUFFICES ASSUME RulesBite PROVE Spec => []HeldWithinRisk
  OBVIOUS
<1>1. ASSUME LifeInv PROVE HeldWithinRisk
  <2> SUFFICES ASSUME verdict.reason \in {"hold", "defer"}
               PROVE  HeldWithinRisk
    BY DEF HeldWithinRisk
  <2> DEFINE rules == StopRules(Held)
             o == pos.open
             v == The(HeldMid)
  <2>1. /\ rules \in Rule /\ o \in Int /\ v \in Int /\ Pnl = v - o
        /\ rules.target > 0 /\ rules.stop > 0
        /\ KeepsSign => OneSign(rules, v) /\ OneSign(rules, o)
    BY <1>1, Standing DEF RulesBite
  <2>2. verdict.reason = ExitReason(rules, Abs(o), Abs(v), dte, Grounds)
    BY <1>1 DEF LifeInv, Judged
  <2>3. /\ ~TimeStop(rules, dte) /\ ~StrikeTested(rules, Grounds)
        /\ Target(rules, Abs(o), Abs(v)) \/ ~Stop(rules, Abs(o), Abs(v))
    <3> HIDE DEF rules, o, v
    <3> QED
      BY <2>2, Verdicts
  <2>4. dte > rules.timeStop
    <3>1. dte \in Nat
      BY <1>1, LifeAssumption DEF LifeInv, Shapes
    <3>2. rules.timeStop \in Nat
      BY <2>1 DEF Rule
    <3> HIDE DEF rules
    <3> QED
      BY <2>3, <3>1, <3>2 DEF TimeStop
  <2>5. ASSUME rules.isCredit, \E k \in Legs : Ratio[Held][k] < 0,
               NEW b \in rules.strikeBuffer, NEW w \in snap.chain
        PROVE  \E l \in {k \in Legs : Ratio[Held][k] < 0} :
                 /\ \A k \in {n \in Legs : Ratio[Held][n] < 0} :
                      Distance(w.spot, Strike[l]) <= Distance(w.spot, Strike[k])
                 /\ 1000 * Distance(w.spot, Strike[l]) > b * Strike[l]
    <3>1. PICK l \in Legs :
            /\ Ratio[Held][l] < 0 /\ 1000 * Distance(w.spot, Strike[l]) > b * Strike[l]
            /\ \A k \in Legs : Ratio[Held][k] < 0 =>
                 Distance(w.spot, Strike[l]) <= Distance(w.spot, Strike[k])
      BY <1>1, <2>3, <2>5, NotTested
    <3> QED
      BY <3>1
  <2>6. KeepsSign => -100 * Pnl < rules.stop * Abs(o)
    <3> SUFFICES ASSUME KeepsSign
                 PROVE  -100 * (v - o) < rules.stop * Abs(o)
      BY <2>1
    <3> HIDE DEF rules, o, v
    <3>1. Target(rules, Abs(o), Abs(v)) => v - o > 0
      BY <2>1, TargetProfits
    <3> QED
      BY <2>1, <2>3, <3>1, StopLoses
  <2> QED
    BY <2>4, <2>5, <2>6 DEF HeldWithinRisk
<1> QED
  BY <1>1, VerdictsStand, PTL

(***************************************************************************)
(* Gains once made are kept, for any rules and any history of marks.       *)
(***************************************************************************)
THEOREM GainsAreKept == Spec => []HeldKeepsGains
<1>1. ASSUME LifeInv PROVE HeldKeepsGains
  <2> SUFFICES ASSUME verdict.reason \in {"hold", "defer"}, verdict.sawPeak, pos.open # 0,
                      NEW a \in StopRules(Held).trailActivate,
                      NEW g \in StopRules(Held).trailGiveback, NEW b \in best,
                      100 * b >= a * Abs(pos.open), b > 0
               PROVE  100 * (b - Pnl) < g * b \/ Pnl = b
    BY DEF HeldKeepsGains
  <2>1. /\ StopRules(Held) \in Rule /\ pos.open \in Int
        /\ Pnl = The(HeldMid) - pos.open /\ The(HeldMid) \in Int
    BY <1>1, Standing
  <2>2. ~Trail(StopRules(Held), Abs(pos.open), Grounds)
    <3>1. verdict.reason = ExitReason(StopRules(Held), Abs(pos.open), Abs(The(HeldMid)),
                                      dte, Grounds)
      BY <1>1 DEF LifeInv, Judged
    <3> QED
      BY <3>1, Verdicts
  <2>3. marks = {b} /\ b >= Pnl /\ b \in Int
    <3>1. \E m \in marks : m >= Pnl
      BY <1>1 DEF LifeInv, Judged
    <3>2. marks \in AtMostOne(Int) /\ b \in marks
      BY <1>1 DEF LifeInv, Shapes
    <3>3. PICK x \in Int : marks = {x}
      BY <3>2, AtMostOneCases
    <3> QED
      BY <3>1, <3>2, <3>3
  <2>4. Grounds.peak = b /\ Grounds.pnl = Pnl
    BY <2>3, OneThing DEF Grounds
  <2>5. Abs(pos.open) > 0
    BY <2>1 DEF Abs, Distance
  <2>6. ~(100 * (b - Pnl) >= g * b /\ b > Pnl)
    BY <2>2, <2>4, <2>5 DEF Trail
  <2>7. g \in Nat /\ Pnl \in Int
    BY <2>1 DEF Rule, Optional
  <2> DEFINE x == 100 * (b - Pnl)
             y == g * b
  <2>8. x \in Int /\ y \in Int
    BY <2>3, <2>7
  <2>9. ~(x >= y /\ b > Pnl)
    BY <2>6
  <2> HIDE DEF x, y
  <2>10. x < y \/ Pnl = b
    BY <2>3, <2>7, <2>8, <2>9
  <2> QED
    BY <2>10 DEF x, y
<1> QED
  BY <1>1, VerdictsStand, PTL

-----------------------------------------------------------------------------
(* The admission and the exits *)

LEMMA ConfigTypes ==
  /\ {Config.premium_sell_min_dte_calm, Config.premium_sell_min_dte_normal,
      Config.premium_sell_min_dte_high_vol, Config.long_debit_min_dte_normal,
      Config.long_debit_min_dte_high_iv, Config.long_debit_min_dte_wide_spread,
      Config.pin_trade_min_dte_normal, Config.pin_trade_min_dte_strong_magnet,
      Config.hedge_min_dte, Config.event_trade_min_dte} \subseteq Nat
  /\ {Config.refuse_when_realized_vol_above, Config.refuse_when_combo_spread_pct_above,
      Config.refuse_when_iv_change_60min_above, Config.recent_news_critical_block_hours,
      Config.recent_news_short_dte_block_hours} \subseteq Nat
  BY PolicyAssumption DEF ConfigFields

(***************************************************************************)
(* The hypothesis on the two files: whatever floor of settings.toml        *)
(* applies to a strategy is above its time stop in strategies.yaml.        *)
(***************************************************************************)
FloorsAboveStops ==
  \A s \in Strategies :
    LET below(floor) == StopRules(s).timeStop < floor
    IN  /\ below(Config.pin_trade_min_dte_normal)
        /\ s \in SellsPremium => /\ below(Config.premium_sell_min_dte_calm)
                                 /\ below(Config.premium_sell_min_dte_normal)
                                 /\ below(Config.premium_sell_min_dte_high_vol)
        /\ s \notin SellsPremium => /\ below(Config.long_debit_min_dte_normal)
                                    /\ below(Config.long_debit_min_dte_high_iv)
                                    /\ below(Config.long_debit_min_dte_wide_spread)

LEMMA AdmittedEarly ==
  ASSUME FloorsAboveStops, NEW s \in Strategies, Admit(s), dte \in Nat
  PROVE  dte > StopRules(s).timeStop
<1>1. PICK median \in AtMostOne(Medians), pin \in BOOLEAN :
        Admits(TradeContext(s, pin), MarketState(s, median))
  BY DEF Admit
<1> DEFINE trade == TradeContext(s, pin)
           market == MarketState(s, median)
<1>2. /\ trade.hedge = FALSE /\ trade.event = FALSE /\ trade.magnet = FALSE
      /\ trade.pin = pin /\ trade.credit = (s \in SellsPremium) /\ market.dte = dte
  BY DEF TradeContext, MarketState
<1> HIDE DEF trade, market
<1>3. MinDte(trade, market) # BlockAll /\ dte >= MinDte(trade, market)
  BY <1>1, <1>2 DEF Admits, trade, market
<1>4. MinDte(trade, market) \in
        {Config.pin_trade_min_dte_normal}
          \cup (IF s \in SellsPremium THEN {SellFloor(market)} ELSE {DebitFloor(market)})
  BY <1>2, <1>3, Zenon DEF MinDte
<1>5. SellFloor(market) \in {Config.premium_sell_min_dte_high_vol + 4,
                             Config.premium_sell_min_dte_high_vol,
                             Config.premium_sell_min_dte_calm,
                             Config.premium_sell_min_dte_normal}
  BY DEF SellFloor
<1>6. DebitFloor(market) \in {Config.long_debit_min_dte_wide_spread,
                              Config.long_debit_min_dte_high_iv,
                              Config.long_debit_min_dte_normal}
  BY DEF DebitFloor
<1>7. StopRules(s).timeStop \in Nat
  BY RulesType DEF Rule
<1>8. StopRules(s).timeStop < MinDte(trade, market)
  <2>1. CASE s \in SellsPremium
    BY <1>4, <1>5, <1>7, <2>1, ConfigTypes DEF FloorsAboveStops
  <2>2. CASE s \notin SellsPremium
    BY <1>4, <1>6, <1>7, <2>2, ConfigTypes DEF FloorsAboveStops
  <2> QED
    BY <2>1, <2>2
<1>9. MinDte(trade, market) \in Nat
  BY <1>4, <1>5, <1>6, ConfigTypes
<1> QED
  BY <1>3, <1>7, <1>8, <1>9

(***************************************************************************)
(* While it is fresh a position is worth what it was opened at.            *)
(***************************************************************************)
FreshKept ==
  fresh => /\ pos.status # "none" /\ HeldMid = {pos.open}
           /\ dte > StopRules(Held).timeStop /\ marks \subseteq {0}

LEMMA FreshStep ==
  ASSUME FloorsAboveStops, LifeInv, FreshKept, [Next]_vars
  PROVE  FreshKept'
<1>1. CASE SnapshotArrives \/ DaysPass
  BY <1>1 DEF SnapshotArrives, DaysPass, FreshKept
<1>2. ASSUME NEW s \in Strategies, Admit(s)
      PROVE  FreshKept'
  <2>1. PICK mid \in ComboMid(Ratio[s], snap.book) :
          pos' = [status |-> "filling", strategy |-> {s}, open |-> mid, entryIv |-> {}]
    BY <1>2 DEF Admit
  <2>2. pos.status = "none" /\ UNCHANGED <<dte, snap, marks>>
    BY <1>2 DEF Admit
  <2>3. marks = {} /\ dte \in Nat
    BY <2>2, LifeAssumption DEF LifeInv, Shapes
  <2>4. Held' = s
    <3>1. pos'.strategy = {s}
      BY <2>1
    <3> QED
      BY <3>1, OneThing DEF Held
  <2>5. ComboMid(Ratio[s], snap.book) = {mid}
    <3>1. snap.book \in [Legs -> AtMostOne(Quotes)]
      BY DEF LifeInv, Shapes, Snapshot
    <3> QED
      BY <2>1, <3>1, ComboMidType, AtMostOneCases
  <2>6. HeldMid' = {pos'.open}
    BY <2>1, <2>2, <2>4, <2>5 DEF HeldMid
  <2>7. dte' > StopRules(Held').timeStop
    BY <1>2, <2>2, <2>3, <2>4, AdmittedEarly
  <2>8. pos'.status # "none" /\ marks' \subseteq {0}
    BY <2>1, <2>2, <2>3
  <2> QED
    BY <2>6, <2>7, <2>8 DEF FreshKept
<1>3. ASSUME UNCHANGED <<dte, snap, fresh>>, pos'.strategy = pos.strategy,
             pos'.open = pos.open, pos.status # "none" => pos'.status # "none",
             fresh => marks' \subseteq {0}
      PROVE  FreshKept'
  <2>1. Held' = Held
    BY <1>3 DEF Held
  <2>2. HeldMid' = HeldMid
    BY <1>3, <2>1 DEF HeldMid
  <2> HIDE DEF Held, HeldMid
  <2> QED
    BY <1>3, <2>1, <2>2 DEF FreshKept
<1>4. CASE Fill \/ Close \/ Reopen
  <2>1. /\ UNCHANGED <<dte, snap, fresh, marks>> /\ pos'.strategy = pos.strategy
        /\ pos'.open = pos.open /\ pos'.status # "none"
    BY <1>4 DEF Fill, Close, Reopen, LifeInv, Shapes, Row
  <2> QED
    BY <1>3, <2>1 DEF FreshKept
<1>5. CASE ManagerTick
  <2>1. /\ UNCHANGED <<dte, snap, fresh>> /\ pos'.strategy = pos.strategy
        /\ pos'.open = pos.open /\ pos'.status # "none"
    <3>1. /\ UNCHANGED <<dte, snap, fresh>> /\ pos.status \in {"open", "closing"}
          /\ pos' = pos \/ \E st \in {"closing", pos.status} : pos' = [pos EXCEPT !.status = st]
      BY <1>5 DEF ManagerTick, Watched
    <3> QED
      BY <3>1 DEF LifeInv, Shapes, Row
  <2>2. ASSUME fresh
        PROVE  marks' \subseteq {0}
    <3>1. PICK m \in Int : marks' = {m} /\ (m = Pnl \/ m \in marks)
      BY <1>5, TickMarks
    <3>2. HeldMid = {pos.open} /\ marks \subseteq {0}
      BY <2>2 DEF FreshKept
    <3>3. Pnl = 0
      <4>1. pos.open \in Int
        BY DEF LifeInv, Shapes, Row
      <4>2. The(HeldMid) = pos.open
        BY <3>2, OneThing
      <4> QED
        BY <4>1, <4>2 DEF Pnl
    <3> QED
      BY <3>1, <3>2, <3>3
  <2> QED
    BY <1>3, <2>1, <2>2
<1>6. CASE UNCHANGED vars
  BY <1>6 DEF vars, FreshKept, HeldMid, Held
<1> QED
  BY <1>1, <1>2, <1>4, <1>5, <1>6 DEF Next

LEMMA NoMove ==
  ASSUME NEW rules \in Rule, rules.target > 0, rules.stop > 0, NEW x \in Int, x > 0
  PROVE  ~Target(rules, x, x) /\ ~Stop(rules, x, x)
<1> DEFINE p == rules.target
           q == rules.stop
<1>1. p \in Nat /\ q \in Nat /\ p > 0 /\ q > 0
  BY DEF Rule
<1> HIDE DEF p, q
<1>2. /\ x * (100 - p) < 100 * x /\ x * (100 + p) > 100 * x
      /\ x * (100 - q) < 100 * x /\ x * (100 + q) > 100 * x
  <2>1. /\ x * (100 - p) = 100 * x - p * x /\ x * (100 + p) = 100 * x + p * x
        /\ p * x \in Int /\ p * x > 0
    BY <1>1, Products
  <2>2. /\ x * (100 - q) = 100 * x - q * x /\ x * (100 + q) = 100 * x + q * x
        /\ q * x \in Int /\ q * x > 0
    BY <1>1, Products
  <2> QED
    BY <2>1, <2>2
<1>3. /\ x * (100 - p) \in Int /\ x * (100 + p) \in Int
      /\ x * (100 - q) \in Int /\ x * (100 + q) \in Int
  BY <1>1
<1>4. /\ ~(100 * x <= x * (100 - p)) /\ ~(100 * x >= x * (100 + p))
      /\ ~(100 * x <= x * (100 - q)) /\ ~(100 * x >= x * (100 + q))
  BY <1>2, <1>3
<1> QED
  BY <1>4 DEF p, q, Target, Stop

(***************************************************************************)
(* A position just opened is not sent back by the next tick, for any rules *)
(* that bite and any floors above the time stops: the agreement of the two *)
(* files that the code leaves to whoever writes them.                      *)
(***************************************************************************)
THEOREM FreshIsKept == RulesBite /\ FloorsAboveStops => (Spec => []FreshNotExited)
<1> SUFFICES ASSUME RulesBite, FloorsAboveStops PROVE Spec => []FreshNotExited
  OBVIOUS
<1>1. Init => LifeInv /\ FreshKept
  BY InitInv DEF Init, FreshKept
<1>2. LifeInv /\ FreshKept /\ [Next]_vars => (LifeInv /\ FreshKept)'
  BY LifeStep, FreshStep
<1>3. ASSUME LifeInv, FreshKept PROVE FreshNotExited
  <2> SUFFICES ASSUME fresh, pos.open # 0, verdict.reason # "none"
               PROVE  verdict.reason \in {"hold", "defer", "strike_tested"}
    BY DEF FreshNotExited, ShouldExit
  <2> DEFINE rules == StopRules(Held)
             x == Abs(pos.open)
  <2>1. /\ rules \in Rule /\ rules.target > 0 /\ rules.stop > 0 /\ pos.open \in Int
    BY <1>3, Standing DEF RulesBite
  <2>2. The(HeldMid) = pos.open /\ dte > rules.timeStop /\ marks \subseteq {0}
    BY <1>3, OneThing DEF FreshKept
  <2>3. Pnl = 0
    BY <2>1, <2>2 DEF Pnl
  <2>4. x \in Int /\ x > 0
    BY <2>1 DEF Abs, Distance
  <2>5. verdict.reason = ExitReason(rules, x, x, dte, Grounds)
    BY <1>3, <2>2 DEF LifeInv, Judged
  <2>6. Grounds.pnl = 0 /\ Grounds.peak = 0
    <3>1. \E m \in marks : m >= Pnl
      BY <1>3 DEF LifeInv, Judged
    <3>2. marks = {0}
      BY <2>2, <3>1
    <3> QED
      BY <2>3, <3>2, OneThing DEF Grounds
  <2>7. ~VolCrush(rules, Grounds) /\ ~Trail(rules, x, Grounds)
    BY <2>6 DEF VolCrush, Trail
  <2>8. ~TimeStop(rules, dte)
    <3>1. dte \in Nat /\ rules.timeStop \in Nat
      BY <1>3, <2>1, LifeAssumption DEF LifeInv, Shapes, Rule
    <3> HIDE DEF rules
    <3> QED
      BY <2>2, <3>1 DEF TimeStop
  <2> HIDE DEF rules, x
  <2>9. ~Target(rules, x, x) /\ ~Stop(rules, x, x)
    BY <2>1, <2>4, NoMove
  <2>10. verdict.reason \in Reasons
    BY <1>3 DEF LifeInv, Shapes
  <2> QED
    BY <2>5, <2>7, <2>8, <2>9, <2>10, Verdicts DEF Reasons
<1> QED
  BY <1>1, <1>2, <1>3, PTL DEF Spec

-----------------------------------------------------------------------------
(* The policy *)

(***************************************************************************)
(* The hypothesis on settings.toml: the floor of a worse case is no lower. *)
(***************************************************************************)
FloorsRise ==
  /\ Config.premium_sell_min_dte_calm <= Config.premium_sell_min_dte_normal
  /\ Config.premium_sell_min_dte_normal <= Config.premium_sell_min_dte_high_vol
  /\ Config.long_debit_min_dte_normal <= Config.long_debit_min_dte_high_iv
  /\ Config.long_debit_min_dte_high_iv <= Config.long_debit_min_dte_wide_spread
  /\ Config.premium_sell_min_dte_high_vol + 4 <= BlockAll
  /\ \A f \in {"long_debit_min_dte_wide_spread", "pin_trade_min_dte_normal",
              "pin_trade_min_dte_strong_magnet", "hedge_min_dte", "event_trade_min_dte"} :
       Config[f] <= BlockAll

LEMMA FloorTypes ==
  ASSUME FloorsRise, NEW m
  PROVE  /\ SellFloor(m) \in Nat /\ SellFloor(m) <= BlockAll
         /\ DebitFloor(m) \in Nat /\ DebitFloor(m) <= BlockAll
<1>1. SellFloor(m) \in {Config.premium_sell_min_dte_high_vol + 4,
                        Config.premium_sell_min_dte_high_vol,
                        Config.premium_sell_min_dte_calm,
                        Config.premium_sell_min_dte_normal}
  BY DEF SellFloor
<1>2. DebitFloor(m) \in {Config.long_debit_min_dte_wide_spread,
                         Config.long_debit_min_dte_high_iv,
                         Config.long_debit_min_dte_normal}
  BY DEF DebitFloor
<1> QED
  BY <1>1, <1>2, ConfigTypes DEF FloorsRise, BlockAll

LEMMA PolicyRises ==
  ASSUME FloorsRise, NEW t \in AllTrades, NEW m, NEW n, HardNo(m) => HardNo(n),
         SellFloor(m) <= SellFloor(n), DebitFloor(m) <= DebitFloor(n)
  PROVE  MinDte(t, m) <= MinDte(t, n)
<1>1. /\ SellFloor(m) \in Nat /\ SellFloor(m) <= BlockAll
      /\ DebitFloor(m) \in Nat /\ DebitFloor(m) <= BlockAll
  BY FloorTypes
<1>2. /\ Config.hedge_min_dte <= BlockAll /\ Config.event_trade_min_dte <= BlockAll
      /\ Config.pin_trade_min_dte_normal <= BlockAll
      /\ Config.pin_trade_min_dte_strong_magnet <= BlockAll
  BY DEF FloorsRise
<1> DEFINE floor(market) ==
             IF t.hedge THEN IF t.size > Config.hedge_max_pct_of_book
                               THEN BlockAll ELSE Config.hedge_min_dte
             ELSE IF t.event THEN Config.event_trade_min_dte
             ELSE IF t.pin THEN IF t.magnet THEN Config.pin_trade_min_dte_strong_magnet
                                            ELSE Config.pin_trade_min_dte_normal
             ELSE IF t.credit THEN SellFloor(market)
             ELSE DebitFloor(market)
<1>3. floor(m) <= floor(n) /\ floor(m) <= BlockAll
  <2>1. /\ BlockAll <= BlockAll
        /\ Config.hedge_min_dte <= Config.hedge_min_dte
        /\ Config.event_trade_min_dte <= Config.event_trade_min_dte
        /\ Config.pin_trade_min_dte_normal <= Config.pin_trade_min_dte_normal
        /\ Config.pin_trade_min_dte_strong_magnet <= Config.pin_trade_min_dte_strong_magnet
    BY ConfigTypes DEF BlockAll
  <2> QED
    BY <1>1, <1>2, <2>1, Zenon
<1>4. /\ MinDte(t, m) = IF HardNo(m) THEN BlockAll ELSE floor(m)
      /\ MinDte(t, n) = IF HardNo(n) THEN BlockAll ELSE floor(n)
  BY DEF MinDte
<1>5. BlockAll <= BlockAll
  BY DEF BlockAll
<1> HIDE DEF floor
<1> QED
  BY <1>3, <1>4, <1>5, Zenon

LEMMA WiderCombo ==
  ASSUME FloorsRise, NEW m \in AllMarkets, NEW s \in {5, 15, 30}, The(m.spread) <= s
  PROVE  LET n == [m EXCEPT !.spread = {s}]
         IN  /\ HardNo(m) => HardNo(n)
             /\ SellFloor(m) <= SellFloor(n) /\ DebitFloor(m) <= DebitFloor(n)
<1> DEFINE n == [m EXCEPT !.spread = {s}]
<1>1. PICK r \in {5, 15, 30} : m.spread = {r}
  BY DEF AllMarkets
<1>2. r <= s
  BY <1>1, OneThing
<1>3. /\ n.spread = {s} /\ n.iv = m.iv /\ n.rv = m.rv /\ n.ivChange = m.ivChange
      /\ n.news = m.news /\ n.fast = m.fast /\ n.dte = m.dte
  BY DEF AllMarkets
<1> HIDE DEF n
<1>4. \A c \in Nat : r > c => s > c
  BY <1>2
<1>5. HardNo(m) => HardNo(n)
  BY <1>1, <1>3, <1>4, ConfigTypes DEF HardNo
<1>6. SellFloor(n) = SellFloor(m)
  BY <1>3 DEF SellFloor
<1>7. DebitFloor(m) <= DebitFloor(n)
  <2>1. r > 10 => s > 10
    BY <1>4
  <2> QED
    BY <1>1, <1>3, <2>1, ConfigTypes DEF DebitFloor, FloorsRise
<1>8. SellFloor(m) <= SellFloor(n)
  BY <1>6, FloorTypes
<1> QED
  BY <1>5, <1>7, <1>8 DEF n

LEMMA WilderMarket ==
  ASSUME FloorsRise, NEW m \in AllMarkets, NEW v \in Nat, The(m.rv) <= v,
         NEW n, n = [m EXCEPT !.rv = {v}]
  PROVE  /\ HardNo(m) => HardNo(n)
         /\ SellFloor(m) <= SellFloor(n) /\ DebitFloor(m) <= DebitFloor(n)
<1>1. PICK r \in {30, 40, 60, 110} : m.rv = {r}
  BY DEF AllMarkets
<1>2. r <= v
  <2>1. The(m.rv) = r
    BY <1>1, OneThing
  <2> QED
    BY <2>1
<1>3. /\ n.rv = {v} /\ n.iv = m.iv /\ n.spread = m.spread /\ n.ivChange = m.ivChange
      /\ n.news = m.news /\ n.fast = m.fast /\ n.dte = m.dte
  BY DEF AllMarkets
<1>4. \A c \in Nat : (r > c => v > c) /\ (v < c => r < c)
  BY <1>2
<1>5. HardNo(m) => HardNo(n)
  BY <1>1, <1>3, <1>4, ConfigTypes DEF HardNo
<1>6. DebitFloor(n) = DebitFloor(m)
  BY <1>3 DEF DebitFloor
<1>7. SellFloor(m) <= SellFloor(n)
  <2>1. (r > 50 => v > 50) /\ (v < 35 => r < 35) /\ ~(v < 35 /\ v > 50)
    BY <1>4
  <2> DEFINE newsy == \E h \in m.news : h <= Config.recent_news_short_dte_block_hours
             high == \E i \in m.iv : i > 80
             raised == \E i \in m.iv : i > 50
  <2>2. high => raised
    BY DEF AllMarkets
  <2>3. /\ SellFloor(m) =
             IF newsy THEN Config.premium_sell_min_dte_high_vol + 4
             ELSE IF high /\ r > 50 THEN Config.premium_sell_min_dte_high_vol
             ELSE IF raised /\ r < 35 THEN Config.premium_sell_min_dte_calm
             ELSE Config.premium_sell_min_dte_normal
        /\ SellFloor(n) =
             IF newsy THEN Config.premium_sell_min_dte_high_vol + 4
             ELSE IF high /\ v > 50 THEN Config.premium_sell_min_dte_high_vol
             ELSE IF raised /\ v < 35 THEN Config.premium_sell_min_dte_calm
             ELSE Config.premium_sell_min_dte_normal
    BY <1>1, <1>3 DEF SellFloor
  <2> HIDE DEF newsy, high, raised
  <2> QED
    BY <2>1, <2>3, ConfigTypes DEF FloorsRise
<1>8. DebitFloor(m) <= DebitFloor(n)
  BY <1>6, FloorTypes
<1> QED
  BY <1>5, <1>7, <1>8

LEMMA NewerNews ==
  ASSUME FloorsRise, NEW m \in AllMarkets, NEW h \in {30, 20, 1}, \A k \in m.news : h <= k
  PROVE  LET n == [m EXCEPT !.news = {h}]
         IN  /\ HardNo(m) => HardNo(n)
             /\ SellFloor(m) <= SellFloor(n) /\ DebitFloor(m) <= DebitFloor(n)
<1> DEFINE n == [m EXCEPT !.news = {h}]
<1>1. m.news \subseteq {30, 20, 1}
  BY DEF AllMarkets
<1>2. /\ n.news = {h} /\ n.iv = m.iv /\ n.spread = m.spread /\ n.ivChange = m.ivChange
      /\ n.rv = m.rv /\ n.fast = m.fast /\ n.dte = m.dte
  BY DEF AllMarkets
<1> HIDE DEF n
<1>3. \A c \in Nat : (\E k \in m.news : k <= c) => h <= c
  BY <1>1
<1>4. HardNo(m) => HardNo(n)
  BY <1>2, <1>3, ConfigTypes DEF HardNo
<1>5. DebitFloor(n) = DebitFloor(m)
  BY <1>2 DEF DebitFloor
<1>6. SellFloor(m) <= SellFloor(n)
  <2>1. (\E k \in m.news : k <= Config.recent_news_short_dte_block_hours)
          => h <= Config.recent_news_short_dte_block_hours
    BY <1>3, ConfigTypes
  <2>2. CASE h <= Config.recent_news_short_dte_block_hours
    <3>1. SellFloor(n) = Config.premium_sell_min_dte_high_vol + 4
      BY <1>2, <2>2 DEF SellFloor
    <3>2. SellFloor(m) \in {Config.premium_sell_min_dte_high_vol + 4,
                            Config.premium_sell_min_dte_high_vol,
                            Config.premium_sell_min_dte_calm,
                            Config.premium_sell_min_dte_normal}
      BY DEF SellFloor
    <3> QED
      BY <3>1, <3>2, ConfigTypes DEF FloorsRise
  <2>3. CASE ~(h <= Config.recent_news_short_dte_block_hours)
    <3>1. SellFloor(m) = SellFloor(n)
      BY <1>2, <2>1, <2>3 DEF SellFloor
    <3> QED
      BY <3>1, FloorTypes
  <2> QED
    BY <2>2, <2>3
<1>7. DebitFloor(m) <= DebitFloor(n)
  BY <1>5, FloorTypes
<1> QED
  BY <1>4, <1>6, <1>7 DEF n

LEMMA HardOnly ==
  ASSUME FloorsRise, NEW m \in AllMarkets, NEW n,
         n = [m EXCEPT !.fast = TRUE]
           \/ (The(m.ivChange) = 0 /\ n = [m EXCEPT !.ivChange = {-4}])
  PROVE  /\ HardNo(m) => HardNo(n)
         /\ SellFloor(m) <= SellFloor(n) /\ DebitFloor(m) <= DebitFloor(n)
<1>1. /\ n.iv = m.iv /\ n.spread = m.spread /\ n.news = m.news
      /\ n.rv = m.rv /\ n.dte = m.dte
  BY DEF AllMarkets
<1>2. HardNo(m) => HardNo(n)
  <2>1. CASE n = [m EXCEPT !.fast = TRUE]
    <3>1. n.fast
      BY <2>1 DEF AllMarkets
    <3> QED
      BY <3>1 DEF HardNo
  <2>2. CASE The(m.ivChange) = 0 /\ n = [m EXCEPT !.ivChange = {-4}]
    <3>1. n.fast = m.fast
      BY <2>2 DEF AllMarkets
    <3>2. PICK c \in {0, -4} : m.ivChange = {c}
      BY DEF AllMarkets
    <3>3. m.ivChange = {0}
      BY <2>2, <3>2, OneThing
    <3>4. ~ \E d \in m.ivChange : \/ d > Config.refuse_when_iv_change_60min_above
                                  \/ -d > Config.refuse_when_iv_change_60min_above
      BY <3>3, ConfigTypes
    <3> QED
      BY <1>1, <3>1, <3>4 DEF HardNo
  <2> QED
    BY <2>1, <2>2
<1>3. SellFloor(n) = SellFloor(m) /\ DebitFloor(n) = DebitFloor(m)
  BY <1>1 DEF SellFloor, DebitFloor
<1> QED
  BY <1>2, <1>3, FloorTypes

(***************************************************************************)
(* A worse market never lets a trade closer to expiry, for any floors that *)
(* rise with the case and any limits.                                      *)
(***************************************************************************)
THEOREM PolicyIsMonotone == FloorsRise => (Spec => []AdverseNeverHelps)
<1> SUFFICES ASSUME FloorsRise PROVE Spec => []AdverseNeverHelps
  OBVIOUS
<1>1. AdverseNeverHelps
  <2> SUFFICES ASSUME NEW t \in AllTrades, NEW m \in AllMarkets
               PROVE
      /\ \A v \in {30, 40, 60, 110} :
           The(m.rv) <= v => MinDte(t, m) <= MinDte(t, [m EXCEPT !.rv = {v}])
      /\ \A s \in {5, 15, 30} :
           The(m.spread) <= s => MinDte(t, m) <= MinDte(t, [m EXCEPT !.spread = {s}])
      /\ \A h \in {30, 20, 1} :
           (\A k \in m.news : h <= k) => MinDte(t, m) <= MinDte(t, [m EXCEPT !.news = {h}])
      /\ MinDte(t, m) <= MinDte(t, [m EXCEPT !.fast = TRUE])
      /\ The(m.ivChange) = 0 => MinDte(t, m) <= MinDte(t, [m EXCEPT !.ivChange = {-4}])
    BY DEF AdverseNeverHelps
  <2>1. ASSUME NEW v \in {30, 40, 60, 110}, The(m.rv) <= v
        PROVE  MinDte(t, m) <= MinDte(t, [m EXCEPT !.rv = {v}])
    <3> DEFINE n == [m EXCEPT !.rv = {v}]
    <3>1. /\ HardNo(m) => HardNo(n)
          /\ SellFloor(m) <= SellFloor(n) /\ DebitFloor(m) <= DebitFloor(n)
      <4>1. v \in Nat /\ n = [m EXCEPT !.rv = {v}]
        OBVIOUS
      <4> HIDE DEF n
      <4> QED
        BY <2>1, <4>1, WilderMarket
    <3> HIDE DEF n
    <3>2. MinDte(t, m) <= MinDte(t, n)
      BY <3>1, PolicyRises
    <3> QED
      BY <3>2 DEF n
  <2>2. ASSUME NEW s \in {5, 15, 30}, The(m.spread) <= s
        PROVE  MinDte(t, m) <= MinDte(t, [m EXCEPT !.spread = {s}])
    <3> DEFINE n == [m EXCEPT !.spread = {s}]
    <3>1. /\ HardNo(m) => HardNo(n)
          /\ SellFloor(m) <= SellFloor(n) /\ DebitFloor(m) <= DebitFloor(n)
      BY <2>2, WiderCombo
    <3> HIDE DEF n
    <3>2. MinDte(t, m) <= MinDte(t, n)
      BY <3>1, PolicyRises
    <3> QED
      BY <3>2 DEF n
  <2>3. ASSUME NEW h \in {30, 20, 1}, \A k \in m.news : h <= k
        PROVE  MinDte(t, m) <= MinDte(t, [m EXCEPT !.news = {h}])
    <3> DEFINE n == [m EXCEPT !.news = {h}]
    <3>1. /\ HardNo(m) => HardNo(n)
          /\ SellFloor(m) <= SellFloor(n) /\ DebitFloor(m) <= DebitFloor(n)
      BY <2>3, NewerNews
    <3> HIDE DEF n
    <3>2. MinDte(t, m) <= MinDte(t, n)
      BY <3>1, PolicyRises
    <3> QED
      BY <3>2 DEF n
  <2>4. MinDte(t, m) <= MinDte(t, [m EXCEPT !.fast = TRUE])
    <3> DEFINE n == [m EXCEPT !.fast = TRUE]
    <3>1. /\ HardNo(m) => HardNo(n)
          /\ SellFloor(m) <= SellFloor(n) /\ DebitFloor(m) <= DebitFloor(n)
      BY HardOnly
    <3> HIDE DEF n
    <3>2. MinDte(t, m) <= MinDte(t, n)
      BY <3>1, PolicyRises
    <3> QED
      BY <3>2 DEF n
  <2>5. ASSUME The(m.ivChange) = 0
        PROVE  MinDte(t, m) <= MinDte(t, [m EXCEPT !.ivChange = {-4}])
    <3> DEFINE n == [m EXCEPT !.ivChange = {-4}]
    <3>1. /\ HardNo(m) => HardNo(n)
          /\ SellFloor(m) <= SellFloor(n) /\ DebitFloor(m) <= DebitFloor(n)
      BY <2>5, HardOnly
    <3> HIDE DEF n
    <3>2. MinDte(t, m) <= MinDte(t, n)
      BY <3>1, PolicyRises
    <3> QED
      BY <3>2 DEF n
  <2> QED
    BY <2>1, <2>2, <2>3, <2>4, <2>5
<1> QED
  BY <1>1, PTL

=============================================================================
