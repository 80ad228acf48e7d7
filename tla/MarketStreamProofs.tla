------------------------- MODULE MarketStreamProofs -------------------------
(***************************************************************************)
(* Theorems about MarketStream: the four stores of subscriptions agree     *)
(* with each other, with the window and with IB, for any listed futures,   *)
(* strikes and limits, whatever answer is late or missing.                 *)
(***************************************************************************)
EXTENDS MarketStream, FiniteSetTheorems, TLAPS

FutIds == {futSub[f] : f \in DOMAIN futSub}
FopIds == {fopSub[o] : o \in DOMAIN fopSub}

(***************************************************************************)
(* Shapes of the variables.                                                *)
(***************************************************************************)
Subs ==
  /\ nextId \in Nat
  /\ DOMAIN futSub \subseteq Futures /\ DOMAIN fopSub \subseteq Options
  /\ futSub \in [DOMAIN futSub -> 1 .. nextId]
  /\ fopSub \in [DOMAIN fopSub -> 1 .. nextId]
  /\ quotes \in [DOMAIN quotes -> Futures]

Shapes ==
  /\ Subs
  /\ clock \in [day : 0 .. LastDay, late : BOOLEAN]
  /\ connected \in BOOLEAN
  /\ inflight \in [Futures -> {"none", "asked", "given"}]
  /\ optParams \in Seq(Futures)
  /\ optDone \in BOOLEAN
  /\ stream \in [pc : {"idle", "discover", "subscribe"} \cup Futures,
                 next : Window, todo : SUBSET Futures]
  /\ window \in Window
  /\ held \subseteq Futures
  /\ outages \in [disconnects : 0 .. MaxDisconnects, restarts : 0 .. MaxRestarts]

(***************************************************************************)
(* No id is used twice, and those in use are the ones with a quote.  IB    *)
(* sends data for no others, and for all of them until it hangs up.        *)
(***************************************************************************)
Distinct ==
  /\ \A f, g \in DOMAIN futSub : futSub[f] = futSub[g] => f = g
  /\ \A o, p \in DOMAIN fopSub : fopSub[o] = fopSub[p] => o = p
  /\ \A f \in DOMAIN futSub, o \in DOMAIN fopSub : futSub[f] # fopSub[o]

Quoted == DOMAIN quotes = FutIds \cup FopIds

Sent ==
  /\ lines \subseteq DOMAIN quotes
  /\ connected /\ outages.disconnects = 0 => lines = DOMAIN quotes

(***************************************************************************)
(* What is subscribed while a window is being built: the part of it that   *)
(* is done.                                                                *)
(***************************************************************************)
Done == stream.next.tradeable \ stream.todo

Followed ==
  /\ stream.pc \in {"idle", "discover"} => DOMAIN futSub = window.tradeable
  /\ stream.pc = "subscribe" => DOMAIN futSub = Done
  /\ stream.pc \in Futures => stream.pc \in stream.todo /\ DOMAIN futSub = Done \cup {stream.pc}
  /\ stream.todo \subseteq stream.next.tradeable

(***************************************************************************)
(* A window has at most MonthsAhead futures.  Options leave room for the   *)
(* future for whose sake they were subscribed.                             *)
(***************************************************************************)
Counted ==
  /\ Cardinality(window.tradeable) <= MonthsAhead
  /\ Cardinality(stream.next.tradeable) <= MonthsAhead
  /\ Cardinality(DOMAIN fopSub) <= MaxLines - 1

StreamInv ==
  Shapes /\ Distinct /\ Quoted /\ Sent /\ OptionsFollowFutures /\ Followed /\ Counted

-----------------------------------------------------------------------------
(* Counting *)

LEMMA Constants ==
  /\ IsFiniteSet(Futures) /\ IsFiniteSet(Strikes) /\ IsFiniteSet(Options)
  /\ Strikes \subseteq Nat /\ Expiry \in [Futures -> Nat]
  /\ MonthsAhead \in Nat \ {0} /\ MaxLines \in Nat \ {0}
  /\ LastDay \in Nat /\ MaxDisconnects \in Nat /\ MaxRestarts \in Nat
  /\ "idle" \notin Futures /\ "discover" \notin Futures /\ "subscribe" \notin Futures
<1>1. IsFiniteSet(Futures) /\ IsFiniteSet(Strikes)
  BY StreamAssumption
<1>2. IsFiniteSet(Options)
  BY <1>1, FS_Product DEF Options
<1> QED
  BY <1>1, <1>2, StreamAssumption

(***************************************************************************)
(* Where an element comes in a finite set that a key orders.               *)
(***************************************************************************)
LEMMA Ranks ==
  ASSUME NEW S, IsFiniteSet(S), NEW k \in [S -> Int],
         \A x, y \in S : k[x] = k[y] => x = y
  PROVE  /\ \A x \in S : Cardinality({z \in S : k[z] < k[x]}) \in 0 .. Cardinality(S) - 1
         /\ \A x, y \in S :
              Cardinality({z \in S : k[z] < k[x]}) = Cardinality({z \in S : k[z] < k[y]})
                => x = y
<1> DEFINE lower(x) == {z \in S : k[z] < k[x]}
<1>1. ASSUME NEW x \in S
      PROVE  IsFiniteSet(lower(x)) /\ Cardinality(lower(x)) \in 0 .. Cardinality(S) - 1
  <2>1. x \notin lower(x) /\ lower(x) \subseteq S
    OBVIOUS
  <2> HIDE DEF lower
  <2>2. IsFiniteSet(lower(x)) /\ Cardinality(lower(x)) <= Cardinality(S)
    BY <2>1, FS_Subset
  <2>3. Cardinality(S) # Cardinality(lower(x))
    BY <2>1, FS_Subset
  <2>4. Cardinality(S) \in Nat /\ Cardinality(lower(x)) \in Nat
    BY <2>2, FS_CardinalityType
  <2> QED
    BY <2>2, <2>3, <2>4
<1>2. ASSUME NEW x \in S, NEW y \in S, k[x] < k[y]
      PROVE  Cardinality(lower(x)) # Cardinality(lower(y))
  <2>1. x \in lower(y) /\ x \notin lower(x) /\ lower(x) \subseteq lower(y)
    BY <1>2
  <2>2. IsFiniteSet(lower(y))
    BY <1>1
  <2> HIDE DEF lower
  <2> QED
    BY <2>1, <2>2, FS_Subset
<1>3. ASSUME NEW x \in S, NEW y \in S, x # y
      PROVE  k[x] < k[y] \/ k[y] < k[x]
  BY <1>3
<1>4. \A x, y \in S : Cardinality(lower(x)) = Cardinality(lower(y)) => x = y
  <2> HIDE DEF lower
  <2> QED
    BY <1>2, <1>3
<1> QED
  BY <1>1, <1>4

LEMMA FewBelow ==
  ASSUME NEW T, NEW n \in Nat, NEW k \in [T -> 0 .. n - 1],
         \A x, y \in T : k[x] = k[y] => x = y
  PROVE  IsFiniteSet(T) /\ Cardinality(T) <= n
<1>1. k \in Injection(T, 0 .. n - 1)
  BY DEF Injection, IsInjective
<1>2. IsFiniteSet(0 .. n - 1) /\ Cardinality(0 .. n - 1) = n
  BY FS_Interval
<1> QED
  BY <1>1, <1>2, FS_Injection

(***************************************************************************)
(* compute_active_window takes the next MonthsAhead futures.               *)
(***************************************************************************)
LEMMA TradeableFew ==
  ASSUME Shapes
  PROVE  /\ Tradeable \subseteq Futures
         /\ Cardinality(Tradeable) <= MonthsAhead
<1> DEFINE day(f) == Expiry[f]
           k == [f \in Eligible |-> Expiry[f]]
           rank == [f \in Tradeable |-> Cardinality({g \in Eligible : k[g] < k[f]})]
<1>1. Eligible \subseteq Futures /\ Tradeable \subseteq Eligible
  BY DEF Eligible, Tradeable
<1>2. IsFiniteSet(Eligible)
  BY <1>1, Constants, FS_Subset
<1>3. /\ k \in [Eligible -> Int]
      /\ \A x, y \in Eligible : k[x] = k[y] => x = y
  BY <1>1, StreamAssumption
<1>4. \A f, g \in Eligible : k[g] < k[f] <=> Expiry[g] < Expiry[f]
  OBVIOUS
<1> HIDE DEF k
<1>5. /\ \A x \in Eligible : Cardinality({z \in Eligible : k[z] < k[x]}) \in Nat
      /\ \A x, y \in Eligible :
           Cardinality({z \in Eligible : k[z] < k[x]}) = Cardinality({z \in Eligible : k[z] < k[y]})
             => x = y
  <2>1. Cardinality(Eligible) \in Nat
    BY <1>2, FS_CardinalityType
  <2> QED
    BY <1>2, <1>3, <2>1, Ranks
<1>6. \A f \in Tradeable : Cardinality({g \in Eligible : k[g] < k[f]}) < MonthsAhead
  <2> SUFFICES ASSUME NEW f \in Tradeable
               PROVE  Cardinality({g \in Eligible : k[g] < k[f]}) < MonthsAhead
    OBVIOUS
  <2>1. {g \in Eligible : k[g] < k[f]} = {g \in Eligible : Expiry[g] < Expiry[f]}
    BY <1>1, <1>4
  <2>2. Cardinality({g \in Eligible : Expiry[g] < Expiry[f]}) < MonthsAhead
    BY DEF Tradeable
  <2> QED
    BY <2>1, <2>2
<1>7. /\ rank \in [Tradeable -> 0 .. MonthsAhead - 1]
      /\ \A f, g \in Tradeable : rank[f] = rank[g] => f = g
  BY <1>1, <1>5, <1>6, Constants
<1>8. Cardinality(Tradeable) <= MonthsAhead
  <2> HIDE DEF rank
  <2> QED
    BY <1>7, Constants, FewBelow
<1> QED
  BY <1>1, <1>8

-----------------------------------------------------------------------------
(* The list of options *)

LEMMA BelowRanks ==
  ASSUME NEW S \in SUBSET Strikes
  PROVE  /\ IsFiniteSet(S) /\ Cardinality(S) \in Nat
         /\ \A s \in S : Below(s, S) \in 0 .. Cardinality(S) - 1
         /\ \A s, t \in S : Below(s, S) = Below(t, S) => s = t
<1> DEFINE k == [s \in S |-> s]
<1>1. IsFiniteSet(S)
  BY Constants, FS_Subset
<1>2. k \in [S -> Int] /\ \A x, y \in S : k[x] = k[y] => x = y
  BY Constants
<1>3. \A s \in S : {z \in S : k[z] < k[s]} = {t \in S : t < s}
  OBVIOUS
<1> HIDE DEF k
<1>4. Cardinality(S) \in Nat
  BY <1>1, FS_CardinalityType
<1>5. \A s \in S : Cardinality({z \in S : k[z] < k[s]}) = Below(s, S)
  BY <1>3 DEF Below
<1>6. /\ \A s \in S : Cardinality({z \in S : k[z] < k[s]}) \in 0 .. Cardinality(S) - 1
      /\ \A s, t \in S :
           Cardinality({z \in S : k[z] < k[s]}) = Cardinality({z \in S : k[z] < k[t]}) => s = t
  BY <1>1, <1>2, Ranks
<1> QED
  BY <1>1, <1>4, <1>5, <1>6

LEMMA SamePlace ==
  ASSUME NEW n \in Nat, NEW d \in Nat, NEW e \in Nat, NEW b \in 0 .. n - 1, NEW c \in 0 .. n - 1,
         d * n + b = e * n + c
  PROVE  d = e /\ b = c
<1>1. ~(d < e)
  <2> SUFFICES ASSUME d < e PROVE FALSE
    OBVIOUS
  <2>1. PICK m \in Nat : e = d + 1 + m
    <3>1. e - d - 1 \in Nat
      OBVIOUS
    <3> QED
      BY <3>1
  <2>2. e * n = d * n + n + m * n
    BY <2>1
  <2>3. m * n \in Nat /\ d * n \in Nat
    OBVIOUS
  <2> QED
    BY <2>2, <2>3
<1>2. ~(e < d)
  <2> SUFFICES ASSUME e < d PROVE FALSE
    OBVIOUS
  <2>1. PICK m \in Nat : d = e + 1 + m
    <3>1. d - e - 1 \in Nat
      OBVIOUS
    <3> QED
      BY <3>1
  <2>2. d * n = e * n + n + m * n
    BY <2>1
  <2>3. m * n \in Nat /\ e * n \in Nat
    OBVIOUS
  <2> QED
    BY <2>2, <2>3
<1>3. d = e
  BY <1>1, <1>2
<1> QED
  BY <1>3

(***************************************************************************)
(* No two options of the list have the same place in it.                   *)
(***************************************************************************)
LEMMA PlacesDistinct ==
  ASSUME Shapes, NEW near \in SUBSET Strikes
  PROVE  /\ \A o \in ToSet(optParams) \X near : Before(o, near) \in Nat
         /\ \A o, x \in ToSet(optParams) \X near : Before(o, near) = Before(x, near) => o = x
<1>1. \A f \in ToSet(optParams) : Entry(f) \in DOMAIN optParams /\ optParams[Entry(f)] = f
  BY DEF ToSet, Entry
<1>2. \A f \in ToSet(optParams) : Entry(f) - 1 \in Nat
  <2>1. DOMAIN optParams \subseteq Nat \ {0}
    BY DEF Shapes
  <2> QED
    BY <1>1, <2>1
<1>3. ASSUME NEW o \in ToSet(optParams) \X near
      PROVE  /\ o[1] \in ToSet(optParams) /\ o[2] \in near /\ o = <<o[1], o[2]>>
             /\ Below(o[2], near) \in 0 .. Cardinality(near) - 1
  BY BelowRanks
<1>4. Cardinality(near) \in Nat
  BY BelowRanks
<1>5. ASSUME NEW o \in ToSet(optParams) \X near
      PROVE  Before(o, near) \in Nat
  <2>1. /\ Entry(o[1]) - 1 \in Nat /\ Below(o[2], near) \in Nat
    BY <1>2, <1>3, <1>4
  <2> QED
    BY <1>4, <2>1 DEF Before
<1>6. ASSUME NEW o \in ToSet(optParams) \X near, NEW x \in ToSet(optParams) \X near,
             Before(o, near) = Before(x, near)
      PROVE  o = x
  <2> DEFINE n == Cardinality(near)
             d == Entry(o[1]) - 1  b == Below(o[2], near)
             e == Entry(x[1]) - 1  c == Below(x[2], near)
  <2>1. /\ n \in Nat /\ d \in Nat /\ e \in Nat /\ b \in 0 .. n - 1 /\ c \in 0 .. n - 1
        /\ d * n + b = e * n + c
    BY <1>2, <1>3, <1>4, <1>6 DEF Before
  <2>2. d = e /\ b = c
    <3> HIDE DEF n, d, e, b, c
    <3> QED
      BY <2>1, SamePlace
  <2>5. o[2] = x[2]
    BY <1>3, <2>2, BelowRanks
  <2>3. Entry(o[1]) = Entry(x[1])
    <3>1. Entry(o[1]) \in Int /\ Entry(x[1]) \in Int
      BY <1>1, <1>3 DEF Shapes
    <3> QED
      BY <2>2, <3>1
  <2>4. o[1] = x[1]
    BY <1>1, <1>3, <2>3
  <2> QED
    BY <1>3, <2>4, <2>5
<1> QED
  BY <1>5, <1>6

(***************************************************************************)
(* What ChainAnswers subscribes: no more than there is room for, under ids *)
(* that were never used.                                                   *)
(***************************************************************************)
Fresh(near) ==
  {o \in ToSet(optParams) \X near : Before(o, near) < Budget} \ DOMAIN fopSub

NewId(o, near) ==
  nextId + 1 + Cardinality({x \in Fresh(near) : Before(x, near) < Before(o, near)})

LEMMA FreshFits ==
  ASSUME Shapes, NEW atm \in Strikes
  PROVE  LET near == AroundTheMoney(atm)
         IN  /\ Fresh(near) \subseteq Options /\ Fresh(near) \cap DOMAIN fopSub = {}
             /\ IsFiniteSet(Fresh(near)) /\ Cardinality(Fresh(near)) \in Nat
             /\ Budget > 0 => Cardinality(Fresh(near)) <= Budget
             /\ Budget <= 0 => Fresh(near) = {}
             /\ Budget \in Int
             /\ \A o \in Fresh(near) :
                  NewId(o, near) \in nextId + 1 .. nextId + Cardinality(Fresh(near))
             /\ \A o, x \in Fresh(near) : NewId(o, near) = NewId(x, near) => o = x
<1> DEFINE near == AroundTheMoney(atm)
           list == ToSet(optParams) \X near
           k == [o \in Fresh(near) |-> Before(o, near)]
<1>1. near \in SUBSET Strikes
  BY DEF AroundTheMoney
<1>2. ToSet(optParams) \subseteq Futures
  BY DEF Shapes, ToSet
<1> HIDE DEF near
<1>3. Fresh(near) \subseteq list /\ list \subseteq Options
  BY <1>1, <1>2 DEF Fresh, Options
<1>4. IsFiniteSet(Fresh(near)) /\ Cardinality(Fresh(near)) \in Nat
  <2>1. Fresh(near) \subseteq Options
    BY <1>3
  <2> QED
    BY <2>1, Constants, FS_Subset, FS_CardinalityType
<1>5. /\ \A o \in Fresh(near) : Before(o, near) \in Nat
      /\ \A o, x \in Fresh(near) : Before(o, near) = Before(x, near) => o = x
  BY <1>1, <1>3, PlacesDistinct
<1>6. Budget \in Int
  <2>1. IsFiniteSet(DOMAIN futSub) /\ IsFiniteSet(DOMAIN fopSub)
    BY Constants, FS_Subset DEF Shapes, Subs
  <2>2. Cardinality(DOMAIN futSub) \in Nat /\ Cardinality(DOMAIN fopSub) \in Nat
    BY <2>1, FS_CardinalityType
  <2> QED
    BY <2>2, Constants DEF Budget
<1>7. \A o \in Fresh(near) : Before(o, near) < Budget
  BY DEF Fresh
<1>8. Budget <= 0 => Fresh(near) = {}
  BY <1>5, <1>6, <1>7
<1>9. Budget > 0 => Cardinality(Fresh(near)) <= Budget
  <2> SUFFICES ASSUME Budget > 0 PROVE Cardinality(Fresh(near)) <= Budget
    OBVIOUS
  <2>1. /\ k \in [Fresh(near) -> 0 .. Budget - 1]
        /\ \A o, x \in Fresh(near) : k[o] = k[x] => o = x
    BY <1>5, <1>6, <1>7
  <2> HIDE DEF k
  <2> QED
    BY <1>6, <2>1, FewBelow
<1>10. /\ k \in [Fresh(near) -> Int]
       /\ \A o, x \in Fresh(near) : k[o] = k[x] => o = x
  BY <1>5
<1>11. \A o \in Fresh(near) : {x \in Fresh(near) : k[x] < k[o]}
                               = {x \in Fresh(near) : Before(x, near) < Before(o, near)}
  OBVIOUS
<1> HIDE DEF k
<1>12. \A o \in Fresh(near) :
         NewId(o, near) = nextId + 1 + Cardinality({x \in Fresh(near) : k[x] < k[o]})
  BY <1>11 DEF NewId
<1>13. /\ \A o \in Fresh(near) :
            Cardinality({x \in Fresh(near) : k[x] < k[o]}) \in 0 .. Cardinality(Fresh(near)) - 1
       /\ \A o, y \in Fresh(near) :
            Cardinality({x \in Fresh(near) : k[x] < k[o]})
              = Cardinality({x \in Fresh(near) : k[x] < k[y]}) => o = y
  BY <1>4, <1>10, Ranks
<1>14. nextId \in Nat
  BY DEF Shapes, Subs
<1>15. \A o \in Fresh(near) :
         NewId(o, near) \in nextId + 1 .. nextId + Cardinality(Fresh(near))
  <2> SUFFICES ASSUME NEW o \in Fresh(near)
               PROVE  NewId(o, near) \in nextId + 1 .. nextId + Cardinality(Fresh(near))
    OBVIOUS
  <2> DEFINE a == Cardinality({x \in Fresh(near) : k[x] < k[o]})
             n == Cardinality(Fresh(near))
  <2>1. n \in Nat /\ a \in 0 .. n - 1 /\ NewId(o, near) = nextId + 1 + a
    BY <1>4, <1>12, <1>13
  <2> HIDE DEF a, n
  <2>2. NewId(o, near) \in nextId + 1 .. nextId + n
    BY <1>14, <2>1
  <2> QED
    BY <2>2 DEF n
<1>16. \A o, x \in Fresh(near) : NewId(o, near) = NewId(x, near) => o = x
  <2> SUFFICES ASSUME NEW o \in Fresh(near), NEW y \in Fresh(near),
                      NewId(o, near) = NewId(y, near)
               PROVE  o = y
    OBVIOUS
  <2> DEFINE a == Cardinality({x \in Fresh(near) : k[x] < k[o]})
             b == Cardinality({x \in Fresh(near) : k[x] < k[y]})
  <2>1. a \in Int /\ b \in Int
    <3> DEFINE n == Cardinality(Fresh(near))
    <3>1. n \in Nat /\ a \in 0 .. n - 1 /\ b \in 0 .. n - 1
      BY <1>4, <1>13
    <3> HIDE DEF a, b, n
    <3> QED
      BY <3>1
  <2>2. nextId + 1 + a = nextId + 1 + b
    BY <1>12
  <2>3. a = b
    <3> HIDE DEF a, b
    <3> QED
      BY <1>14, <2>1, <2>2
  <2> QED
    BY <1>13, <2>3
<1>17. Fresh(near) \subseteq Options /\ Fresh(near) \cap DOMAIN fopSub = {}
  BY <1>3 DEF Fresh
<1> QED
  BY <1>4, <1>6, <1>8, <1>9, <1>15, <1>16, <1>17 DEF near

-----------------------------------------------------------------------------
(* The four stores *)

Stores == Subs /\ Distinct /\ Quoted /\ Sent /\ OptionsFollowFutures

Quiet == UNCHANGED <<connected, lines, futSub, fopSub, quotes, nextId, outages>>

(***************************************************************************)
(* Only these touch the subscriptions or the connection.                   *)
(***************************************************************************)
LEMMA Steps ==
  ASSUME [Next]_vars
  PROVE  \/ Quiet
         \/ DiscoveryAnswers
         \/ \E f \in Futures : SubscribeFuture(f)
         \/ \E atm \in Strikes : ChainAnswers(atm)
         \/ Disconnect
         \/ Restart
BY DEF Quiet, Next, StreamStep, Callback, World, RebuildBegins, DiscoveryTimesOut, ChainTimesOut,
   RebuildEnds, ChainEntry, ChainEnd, TimePasses, PositionOpened, PositionClosed, vars, ibVars,
   chainVars, subVars, worldVars

LEMMA QuietKeeps ==
  ASSUME Stores, Quiet
  PROVE  Stores'
BY DEF Stores, Quiet, Subs, Distinct, Quoted, Sent, OptionsFollowFutures, FutIds, FopIds

(***************************************************************************)
(* _apply_subscription_diff drops futures with their options and quotes.   *)
(***************************************************************************)
LEMMA DropKeeps ==
  ASSUME Stores, DiscoveryAnswers
  PROVE  Stores'
<1> DEFINE gone == window.tradeable \ Tradeable
           rids == {futSub[f] : f \in gone \cap DOMAIN futSub}
                     \cup {fopSub[o] : o \in OptionsOf(gone)}
<1>1. /\ fopSub' = [o \in DOMAIN fopSub \ OptionsOf(gone) |-> fopSub[o]]
      /\ futSub' = [f \in DOMAIN futSub \ gone |-> futSub[f]]
      /\ quotes' = [r \in DOMAIN quotes \ rids |-> quotes[r]]
      /\ lines' = lines \ rids
      /\ UNCHANGED <<connected, nextId, outages>>
  BY DEF DiscoveryAnswers, FuturesAfter, worldVars
<1> HIDE DEF gone
<1>2. /\ DOMAIN fopSub' = DOMAIN fopSub \ OptionsOf(gone)
      /\ \A o \in DOMAIN fopSub' : fopSub'[o] = fopSub[o]
  BY <1>1
<1>3. /\ DOMAIN futSub' = DOMAIN futSub \ gone
      /\ \A f \in DOMAIN futSub' : futSub'[f] = futSub[f]
  BY <1>1
<1>4. DOMAIN quotes' = DOMAIN quotes \ rids /\ \A r \in DOMAIN quotes' : quotes'[r] = quotes[r]
  BY <1>1
<1>5. OptionsOf(gone) \subseteq DOMAIN fopSub
  BY DEF OptionsOf
<1>6. /\ \A f \in DOMAIN futSub : futSub[f] \in rids <=> f \in gone
      /\ \A o \in DOMAIN fopSub : fopSub[o] \in rids <=> o \in OptionsOf(gone)
  BY <1>5 DEF Stores, Distinct
<1>7. Quoted'
  <2>1. FutIds' = {futSub[f] : f \in DOMAIN futSub \ gone}
    BY <1>3 DEF FutIds
  <2>2. FopIds' = {fopSub[o] : o \in DOMAIN fopSub \ OptionsOf(gone)}
    BY <1>2 DEF FopIds
  <2>3. DOMAIN quotes = {futSub[f] : f \in DOMAIN futSub} \cup {fopSub[o] : o \in DOMAIN fopSub}
    BY DEF Stores, Quoted, FutIds, FopIds
  <2> HIDE DEF rids
  <2> QED
    BY <1>4, <1>6, <2>1, <2>2, <2>3 DEF Quoted
<1>8. Subs'
  <2>1. Subs
    BY DEF Stores
  <2> HIDE DEF rids
  <2>2. quotes' \in [DOMAIN quotes' -> Futures]
    BY <1>1, <1>4, <2>1 DEF Subs
  <2>3. /\ futSub' \in [DOMAIN futSub' -> 1 .. nextId]
        /\ fopSub' \in [DOMAIN fopSub' -> 1 .. nextId]
    BY <1>1, <1>2, <1>3, <2>1 DEF Subs
  <2> QED
    BY <1>1, <1>2, <1>3, <2>1, <2>2, <2>3 DEF Subs
<1>9. Distinct'
  BY <1>2, <1>3 DEF Stores, Distinct
<1>10. Sent'
  <2> HIDE DEF rids
  <2> QED
    BY <1>1, <1>4 DEF Stores, Sent
<1>11. OptionsFollowFutures'
  <2> SUFFICES ASSUME NEW o \in DOMAIN fopSub'
               PROVE  quotes'[fopSub'[o]] \in DOMAIN futSub'
    BY DEF OptionsFollowFutures
  <2>1. o \in DOMAIN fopSub /\ o \notin OptionsOf(gone) /\ fopSub'[o] = fopSub[o]
    BY <1>2
  <2>2. fopSub[o] \in DOMAIN quotes'
    BY <1>4, <1>6, <2>1 DEF Stores, Quoted, FopIds
  <2>3. quotes[fopSub[o]] \in DOMAIN futSub /\ quotes[fopSub[o]] \notin gone
    BY <2>1 DEF Stores, OptionsFollowFutures, OptionsOf
  <2> QED
    BY <1>3, <1>4, <2>1, <2>2, <2>3
<1> QED
  BY <1>7, <1>8, <1>9, <1>10, <1>11 DEF Stores

LEMMA SubscribeKeeps ==
  ASSUME Stores, NEW f \in Futures, f \notin DOMAIN futSub, SubscribeFuture(f)
  PROVE  /\ Stores' /\ DOMAIN futSub' = DOMAIN futSub \cup {f}
         /\ DOMAIN fopSub' = DOMAIN fopSub
<1> DEFINE n == nextId + 1
<1>1. Subs /\ Distinct /\ Quoted /\ Sent /\ OptionsFollowFutures
  BY DEF Stores
<1>2. /\ nextId' = n
      /\ futSub' = [g \in DOMAIN futSub \cup {f} |-> IF g = f THEN n ELSE futSub[g]]
      /\ quotes' = [r \in DOMAIN quotes \cup {n} |-> IF r = n THEN f ELSE quotes[r]]
      /\ lines' = (IF connected THEN lines \cup {n} ELSE lines)
      /\ UNCHANGED <<connected, fopSub, outages>>
  BY DEF SubscribeFuture, worldVars
<1>3. n \in Nat /\ nextId \in Nat /\ n > nextId
  BY <1>1 DEF Subs
<1>4. FutIds \cup FopIds \subseteq 1 .. nextId /\ n \notin DOMAIN quotes
  <2>1. FutIds \cup FopIds \subseteq 1 .. nextId
    BY <1>1 DEF Subs, FutIds, FopIds
  <2> QED
    BY <1>1, <1>3, <2>1 DEF Quoted
<1> HIDE DEF n
<1>5. /\ DOMAIN futSub' = DOMAIN futSub \cup {f}
      /\ futSub'[f] = n /\ \A g \in DOMAIN futSub : futSub'[g] = futSub[g]
  BY <1>2
<1>6. /\ DOMAIN quotes' = DOMAIN quotes \cup {n}
      /\ quotes'[n] = f /\ \A r \in DOMAIN quotes : quotes'[r] = quotes[r]
  BY <1>2, <1>4
<1>7. Subs'
  <2>1. \A g \in DOMAIN futSub' : futSub'[g] \in 1 .. nextId'
    BY <1>1, <1>2, <1>3, <1>5 DEF Subs
  <2>2. \A o \in DOMAIN fopSub' : fopSub'[o] \in 1 .. nextId'
    BY <1>1, <1>2, <1>3 DEF Subs
  <2>3. \A r \in DOMAIN quotes' : quotes'[r] \in Futures
    BY <1>1, <1>6 DEF Subs
  <2>4. /\ futSub' = [g \in DOMAIN futSub' |-> futSub'[g]]
        /\ fopSub' = [o \in DOMAIN fopSub' |-> fopSub'[o]]
        /\ quotes' = [r \in DOMAIN quotes' |-> quotes'[r]]
    BY <1>1, <1>2 DEF Subs
  <2> QED
    BY <1>1, <1>2, <1>3, <1>5, <2>1, <2>2, <2>3, <2>4 DEF Subs
<1>8. Distinct'
  <2>1. /\ \A g \in DOMAIN futSub : futSub[g] # n
        /\ \A o \in DOMAIN fopSub : fopSub[o] # n
    BY <1>1, <1>4 DEF Quoted, FutIds, FopIds
  <2> QED
    BY <1>1, <1>2, <1>5, <2>1 DEF Distinct
<1>9. Quoted'
  <2>1. FutIds' = FutIds \cup {n}
    BY <1>5 DEF FutIds
  <2>2. FopIds' = FopIds
    BY <1>2 DEF FopIds
  <2> QED
    BY <1>1, <1>6, <2>1, <2>2 DEF Quoted
<1>10. Sent'
  BY <1>1, <1>2, <1>6 DEF Sent
<1>11. OptionsFollowFutures'
  <2>1. \A o \in DOMAIN fopSub : fopSub[o] \in DOMAIN quotes
    BY <1>1 DEF Quoted, FopIds
  <2> QED
    BY <1>1, <1>2, <1>5, <1>6, <2>1 DEF OptionsFollowFutures
<1> QED
  BY <1>2, <1>5, <1>7, <1>8, <1>9, <1>10, <1>11 DEF Stores

LEMMA ChainKeeps ==
  ASSUME Stores, Shapes, NEW atm \in Strikes, ChainAnswers(atm), stream.pc \in DOMAIN futSub
  PROVE  /\ Stores' /\ DOMAIN futSub' = DOMAIN futSub
         /\ DOMAIN fopSub' = DOMAIN fopSub \cup Fresh(AroundTheMoney(atm))
<1> DEFINE near == AroundTheMoney(atm)
           fresh == Fresh(near)
           rids == {NewId(o, near) : o \in fresh}
           m == Cardinality(fresh)
<1>1. Subs /\ Distinct /\ Quoted /\ Sent /\ OptionsFollowFutures
  BY DEF Stores
<1>2. /\ fopSub' = [o \in DOMAIN fopSub \cup fresh |->
                      IF o \in fresh THEN NewId(o, near) ELSE fopSub[o]]
      /\ quotes' = [r \in DOMAIN quotes \cup rids |->
                      IF r \in rids THEN stream.pc ELSE quotes[r]]
      /\ lines' = (IF connected THEN lines \cup rids ELSE lines)
      /\ nextId' = nextId + m
      /\ UNCHANGED <<connected, futSub, outages>>
  BY DEF ChainAnswers, Fresh, NewId, worldVars
<1>3. /\ fresh \subseteq Options /\ fresh \cap DOMAIN fopSub = {} /\ m \in Nat
      /\ \A o \in fresh : NewId(o, near) \in nextId + 1 .. nextId + m
      /\ \A o, x \in fresh : NewId(o, near) = NewId(x, near) => o = x
  BY FreshFits
<1> HIDE DEF near, fresh, m
<1>4. nextId \in Nat
  BY <1>1 DEF Subs
<1>5. \A r \in rids : r \in Int /\ nextId < r /\ r <= nextId + m
  BY <1>3, <1>4
<1>6. FutIds \cup FopIds \subseteq 1 .. nextId
  BY <1>1 DEF Subs, FutIds, FopIds
<1>7. DOMAIN quotes \cap rids = {}
  BY <1>1, <1>4, <1>5, <1>6 DEF Quoted
<1>8. /\ DOMAIN fopSub' = DOMAIN fopSub \cup fresh
      /\ \A o \in fresh : fopSub'[o] = NewId(o, near)
      /\ \A o \in DOMAIN fopSub : fopSub'[o] = fopSub[o]
  BY <1>2, <1>3
<1>9. \A o \in fresh : NewId(o, near) \in rids
  OBVIOUS
<1>10. \A r \in rids : \E o \in fresh : r = NewId(o, near)
  OBVIOUS
<1> HIDE DEF rids
<1>11. /\ DOMAIN quotes' = DOMAIN quotes \cup rids
       /\ \A r \in rids : quotes'[r] = stream.pc
       /\ \A r \in DOMAIN quotes : quotes'[r] = quotes[r]
  BY <1>2, <1>7
<1>12. Subs'
  <2>1. \A o \in DOMAIN fopSub' : fopSub'[o] \in 1 .. nextId'
    <3>1. \A o \in fresh : fopSub'[o] \in 1 .. nextId'
      BY <1>2, <1>3, <1>4, <1>8
    <3>2. \A o \in DOMAIN fopSub : fopSub'[o] \in 1 .. nextId'
      BY <1>1, <1>2, <1>3, <1>4, <1>8 DEF Subs
    <3> QED
      BY <1>8, <3>1, <3>2
  <2>2. \A f \in DOMAIN futSub' : futSub'[f] \in 1 .. nextId'
    BY <1>1, <1>2, <1>3, <1>4 DEF Subs
  <2>3. \A r \in DOMAIN quotes' : quotes'[r] \in Futures
    BY <1>1, <1>11 DEF Subs
  <2>4. /\ futSub' = [f \in DOMAIN futSub' |-> futSub'[f]]
        /\ fopSub' = [o \in DOMAIN fopSub' |-> fopSub'[o]]
        /\ quotes' = [r \in DOMAIN quotes' |-> quotes'[r]]
    BY <1>1, <1>2 DEF Subs
  <2>5. nextId' \in Nat /\ DOMAIN futSub' \subseteq Futures /\ DOMAIN fopSub' \subseteq Options
    BY <1>1, <1>2, <1>3, <1>4, <1>8 DEF Subs
  <2> QED
    BY <2>1, <2>2, <2>3, <2>4, <2>5 DEF Subs
<1>13. Distinct'
  <2>1. \A o \in fresh : \A r \in FutIds \cup FopIds : fopSub'[o] # r
    BY <1>4, <1>5, <1>6, <1>8, <1>9
  <2>2. \A o, p \in DOMAIN fopSub' : fopSub'[o] = fopSub'[p] => o = p
    <3> SUFFICES ASSUME NEW o \in DOMAIN fopSub', NEW p \in DOMAIN fopSub',
                        fopSub'[o] = fopSub'[p]
                 PROVE  o = p
      OBVIOUS
    <3>1. CASE o \in fresh /\ p \in fresh
      BY <1>3, <1>8, <3>1
    <3>2. CASE o \in DOMAIN fopSub /\ p \in DOMAIN fopSub
      BY <1>1, <1>8, <3>2 DEF Distinct
    <3>3. CASE o \in fresh /\ p \in DOMAIN fopSub
      BY <1>8, <2>1, <3>3 DEF FopIds
    <3>4. CASE p \in fresh /\ o \in DOMAIN fopSub
      BY <1>8, <2>1, <3>4 DEF FopIds
    <3> QED
      BY <1>8, <3>1, <3>2, <3>3, <3>4
  <2>3. \A f \in DOMAIN futSub, o \in DOMAIN fopSub' : futSub[f] # fopSub'[o]
    BY <1>1, <1>8, <2>1 DEF Distinct, FutIds
  <2> QED
    BY <1>1, <1>2, <2>2, <2>3 DEF Distinct
<1>14. Quoted'
  <2>1. FopIds' = FopIds \cup rids
    BY <1>8, <1>9, <1>10 DEF FopIds
  <2>2. FutIds' = FutIds
    BY <1>2 DEF FutIds
  <2> QED
    BY <1>1, <1>11, <2>1, <2>2 DEF Quoted
<1>15. Sent'
  BY <1>1, <1>2, <1>11 DEF Sent
<1>16. OptionsFollowFutures'
  <2>1. \A o \in DOMAIN fopSub : fopSub[o] \in DOMAIN quotes
    BY <1>1 DEF Quoted, FopIds
  <2>2. \A o \in fresh : quotes'[fopSub'[o]] = stream.pc
    BY <1>8, <1>9, <1>11
  <2>3. \A o \in DOMAIN fopSub : quotes'[fopSub'[o]] = quotes[fopSub[o]]
    BY <1>8, <1>11, <2>1
  <2> QED
    BY <1>1, <1>2, <1>8, <2>2, <2>3 DEF OptionsFollowFutures
<1> QED
  BY <1>2, <1>8, <1>12, <1>13, <1>14, <1>15, <1>16 DEF Stores, fresh, near

(***************************************************************************)
(* A connection that ends takes its lines with it, and a restart forgets.  *)
(***************************************************************************)
LEMMA EndsKeep ==
  ASSUME Stores, Shapes, Disconnect \/ Restart
  PROVE  Stores'
<1>1. CASE Disconnect
  <2>1. /\ UNCHANGED <<futSub, fopSub, quotes, nextId>>
        /\ connected' = FALSE /\ lines' = {}
    BY <1>1 DEF Disconnect, HangUp, subVars
  <2> QED
    BY <2>1 DEF Stores, Subs, Distinct, Quoted, Sent, OptionsFollowFutures, FutIds, FopIds
<1>2. CASE Restart
  <2>1. /\ futSub' = None /\ fopSub' = None /\ quotes' = None /\ nextId' = 0 /\ lines' = {}
    BY <1>2 DEF Restart, HangUp
  <2>2. /\ DOMAIN futSub' = {} /\ DOMAIN fopSub' = {} /\ DOMAIN quotes' = {}
        /\ FutIds' = {} /\ FopIds' = {}
    BY <2>1 DEF None, FutIds, FopIds
  <2>3. Subs'
    BY <2>1, <2>2 DEF Subs, None
  <2> QED
    BY <2>1, <2>2, <2>3 DEF Stores, Distinct, Quoted, Sent, OptionsFollowFutures
<1> QED
  BY <1>1, <1>2

-----------------------------------------------------------------------------
(* The window *)

LEMMA ShapesNext ==
  ASSUME Shapes, Subs', Followed, [Next]_vars
  PROVE  Shapes'
<1> USE Constants
<1> DEFINE Streams == [pc : {"idle", "discover", "subscribe"} \cup Futures,
                       next : Window, todo : SUBSET Futures]
<1>1. /\ clock \in [day : 0 .. LastDay, late : BOOLEAN]
      /\ connected \in BOOLEAN
      /\ inflight \in [Futures -> {"none", "asked", "given"}]
      /\ optParams \in Seq(Futures)
      /\ optDone \in BOOLEAN
      /\ stream \in Streams
      /\ window \in Window
      /\ held \subseteq Futures
      /\ outages \in [disconnects : 0 .. MaxDisconnects, restarts : 0 .. MaxRestarts]
  BY DEF Shapes
<1> SUFFICES
      /\ clock' \in [day : 0 .. LastDay, late : BOOLEAN]
      /\ connected' \in BOOLEAN
      /\ inflight' \in [Futures -> {"none", "asked", "given"}]
      /\ optParams' \in Seq(Futures)
      /\ optDone' \in BOOLEAN
      /\ stream' \in Streams
      /\ window' \in Window
      /\ held' \subseteq Futures
      /\ outages' \in [disconnects : 0 .. MaxDisconnects, restarts : 0 .. MaxRestarts]
  BY DEF Shapes
<1>2. NoWindow \in Window /\ IdleStream \in Streams
  BY DEF NoWindow, IdleStream, Window
<1>3. ActiveWindow \in Window
  <2>1. /\ clock.day \in -1 .. LastDay /\ Tradeable \subseteq Futures
        /\ {f \in OpenLocals \ Tradeable : Dte(f) >= 0} \subseteq Futures
    BY <1>1 DEF Tradeable, Eligible, OpenLocals
  <2> QED
    BY <2>1 DEF ActiveWindow, Window
<1>4. CASE RebuildBegins \/ DiscoveryTimesOut \/ RebuildEnds
  <2>1. UNCHANGED <<clock, connected, inflight, optParams, optDone, held, outages>>
    BY <1>4 DEF RebuildBegins, DiscoveryTimesOut, RebuildEnds, ibVars, chainVars, worldVars
  <2>2. stream' \in Streams /\ window' \in Window
    BY <1>1, <1>2, <1>4 DEF RebuildBegins, DiscoveryTimesOut, RebuildEnds
  <2> QED
    BY <1>1, <2>1, <2>2
<1>5. CASE DiscoveryAnswers
  <2>1. /\ UNCHANGED <<clock, connected, inflight, optParams, optDone, held, outages, window>>
        /\ stream' = [pc |-> "subscribe", next |-> ActiveWindow,
                      todo |-> Tradeable \ window.tradeable]
    BY <1>5 DEF DiscoveryAnswers, chainVars, worldVars
  <2>2. stream' \in Streams
    BY <1>3, <2>1, TradeableFew
  <2> QED
    BY <1>1, <2>1, <2>2
<1>6. ASSUME NEW f \in Futures, SubscribeFuture(f)
      PROVE  /\ UNCHANGED <<clock, connected, held, outages, window>>
             /\ inflight' \in [Futures -> {"none", "asked", "given"}]
             /\ optParams' \in Seq(Futures) /\ optDone' \in BOOLEAN /\ stream' \in Streams
  <2>1. /\ UNCHANGED <<clock, connected, held, outages, window>>
        /\ optParams' = << >> /\ optDone' = FALSE
        /\ stream' = [stream EXCEPT !.pc = f]
        /\ inflight' = (IF connected THEN [inflight EXCEPT ![f] = "asked"] ELSE inflight)
    BY <1>6 DEF SubscribeFuture, worldVars
  <2>2. inflight' \in [Futures -> {"none", "asked", "given"}]
    BY <1>1, <2>1
  <2>3. stream' \in Streams
    BY <1>1, <2>1
  <2>4. optParams' \in Seq(Futures)
    BY <2>1
  <2> QED
    BY <2>1, <2>2, <2>3, <2>4
<1>7. ASSUME ChainDone, stream.pc \in Futures
      PROVE  stream' \in Streams
  <2>1. stream' = [[stream EXCEPT !.pc = "subscribe"] EXCEPT !.todo = @ \ {stream.pc}]
    BY <1>1, <1>7 DEF ChainDone
  <2>2. [stream EXCEPT !.pc = "subscribe"] \in Streams
    BY <1>1
  <2> QED
    BY <1>1, <2>1, <2>2
<1>8. CASE ChainTimesOut
  BY <1>1, <1>7, <1>8 DEF ChainTimesOut, ibVars, chainVars, worldVars
<1>9. ASSUME NEW atm \in Strikes, ChainAnswers(atm)
      PROVE  /\ UNCHANGED <<clock, connected, inflight, optParams, optDone, held, outages, window>>
             /\ stream' \in Streams
  BY <1>1, <1>7, <1>9 DEF ChainAnswers, chainVars, worldVars
<1>10. ASSUME NEW f \in Futures, ChainEntry(f) \/ ChainEnd(f)
       PROVE  /\ UNCHANGED <<clock, connected, held, outages, window, stream>>
              /\ inflight' \in [Futures -> {"none", "asked", "given"}]
              /\ optParams' \in Seq(Futures) /\ optDone' \in BOOLEAN
  <2>1. UNCHANGED <<clock, connected, held, outages, window, stream>>
    BY <1>10 DEF ChainEntry, ChainEnd, worldVars
  <2>2. inflight' \in [Futures -> {"none", "asked", "given"}]
    BY <1>1, <1>10 DEF ChainEntry, ChainEnd
  <2>3. optParams' \in Seq(Futures)
    <3>1. optParams' = Append(optParams, f) \/ optParams' = optParams
      BY <1>10 DEF ChainEntry, ChainEnd
    <3>2. optParams \in Seq(Futures) /\ f \in Futures
      BY <1>1, <1>10
    <3>3. Append(optParams, f) \in Seq(Futures)
      BY <3>2
    <3> QED
      BY <3>1, <3>2, <3>3
  <2>4. optDone' \in BOOLEAN
    BY <1>1, <1>10 DEF ChainEntry, ChainEnd
  <2> QED
    BY <2>1, <2>2, <2>3, <2>4
<1>11. CASE TimePasses
  <2>1. UNCHANGED <<connected, inflight, optParams, optDone, held, outages, stream, window>>
    BY <1>11 DEF TimePasses, ibVars, chainVars
  <2>2. clock' \in [day : 0 .. LastDay, late : BOOLEAN]
    <3>1. CASE clock.late
      <4>1. clock.day < LastDay /\ clock' = [day |-> clock.day + 1, late |-> FALSE]
        BY <1>11, <3>1 DEF TimePasses
      <4>2. clock.day + 1 \in 0 .. LastDay
        BY <1>1, <4>1
      <4> QED
        BY <4>1, <4>2
    <3>2. CASE ~clock.late
      <4>1. clock' = [clock EXCEPT !.late = TRUE]
        BY <1>11, <3>2 DEF TimePasses
      <4> QED
        BY <1>1, <4>1
    <3> QED
      BY <3>1, <3>2
  <2> QED
    BY <1>1, <2>1, <2>2
<1>12. ASSUME NEW f \in Futures, PositionOpened(f) \/ PositionClosed(f)
       PROVE  /\ UNCHANGED <<clock, connected, inflight, optParams, optDone, outages, stream,
                             window>>
              /\ held' \subseteq Futures
  BY <1>1, <1>12 DEF PositionOpened, PositionClosed, ibVars, chainVars
<1>13. CASE Disconnect
  <2>1. /\ UNCHANGED <<clock, optParams, optDone, held, stream, window>>
        /\ connected' \in BOOLEAN /\ inflight' \in [Futures -> {"none", "asked", "given"}]
    BY <1>13 DEF Disconnect, HangUp, chainVars
  <2>2. outages' \in [disconnects : 0 .. MaxDisconnects, restarts : 0 .. MaxRestarts]
    BY <1>1, <1>13 DEF Disconnect
  <2> QED
    BY <1>1, <2>1, <2>2
<1>14. CASE Restart
  <2>1. /\ UNCHANGED <<clock, held>> /\ optParams' = << >> /\ optDone' = FALSE
        /\ connected' = TRUE /\ inflight' = [f \in Futures |-> "none"]
        /\ stream' = IdleStream /\ window' = NoWindow
    BY <1>14 DEF Restart, HangUp
  <2>3. optParams' \in Seq(Futures) /\ inflight' \in [Futures -> {"none", "asked", "given"}]
    BY <2>1
  <2>2. outages' \in [disconnects : 0 .. MaxDisconnects, restarts : 0 .. MaxRestarts]
    BY <1>1, <1>14 DEF Restart
  <2> QED
    BY <1>1, <1>2, <2>1, <2>2, <2>3
<1>15. CASE UNCHANGED vars
  BY <1>1, <1>15 DEF vars, ibVars, chainVars, worldVars
<1> QED
  BY <1>1, <1>4, <1>5, <1>6, <1>8, <1>9, <1>10, <1>11, <1>12, <1>13, <1>14, <1>15
     DEF Next, StreamStep, Callback, World

(***************************************************************************)
(* Which futures are subscribed changes with the rebuild only.             *)
(***************************************************************************)
LEMMA FollowedNext ==
  ASSUME Stores, Shapes, Followed, [Next]_vars
  PROVE  Followed'
<1> USE Constants
<1>1. /\ stream \in [pc : {"idle", "discover", "subscribe"} \cup Futures,
                     next : Window, todo : SUBSET Futures]
      /\ window \in Window
  BY DEF Shapes
<1> SUFFICES
      /\ stream'.pc \in {"idle", "discover"} => DOMAIN futSub' = window'.tradeable
      /\ stream'.pc = "subscribe" => DOMAIN futSub' = stream'.next.tradeable \ stream'.todo
      /\ stream'.pc \in Futures =>
           /\ stream'.pc \in stream'.todo
           /\ DOMAIN futSub' = (stream'.next.tradeable \ stream'.todo) \cup {stream'.pc}
      /\ stream'.todo \subseteq stream'.next.tradeable
  BY DEF Followed, Done
<1>2. /\ stream.pc \in {"idle", "discover"} => DOMAIN futSub = window.tradeable
      /\ stream.pc = "subscribe" => DOMAIN futSub = stream.next.tradeable \ stream.todo
      /\ stream.pc \in Futures =>
           /\ stream.pc \in stream.todo
           /\ DOMAIN futSub = (stream.next.tradeable \ stream.todo) \cup {stream.pc}
      /\ stream.todo \subseteq stream.next.tradeable
  BY DEF Followed, Done
<1>3. CASE UNCHANGED <<stream, window, futSub>>
  BY <1>2, <1>3
<1>4. CASE RebuildBegins
  <2>1. /\ stream' = [stream EXCEPT !.pc = "discover"] /\ stream.pc = "idle"
        /\ window' = window /\ futSub' = futSub
    BY <1>4 DEF RebuildBegins, subVars
  <2> QED
    BY <1>1, <1>2, <2>1
<1>5. CASE DiscoveryTimesOut
  <2>1. /\ stream' = IdleStream /\ stream.pc = "discover"
        /\ window' = window /\ futSub' = futSub
    BY <1>5 DEF DiscoveryTimesOut, subVars
  <2> QED
    BY <1>2, <2>1 DEF IdleStream, NoWindow
<1>6. CASE DiscoveryAnswers
  <2>1. /\ stream.pc = "discover"
        /\ stream' = [pc |-> "subscribe", next |-> ActiveWindow,
                      todo |-> Tradeable \ window.tradeable]
        /\ DOMAIN futSub' = DOMAIN futSub \ (window.tradeable \ Tradeable)
    BY <1>6 DEF DiscoveryAnswers, FuturesAfter
  <2>2. stream'.next.tradeable = Tradeable
    BY <2>1 DEF ActiveWindow
  <2> QED
    BY <1>2, <2>1, <2>2
<1>7. ASSUME NEW f \in Futures, SubscribeFuture(f)
      PROVE  /\ stream' = [stream EXCEPT !.pc = f]
             /\ DOMAIN futSub' = (stream.next.tradeable \ stream.todo) \cup {f}
             /\ f \in stream.todo /\ window' = window
  BY <1>2, <1>7 DEF SubscribeFuture
<1>8. CASE ChainTimesOut \/ \E atm \in Strikes : ChainAnswers(atm)
  <2>1. stream.pc \in Futures /\ ChainDone /\ futSub' = futSub /\ window' = window
    BY <1>8 DEF ChainTimesOut, ChainAnswers, subVars
  <2>2. /\ stream'.pc = "subscribe" /\ stream'.next = stream.next
        /\ stream'.todo = stream.todo \ {stream.pc}
    BY <1>1, <2>1 DEF ChainDone
  <2> QED
    BY <1>2, <2>1, <2>2
<1>9. CASE RebuildEnds
  <2>1. /\ stream.pc = "subscribe" /\ stream.todo = {} /\ window' = stream.next
        /\ stream' = IdleStream /\ futSub' = futSub
    BY <1>9 DEF RebuildEnds, subVars
  <2> QED
    BY <1>2, <2>1 DEF IdleStream, NoWindow
<1>10. CASE Restart
  <2>1. stream' = IdleStream /\ window' = NoWindow /\ futSub' = None
    BY <1>10 DEF Restart
  <2> QED
    BY <2>1 DEF IdleStream, NoWindow, None
<1>11. Callback \/ TimePasses \/ (\E f \in Futures : PositionOpened(f) \/ PositionClosed(f))
         \/ Disconnect \/ UNCHANGED vars
       => UNCHANGED <<stream, window, futSub>>
  BY DEF Callback, ChainEntry, ChainEnd, TimePasses, PositionOpened, PositionClosed, Disconnect,
     subVars, vars
<1>12. ASSUME NEW f \in Futures, SubscribeFuture(f)
       PROVE  /\ stream'.pc = f /\ stream'.next = stream.next /\ stream'.todo = stream.todo
  BY <1>1, <1>7, <1>12
<1>13. CASE \E f \in Futures : SubscribeFuture(f)
  <2>1. PICK f \in Futures : SubscribeFuture(f)
    BY <1>13
  <2> QED
    BY <1>2, <1>7, <1>12, <2>1
<1> QED
  BY <1>3, <1>4, <1>5, <1>6, <1>8, <1>9, <1>10, <1>11, <1>13 DEF Next, StreamStep, World

LEMMA CountedNext ==
  ASSUME Stores, Shapes, Followed, Counted, [Next]_vars
  PROVE  Counted'
<1> USE Constants
<1>1. /\ stream \in [pc : {"idle", "discover", "subscribe"} \cup Futures,
                     next : Window, todo : SUBSET Futures]
  BY DEF Shapes
<1>2. Cardinality({}) = 0
  BY FS_EmptySet
<1>3. Cardinality(NoWindow.tradeable) <= MonthsAhead
  BY <1>2 DEF NoWindow
<1>4. /\ Cardinality(window.tradeable) <= MonthsAhead
      /\ Cardinality(stream.next.tradeable) <= MonthsAhead
      /\ Cardinality(DOMAIN fopSub) <= MaxLines - 1
  BY DEF Counted
<1>5. window' \in {window, NoWindow, stream.next}
  BY DEF Next, StreamStep, Callback, World, RebuildBegins, DiscoveryTimesOut, DiscoveryAnswers,
     SubscribeFuture, ChainTimesOut, ChainAnswers, RebuildEnds, ChainEntry, ChainEnd, TimePasses,
     PositionOpened, PositionClosed, Disconnect, Restart, vars
<1>6. stream'.next \in {stream.next, NoWindow, ActiveWindow}
  <2>1. RebuildBegins \/ ChainDone \/ (\E f \in Futures : SubscribeFuture(f))
          => stream'.next = stream.next
    BY <1>1 DEF RebuildBegins, ChainDone, SubscribeFuture
  <2>2. DiscoveryAnswers => stream'.next = ActiveWindow
    BY DEF DiscoveryAnswers
  <2>3. stream' = IdleStream => stream'.next = NoWindow
    BY DEF IdleStream
  <2>4. \/ stream' = stream \/ stream' = IdleStream \/ DiscoveryAnswers
        \/ RebuildBegins \/ ChainDone \/ (\E f \in Futures : SubscribeFuture(f))
    BY DEF Next, StreamStep, Callback, World, DiscoveryTimesOut, ChainTimesOut, ChainAnswers,
       RebuildEnds, ChainEntry, ChainEnd, TimePasses, PositionOpened, PositionClosed, Disconnect,
       Restart, vars
  <2> QED
    BY <2>1, <2>2, <2>3, <2>4
<1>7. Cardinality(ActiveWindow.tradeable) <= MonthsAhead
  BY TradeableFew DEF ActiveWindow
<1>8. Cardinality(DOMAIN fopSub') <= MaxLines - 1
  <2>0. IsFiniteSet(DOMAIN fopSub) /\ IsFiniteSet(DOMAIN futSub)
    BY FS_Subset DEF Stores, Subs
  <2>1. CASE Quiet \/ Disconnect \/ \E f \in Futures : SubscribeFuture(f)
    BY <1>4, <2>1 DEF Quiet, Disconnect, SubscribeFuture, subVars
  <2>2. CASE Restart
    BY <1>2, <2>2 DEF Restart, None
  <2>3. CASE DiscoveryAnswers
    <3>1. DOMAIN fopSub' \subseteq DOMAIN fopSub
      BY <2>3 DEF DiscoveryAnswers
    <3>2. Cardinality(DOMAIN fopSub') <= Cardinality(DOMAIN fopSub)
      BY <2>0, <3>1, FS_Subset
    <3>3. Cardinality(DOMAIN fopSub') \in Nat /\ Cardinality(DOMAIN fopSub) \in Nat
      BY <2>0, <3>1, FS_Subset, FS_CardinalityType
    <3> QED
      BY <1>4, <3>2, <3>3
  <2>4. ASSUME NEW atm \in Strikes, ChainAnswers(atm)
        PROVE  Cardinality(DOMAIN fopSub') <= MaxLines - 1
    <3> DEFINE fresh == Fresh(AroundTheMoney(atm))
               k == Cardinality(DOMAIN fopSub)
               n == Cardinality(DOMAIN futSub)
               m == Cardinality(fresh)
    <3>1. /\ fresh \cap DOMAIN fopSub = {} /\ IsFiniteSet(fresh) /\ m \in Nat
          /\ Budget > 0 => m <= Budget
          /\ Budget <= 0 => fresh = {}
      BY FreshFits
    <3>2. stream.pc \in DOMAIN futSub
      BY <2>4 DEF ChainAnswers, Followed
    <3>3. DOMAIN fopSub' = DOMAIN fopSub \cup fresh
      BY <2>4, <3>2, ChainKeeps
    <3> HIDE DEF fresh
    <3>4. Cardinality(DOMAIN fopSub') = k + m
      <4> DEFINE before == DOMAIN fopSub
      <4>1. IsFiniteSet(before) /\ IsFiniteSet(fresh) /\ before \cap fresh = {}
        BY <2>0, <3>1
      <4>2. Cardinality(before) \in Nat /\ Cardinality(fresh) \in Nat
        BY <4>1, FS_CardinalityType
      <4> HIDE DEF before
      <4>3. Cardinality(before \cup fresh)
              = Cardinality(before) + Cardinality(fresh) - Cardinality(before \cap fresh)
        BY <4>1, FS_Union
      <4>4. Cardinality(before \cap fresh) = 0
        BY <4>1, FS_EmptySet
      <4>5. Cardinality(before \cup fresh) = Cardinality(before) + Cardinality(fresh)
        BY <4>2, <4>3, <4>4
      <4> QED
        BY <3>3, <4>5 DEF before
    <3>5. n \in Nat /\ n # 0 /\ k \in Nat
      BY <2>0, <3>2, FS_EmptySet, FS_CardinalityType
    <3>6. Budget = MaxLines - (n + k)
      BY DEF Budget
    <3>7. fresh = {} => m = 0
      BY <1>2
    <3> HIDE DEF k, n, m
    <3>8. k + m <= MaxLines - 1
      <4>1. k <= MaxLines - 1
        BY <1>4 DEF k
      <4> QED
        BY <3>1, <3>5, <3>6, <3>7, <4>1
    <3> QED
      BY <3>4, <3>8
  <2> QED
    BY <2>1, <2>2, <2>3, <2>4, Steps
<1> QED
  BY <1>3, <1>4, <1>5, <1>6, <1>7, <1>8 DEF Counted

-----------------------------------------------------------------------------
(* Theorems *)

LEMMA StreamInit == Init => StreamInv
<1> SUFFICES ASSUME Init PROVE StreamInv
  OBVIOUS
<1> USE Constants
<1>1. /\ DOMAIN futSub = {} /\ DOMAIN fopSub = {} /\ DOMAIN quotes = {}
      /\ FutIds = {} /\ FopIds = {} /\ nextId = 0 /\ lines = {}
  BY DEF Init, None, FutIds, FopIds
<1>2. Subs
  BY <1>1 DEF Init, None, Subs
<1>3. NoWindow \in Window
  BY DEF NoWindow, Window
<1>4. stream \in [pc : {"idle", "discover", "subscribe"} \cup Futures,
                  next : Window, todo : SUBSET Futures]
  BY <1>3 DEF Init, IdleStream
<1>5. Shapes
  <2>1. clock \in [day : 0 .. LastDay, late : BOOLEAN]
    <3>1. 0 \in 0 .. LastDay
      OBVIOUS
    <3> QED
      BY <3>1 DEF Init
  <2>2. outages \in [disconnects : 0 .. MaxDisconnects, restarts : 0 .. MaxRestarts]
    <3>1. 0 \in 0 .. MaxDisconnects /\ 0 \in 0 .. MaxRestarts
      OBVIOUS
    <3> QED
      BY <3>1 DEF Init
  <2>3. inflight \in [Futures -> {"none", "asked", "given"}]
    BY DEF Init
  <2>4. << >> \in Seq(Futures)
    OBVIOUS
  <2>5. /\ connected \in BOOLEAN /\ optDone \in BOOLEAN /\ held \subseteq Futures
        /\ optParams = << >> /\ window = NoWindow
    BY DEF Init
  <2> QED
    BY <1>2, <1>3, <1>4, <2>1, <2>2, <2>3, <2>4, <2>5 DEF Shapes
<1>6. Cardinality({}) = 0
  BY FS_EmptySet
<1>7. Counted
  <2>1. /\ stream.pc = "idle" /\ stream.todo = {} /\ stream.next.tradeable = {}
        /\ window.tradeable = {}
    BY DEF Init, IdleStream, NoWindow
  <2>2. 0 <= MaxLines - 1 /\ 0 <= MonthsAhead
    OBVIOUS
  <2> QED
    BY <1>1, <1>6, <2>1, <2>2 DEF Counted
<1>8. Followed
  BY <1>1 DEF Init, IdleStream, NoWindow, Followed
<1> QED
  BY <1>1, <1>2, <1>5, <1>7, <1>8 DEF StreamInv, Distinct, Quoted, Sent, OptionsFollowFutures

LEMMA StreamNext ==
  ASSUME StreamInv, [Next]_vars
  PROVE  StreamInv'
<1>1. Shapes /\ Stores /\ Followed /\ Counted
  BY DEF StreamInv, Stores, Shapes
<1>2. Stores'
  <2>1. ASSUME NEW f \in Futures, SubscribeFuture(f)
        PROVE  f \notin DOMAIN futSub
    BY <1>1, <2>1 DEF SubscribeFuture, Followed, Done
  <2>2. ASSUME NEW atm \in Strikes, ChainAnswers(atm)
        PROVE  stream.pc \in DOMAIN futSub
    BY <1>1, <2>2 DEF ChainAnswers, Followed
  <2> QED
    BY <1>1, <2>1, <2>2, Steps, QuietKeeps, DropKeeps, SubscribeKeeps, ChainKeeps, EndsKeep
<1>3. Shapes'
  BY <1>1, <1>2, ShapesNext DEF Stores
<1>4. Followed' /\ Counted'
  BY <1>1, FollowedNext, CountedNext
<1> QED
  BY <1>2, <1>3, <1>4 DEF StreamInv, Stores

(***************************************************************************)
(* How the ids of the lines are distributed, which futures are subscribed  *)
(* at each point of a rebuild, and how many options.                       *)
(***************************************************************************)
THEOREM StreamInvariant == Spec => []StreamInv
<1>1. StreamInv /\ [Next]_vars => StreamInv'
  BY StreamNext
<1> QED
  BY <1>1, StreamInit, PTL DEF Spec

LEMMA LinesCounted ==
  ASSUME StreamInv
  PROVE  /\ Cardinality(DOMAIN quotes) = Cardinality(DOMAIN futSub) + Cardinality(DOMAIN fopSub)
         /\ Cardinality(DOMAIN futSub) \in Nat /\ Cardinality(DOMAIN fopSub) \in Nat
<1> DEFINE byFut == [f \in DOMAIN futSub |-> futSub[f]]
           byFop == [o \in DOMAIN fopSub |-> fopSub[o]]
<1>1. IsFiniteSet(DOMAIN futSub) /\ IsFiniteSet(DOMAIN fopSub)
  BY Constants, FS_Subset DEF StreamInv, Shapes, Subs
<1>2. byFut \in Bijection(DOMAIN futSub, FutIds)
  BY DEF StreamInv, Distinct, FutIds, Bijection, Injection, Surjection, IsInjective
<1>3. byFop \in Bijection(DOMAIN fopSub, FopIds)
  BY DEF StreamInv, Distinct, FopIds, Bijection, Injection, Surjection, IsInjective
<1> HIDE DEF byFut, byFop
<1>4. ExistsBijection(DOMAIN futSub, FutIds) /\ ExistsBijection(DOMAIN fopSub, FopIds)
  BY <1>2, <1>3 DEF ExistsBijection
<1>5. /\ IsFiniteSet(FutIds) /\ Cardinality(FutIds) = Cardinality(DOMAIN futSub)
      /\ IsFiniteSet(FopIds) /\ Cardinality(FopIds) = Cardinality(DOMAIN fopSub)
  BY <1>1, <1>4, FS_Bijection
<1>6. FutIds \cap FopIds = {}
  BY DEF StreamInv, Distinct, FutIds, FopIds
<1>7. Cardinality(DOMAIN futSub) \in Nat /\ Cardinality(DOMAIN fopSub) \in Nat
  BY <1>1, FS_CardinalityType
<1>8. Cardinality(FutIds \cup FopIds) = Cardinality(FutIds) + Cardinality(FopIds) - 0
  BY <1>5, <1>6, FS_Union, FS_EmptySet
<1>9. DOMAIN quotes = FutIds \cup FopIds
  BY DEF StreamInv, Quoted
<1> QED
  BY <1>5, <1>7, <1>8, <1>9

(***************************************************************************)
(* fut_sub, fop_sub, quotes and what IB sends agree, for any futures,      *)
(* strikes and limits, and any late, missing or misread answer.            *)
(***************************************************************************)
THEOREM LinesStayAgreed == Spec => []LinesAgree
<1>1. ASSUME StreamInv PROVE LinesAgree
  <2>1. /\ FutIds \cup FopIds = DOMAIN quotes /\ lines \subseteq DOMAIN quotes
        /\ connected /\ outages.disconnects = 0 => lines = DOMAIN quotes
    BY <1>1 DEF StreamInv, Quoted, Sent
  <2> QED
    BY <1>1, <2>1, LinesCounted DEF LinesAgree, FutIds, FopIds
<1> QED
  BY <1>1, StreamInvariant, PTL

(***************************************************************************)
(* The options that are labelled with a future leave with it.              *)
(***************************************************************************)
THEOREM OptionsLeaveTogether == Spec => []OptionsFollowFutures
<1>1. StreamInv => OptionsFollowFutures
  BY DEF StreamInv
<1> QED
  BY <1>1, StreamInvariant, PTL

(***************************************************************************)
(* Between rebuilds the subscribed futures are those of the window.        *)
(***************************************************************************)
THEOREM WindowIsSubscribed == Spec => []WindowSubscribed
<1>1. StreamInv => WindowSubscribed
  BY DEF StreamInv, Followed, WindowSubscribed
<1> QED
  BY <1>1, StreamInvariant, PTL

(***************************************************************************)
(* max_lines is exceeded by the futures of the window but one at most, for *)
(* any max_lines and any number of months.                                 *)
(***************************************************************************)
THEOREM LinesAreBounded == Spec => []LinesBound
<1>1. ASSUME StreamInv PROVE LinesBound
  <2>1. Cardinality(DOMAIN futSub) <= MonthsAhead
    <3>1. \/ DOMAIN futSub = window.tradeable
          \/ DOMAIN futSub \subseteq stream.next.tradeable
      BY <1>1 DEF StreamInv, Shapes, Followed, Done
    <3>2. /\ IsFiniteSet(stream.next.tradeable)
          /\ Cardinality(window.tradeable) <= MonthsAhead
          /\ Cardinality(stream.next.tradeable) <= MonthsAhead
      <4>1. stream.next.tradeable \subseteq Futures
        BY <1>1 DEF StreamInv, Shapes, Window
      <4> QED
        BY <1>1, <4>1, Constants, FS_Subset DEF StreamInv, Counted
    <3>3. CASE DOMAIN futSub \subseteq stream.next.tradeable
      <4>1. Cardinality(DOMAIN futSub) <= Cardinality(stream.next.tradeable)
        BY <3>2, <3>3, FS_Subset
      <4>2. Cardinality(stream.next.tradeable) \in Nat /\ Cardinality(DOMAIN futSub) \in Nat
        BY <1>1, <3>2, LinesCounted, FS_CardinalityType
      <4> QED
        BY <3>2, <4>1, <4>2, Constants
    <3> QED
      BY <3>1, <3>2, <3>3
  <2>2. Cardinality(DOMAIN fopSub) <= MaxLines - 1
    BY <1>1 DEF StreamInv, Counted
  <2> QED
    BY <1>1, <2>1, <2>2, LinesCounted, Constants DEF LinesBound
<1> QED
  BY <1>1, StreamInvariant, PTL

-----------------------------------------------------------------------------
(* The request ids *)

(***************************************************************************)
(* What is chosen, by the window or by the one that is being built, and    *)
(* the futures that may yet be subscribed for the first time: those a      *)
(* rebuild still has to do, and those a later window may take.             *)
(***************************************************************************)
Chosen == IF stream.pc \in {"subscribe"} \cup Futures THEN stream.next.tradeable
                                                      ELSE window.tradeable

Ahead == (stream.todo \ {stream.pc}) \cup (Eligible \ Chosen)

(***************************************************************************)
(* The futures whose options may yet be subscribed for the first time.     *)
(***************************************************************************)
Asked == {f \in Futures : inflight[f] = "asked"}

Listed == IF stream.pc \in Futures THEN ToSet(optParams) ELSE {}

Answerable == Ahead \cup Asked \cup Listed

(***************************************************************************)
(* A future that was chosen stays so until it is too old, hence none comes *)
(* twice; a chain is asked for once and its entry is listed once.          *)
(***************************************************************************)
OnceEach ==
  /\ stream.pc \in {"idle", "discover"} => stream.todo = {}
  /\ Chosen \cap Eligible \subseteq Tradeable
  /\ Asked \cap Ahead = {}
  /\ ToSet(optParams) \cap (Ahead \cup Asked) = {}

(***************************************************************************)
(* One id for each future that came and one for each of its options.       *)
(***************************************************************************)
IdsSpent ==
  nextId <= Cardinality(Futures \ Ahead) + Cardinality((Futures \ Answerable) \X Strikes)

IdsInv == OnceEach /\ IdsSpent

LEMMA PartsFit ==
  ASSUME NEW B, IsFiniteSet(B), NEW A \in SUBSET B, NEW C \in SUBSET B, A \cap C = {}
  PROVE  /\ Cardinality(A) \in Nat /\ Cardinality(B) \in Nat /\ Cardinality(C) \in Nat
         /\ Cardinality(A) + Cardinality(C) <= Cardinality(B)
<1> DEFINE D == A \cup C
<1>1. IsFiniteSet(A) /\ IsFiniteSet(C) /\ D \subseteq B
  BY FS_Subset
<1>2. Cardinality(D) = Cardinality(A) + Cardinality(C) - Cardinality(A \cap C)
  BY <1>1, FS_Union
<1>3. Cardinality(A \cap C) = 0
  BY FS_EmptySet
<1> HIDE DEF D
<1>4. Cardinality(D) <= Cardinality(B)
  BY <1>1, FS_Subset
<1>5. Cardinality(A) \in Nat /\ Cardinality(B) \in Nat /\ Cardinality(C) \in Nat
  BY <1>1, FS_CardinalityType
<1> QED
  BY <1>2, <1>3, <1>4, <1>5

LEMMA AppendListed ==
  ASSUME NEW s \in Seq(Futures), NEW f \in Futures
  PROVE  ToSet(Append(s, f)) = ToSet(s) \cup {f}
<1>1. /\ DOMAIN Append(s, f) = DOMAIN s \cup {Len(s) + 1}
      /\ \A i \in DOMAIN s : Append(s, f)[i] = s[i]
      /\ Append(s, f)[Len(s) + 1] = f
  OBVIOUS
<1> QED
  BY <1>1 DEF ToSet

(***************************************************************************)
(* With the days the eligible futures get fewer, and those before a future *)
(* too.                                                                    *)
(***************************************************************************)
LEMMA DaysPass ==
  ASSUME Shapes, TimePasses
  PROVE  Eligible' \subseteq Eligible /\ Tradeable \cap Eligible' \subseteq Tradeable'
<1>1. clock.day \in Nat /\ clock'.day \in {clock.day, clock.day + 1}
  <2>1. clock \in [day : 0 .. LastDay, late : BOOLEAN] /\ LastDay \in Nat
    BY Constants DEF Shapes
  <2> QED
    BY <2>1 DEF TimePasses
<1>2. Eligible' \subseteq Eligible
  <2>1. \A f \in Futures : Dte(f) \in Int /\ Dte(f)' \in {Dte(f), Dte(f) - 1}
    BY <1>1, Constants DEF Dte
  <2>2. DropDte \in Nat
    BY StreamAssumption
  <2> QED
    BY <2>1, <2>2 DEF Eligible
<1>3. ASSUME NEW f \in Tradeable \cap Eligible'
      PROVE  f \in Tradeable'
  <2> DEFINE old == {g \in Eligible : Expiry[g] < Expiry[f]}
             new == {g \in Eligible' : Expiry[g] < Expiry[f]}
  <2>1. new \subseteq old /\ old \subseteq Futures /\ Cardinality(old) < MonthsAhead
    BY <1>2 DEF Tradeable, Eligible
  <2>2. \A c : c = Cardinality(new) /\ c < MonthsAhead => f \in Tradeable'
    BY <1>3 DEF Tradeable
  <2> HIDE DEF old, new
  <2>3. IsFiniteSet(old)
    BY <2>1, Constants, FS_Subset
  <2>4. Cardinality(new) + Cardinality({}) <= Cardinality(old)
        /\ Cardinality(new) \in Nat /\ Cardinality(old) \in Nat /\ Cardinality({}) = 0
    BY <2>1, <2>3, PartsFit, FS_EmptySet
  <2>5. Cardinality(new) < MonthsAhead
    BY <2>1, <2>4, Constants
  <2> QED
    BY <2>2, <2>5
<1> QED
  BY <1>2, <1>3

Narrows ==
  OnceEach' /\ Ahead' \subseteq Ahead /\ Answerable' \subseteq Answerable

Calm == UNCHANGED <<inflight, optParams, clock>>

LEMMA CalmNarrows ==
  ASSUME OnceEach, Calm, Ahead' \subseteq Ahead, Listed' \subseteq Listed,
         stream'.pc \in {"idle", "discover"} => stream'.todo = {},
         (Chosen \cap Eligible)' \subseteq Tradeable'
  PROVE  Narrows
<1>1. Asked' = Asked
  BY DEF Calm, Asked
<1>2. ToSet(optParams)' = ToSet(optParams)
  BY DEF Calm
<1> QED
  BY <1>1, <1>2 DEF Narrows, OnceEach, Answerable

(***************************************************************************)
(* A future that is subscribed was not before.                             *)
(***************************************************************************)
LEMMA SubscribeNarrows ==
  ASSUME Shapes, Followed, OnceEach, NEW f \in Futures, SubscribeFuture(f)
  PROVE  Narrows /\ f \in Ahead /\ f \notin Ahead'
<1> USE Constants
<1> DEFINE Streams == [pc : {"idle", "discover", "subscribe"} \cup Futures,
                       next : Window, todo : SUBSET Futures]
<1>1. stream \in Streams
  BY DEF Shapes
<1>2. ASSUME UNCHANGED clock
      PROVE  Eligible' = Eligible /\ Tradeable' = Tradeable
  BY <1>2 DEF Eligible, Tradeable, Dte
<1>3. /\ stream.pc = "subscribe" /\ f \in stream.todo /\ stream'.pc = f
      /\ stream'.todo = stream.todo /\ stream'.next = stream.next
      /\ UNCHANGED <<clock, window>> /\ optParams' = << >>
      /\ inflight' \in {inflight, [inflight EXCEPT ![f] = "asked"]}
  BY <1>1 DEF SubscribeFuture, worldVars
<1>4. Chosen' = Chosen /\ stream.todo \subseteq Chosen
  BY <1>3 DEF Chosen, Followed
<1>5. Ahead' = Ahead \ {f} /\ f \in Ahead
  <2>1. f # "subscribe" /\ "subscribe" \notin stream.todo
    BY <1>1
  <2>2. Ahead = stream.todo \cup (Eligible \ Chosen)
    BY <1>3, <2>1 DEF Ahead
  <2>3. Ahead' = (stream.todo \ {f}) \cup (Eligible \ Chosen)
    BY <1>2, <1>3, <1>4 DEF Ahead
  <2> QED
    BY <1>3, <1>4, <2>2, <2>3
<1>6. ToSet(optParams') = {}
  BY <1>3 DEF ToSet
<1>7. Asked' \subseteq Asked \cup {f}
  BY <1>3 DEF Asked, Shapes
<1>8. Listed' = {}
  BY <1>6 DEF Listed
<1>9. OnceEach'
  <2>1. stream'.pc \notin {"idle", "discover"}
    BY <1>3
  <2>2. (Chosen \cap Eligible)' \subseteq Tradeable'
    BY <1>2, <1>3, <1>4 DEF OnceEach
  <2>3. Asked' \cap Ahead' = {}
    BY <1>5, <1>7 DEF OnceEach
  <2> QED
    BY <1>6, <2>1, <2>2, <2>3 DEF OnceEach
<1> QED
  BY <1>5, <1>7, <1>8, <1>9 DEF Narrows, Answerable

(***************************************************************************)
(* The steps of the stream thread.                                         *)
(***************************************************************************)
LEMMA StreamNarrows ==
  ASSUME Shapes, Followed, OnceEach, StreamStep
  PROVE  Narrows
<1> USE Constants
<1> DEFINE Streams == [pc : {"idle", "discover", "subscribe"} \cup Futures,
                       next : Window, todo : SUBSET Futures]
<1>1. stream \in Streams
  BY DEF Shapes
<1>2. ASSUME UNCHANGED clock
      PROVE  Eligible' = Eligible /\ Tradeable' = Tradeable
  BY <1>2 DEF Eligible, Tradeable, Dte
<1>3. Eligible \subseteq Futures /\ Tradeable \subseteq Eligible
  BY DEF Eligible, Tradeable
<1>4. CASE RebuildBegins
  <2>1. /\ Calm /\ window' = window /\ stream.pc = "idle" /\ stream'.pc = "discover"
        /\ stream'.todo = stream.todo /\ stream.todo = {}
    BY <1>1, <1>4 DEF RebuildBegins, ibVars, chainVars, worldVars, Calm, OnceEach
  <2>2. Chosen' = Chosen /\ Ahead' = Ahead /\ Listed' = {}
    BY <1>2, <2>1 DEF Chosen, Ahead, Listed, Calm
  <2> QED
    BY <1>2, <2>1, <2>2, CalmNarrows DEF OnceEach, Calm
<1>5. CASE DiscoveryTimesOut
  <2>1. /\ Calm /\ window' = window /\ stream.pc = "discover" /\ stream'.pc = "idle"
        /\ stream'.todo = {} /\ stream.todo = {}
    BY <1>5 DEF DiscoveryTimesOut, IdleStream, ibVars, chainVars, worldVars, Calm, OnceEach
  <2>2. Chosen' = Chosen /\ Ahead' = Ahead /\ Listed' = {}
    BY <1>2, <2>1 DEF Chosen, Ahead, Listed, Calm
  <2> QED
    BY <1>2, <2>1, <2>2, CalmNarrows DEF OnceEach, Calm
<1>6. CASE DiscoveryAnswers
  <2>1. /\ Calm /\ window' = window /\ stream.pc = "discover" /\ stream.todo = {}
        /\ stream' = [pc |-> "subscribe", next |-> ActiveWindow,
                      todo |-> Tradeable \ window.tradeable]
    BY <1>6 DEF DiscoveryAnswers, chainVars, worldVars, Calm, OnceEach
  <2>2. /\ stream'.pc = "subscribe" /\ stream'.next.tradeable = Tradeable
        /\ stream'.todo = Tradeable \ window.tradeable
    BY <2>1 DEF ActiveWindow
  <2>3. Chosen = window.tradeable /\ Chosen' = Tradeable /\ Listed' = {}
    BY <2>1, <2>2 DEF Chosen, Listed
  <2>4. Ahead' \subseteq Ahead
    BY <1>2, <1>3, <2>1, <2>2, <2>3 DEF Ahead, OnceEach, Calm
  <2> QED
    BY <1>2, <2>1, <2>2, <2>3, <2>4, CalmNarrows DEF Calm
<1>7. CASE \E f \in Futures : SubscribeFuture(f)
  BY <1>7, SubscribeNarrows
<1>8. CASE ChainTimesOut \/ \E atm \in Strikes : ChainAnswers(atm)
  <2>1. Calm /\ window' = window /\ stream.pc \in Futures /\ ChainDone
    BY <1>8 DEF ChainTimesOut, ChainAnswers, ibVars, chainVars, worldVars, Calm
  <2>2. /\ stream'.pc = "subscribe" /\ stream'.next = stream.next
        /\ stream'.todo = stream.todo \ {stream.pc} /\ stream.todo \subseteq Futures
    BY <1>1, <2>1 DEF ChainDone
  <2>3. Chosen' = Chosen /\ Listed' = {}
    BY <2>1, <2>2 DEF Chosen, Listed
  <2>4. Ahead' = Ahead
    BY <1>2, <2>1, <2>2, <2>3 DEF Ahead, Calm
  <2> QED
    BY <1>2, <2>1, <2>2, <2>3, <2>4, CalmNarrows DEF OnceEach, Calm
<1>9. CASE RebuildEnds
  <2>1. /\ Calm /\ window' = stream.next /\ stream.pc = "subscribe" /\ stream.todo = {}
        /\ stream'.pc = "idle" /\ stream'.todo = {}
    BY <1>9 DEF RebuildEnds, IdleStream, ibVars, chainVars, worldVars, Calm
  <2>2. Chosen' = Chosen /\ Listed' = {}
    BY <2>1 DEF Chosen, Listed
  <2>3. Ahead' = Ahead
    BY <1>2, <2>1, <2>2 DEF Ahead, Calm
  <2> QED
    BY <1>2, <2>1, <2>2, <2>3, CalmNarrows DEF OnceEach, Calm
<1> QED
  BY <1>4, <1>5, <1>6, <1>7, <1>8, <1>9 DEF StreamStep

(***************************************************************************)
(* The callbacks, and the world but for restarts.                          *)
(***************************************************************************)
LEMMA OthersNarrow ==
  ASSUME Shapes, OnceEach,
         Callback \/ (World /\ ~Restart) \/ UNCHANGED vars
  PROVE  Narrows
<1>1. ASSUME UNCHANGED <<clock, stream, window>>
      PROVE  /\ Ahead' = Ahead /\ Chosen' = Chosen /\ Tradeable' = Tradeable
             /\ Eligible' = Eligible
  BY <1>1 DEF Ahead, Chosen, Tradeable, Eligible, Dte
<1>2. ASSUME NEW f \in Futures, ChainEntry(f)
      PROVE  Narrows
  <2>1. /\ UNCHANGED <<clock, stream, window>> /\ f \in Asked
        /\ inflight' = [inflight EXCEPT ![f] = "given"]
        /\ optParams' = Append(optParams, f)
    BY <1>2 DEF ChainEntry, worldVars, Asked
  <2>2. Asked' = Asked \ {f}
    BY <2>1 DEF Asked, Shapes
  <2>3. ToSet(optParams)' = ToSet(optParams) \cup {f}
    BY <2>1, AppendListed DEF Shapes
  <2>4. Listed' \subseteq Listed \cup {f}
    BY <2>1, <2>3 DEF Listed
  <2> QED
    BY <1>1, <2>1, <2>2, <2>3, <2>4 DEF Narrows, OnceEach, Answerable
<1>3. ASSUME UNCHANGED <<clock, stream, window, optParams>>, Asked' \subseteq Asked
      PROVE  Narrows
  <2>1. Listed' = Listed /\ ToSet(optParams)' = ToSet(optParams)
    BY <1>3 DEF Listed
  <2> QED
    BY <1>1, <1>3, <2>1 DEF Narrows, OnceEach, Answerable
<1>4. ASSUME NEW f \in Futures, ChainEnd(f)
      PROVE  Narrows
  <2>1. Asked' \subseteq Asked
    BY <1>4 DEF ChainEnd, Asked, Shapes
  <2> QED
    BY <1>3, <1>4, <2>1 DEF ChainEnd, worldVars
<1>5. CASE Disconnect
  <2>1. Asked' \subseteq Asked
    BY <1>5 DEF Disconnect, HangUp, Asked
  <2> QED
    BY <1>3, <1>5, <2>1 DEF Disconnect, chainVars
<1>6. ASSUME UNCHANGED <<clock, stream, window, optParams, inflight>>
      PROVE  Narrows
  <2>1. Asked' = Asked
    BY <1>6 DEF Asked
  <2> QED
    BY <1>3, <1>6, <2>1
<1>7. CASE (\E f \in Futures : PositionOpened(f) \/ PositionClosed(f)) \/ UNCHANGED vars
  BY <1>6, <1>7 DEF PositionOpened, PositionClosed, vars, ibVars, chainVars, worldVars
<1>8. CASE TimePasses
  <2>1. UNCHANGED <<stream, window, inflight, optParams>>
    BY <1>8 DEF TimePasses, ibVars, chainVars
  <2>2. Chosen' = Chosen /\ Listed' = Listed /\ Asked' = Asked
        /\ ToSet(optParams)' = ToSet(optParams)
    BY <2>1 DEF Chosen, Listed, Asked
  <2>3. Eligible' \subseteq Eligible /\ Tradeable \cap Eligible' \subseteq Tradeable'
    BY <1>8, DaysPass
  <2>4. Ahead' \subseteq Ahead
    BY <2>1, <2>2, <2>3 DEF Ahead
  <2> QED
    BY <2>1, <2>2, <2>3, <2>4 DEF Narrows, OnceEach, Answerable
<1> QED
  BY <1>2, <1>4, <1>5, <1>7, <1>8 DEF Callback, World

LEMMA IdsNext ==
  ASSUME StreamInv, IdsInv, [Next]_vars
  PROVE  IdsInv'
<1> DEFINE Old == Futures \ Ahead                     New == Futures \ Ahead'
           OldOps == (Futures \ Answerable) \X Strikes
           NewOps == (Futures \ Answerable') \X Strikes
<1>1. Shapes /\ Followed /\ OnceEach
  BY DEF StreamInv, IdsInv
<1>2. nextId \in Nat /\ nextId <= Cardinality(Old) + Cardinality(OldOps)
  BY DEF IdsInv, IdsSpent, StreamInv, Shapes, Subs
<1>3. /\ IsFiniteSet(New) /\ IsFiniteSet(NewOps)
      /\ Cardinality(New) \in Nat /\ Cardinality(NewOps) \in Nat
  <2>1. New \subseteq Futures /\ NewOps \subseteq Options
    BY DEF Options
  <2> HIDE DEF New, NewOps
  <2> QED
    BY <2>1, Constants, FS_Subset, FS_CardinalityType
<1>4. ASSUME Narrows
      PROVE  OnceEach' /\ Old \subseteq New /\ OldOps \subseteq NewOps
  BY <1>4 DEF Narrows
<1>5. ASSUME OnceEach', nextId' <= Cardinality(New) + Cardinality(NewOps)
      PROVE  IdsInv'
  BY <1>5 DEF IdsInv, IdsSpent
<1> HIDE DEF Old, New, OldOps, NewOps
<1>6. CASE Restart
  <2>1. /\ nextId' = 0 /\ stream' = IdleStream /\ window' = NoWindow /\ optParams' = << >>
        /\ inflight' = [f \in Futures |-> "none"]
    BY <1>6 DEF Restart, HangUp
  <2>2. stream'.pc = "idle" /\ stream'.todo = {} /\ window'.tradeable = {}
    BY <2>1 DEF IdleStream, NoWindow
  <2>3. Chosen' = {} /\ Asked' = {} /\ ToSet(optParams') = {}
    BY <2>1, <2>2, Constants DEF Chosen, Asked, ToSet
  <2>4. OnceEach'
    BY <2>2, <2>3 DEF OnceEach
  <2> QED
    BY <1>3, <1>5, <2>1, <2>4
<1>7. ASSUME Narrows, nextId' = nextId
      PROVE  IdsInv'
  <2>1. /\ Cardinality(Old) + Cardinality({}) <= Cardinality(New)
        /\ Cardinality(OldOps) + Cardinality({}) <= Cardinality(NewOps)
        /\ Cardinality(Old) \in Nat /\ Cardinality(OldOps) \in Nat /\ Cardinality({}) = 0
    BY <1>3, <1>4, <1>7, PartsFit, FS_EmptySet
  <2> QED
    BY <1>2, <1>3, <1>4, <1>5, <1>7, <2>1
<1>8. ASSUME NEW f \in Futures, SubscribeFuture(f)
      PROVE  IdsInv'
  <2>1. Narrows /\ f \notin Old /\ f \in New /\ nextId' = nextId + 1
    BY <1>1, <1>8, SubscribeNarrows DEF SubscribeFuture, Old, New
  <2>2. /\ Cardinality(Old) + Cardinality({f}) <= Cardinality(New)
        /\ Cardinality(OldOps) + Cardinality({}) <= Cardinality(NewOps)
        /\ Cardinality(Old) \in Nat /\ Cardinality(OldOps) \in Nat /\ Cardinality({}) = 0
    BY <1>3, <1>4, <2>1, PartsFit, FS_EmptySet
  <2>3. Cardinality({f}) = 1
    BY FS_Singleton
  <2> QED
    BY <1>2, <1>3, <1>4, <1>5, <2>1, <2>2, <2>3
<1>9. ASSUME NEW atm \in Strikes, ChainAnswers(atm)
      PROVE  IdsInv'
  <2> DEFINE fresh == Fresh(AroundTheMoney(atm))
  <2>1. /\ nextId' = nextId + Cardinality(fresh) /\ stream.pc \in Futures
        /\ stream'.pc = "subscribe" /\ optParams' = optParams /\ inflight' = inflight
    <3>1. stream \in [pc : {"idle", "discover", "subscribe"} \cup Futures,
                      next : Window, todo : SUBSET Futures]
      BY <1>1 DEF Shapes
    <3> QED
      BY <1>9, <3>1 DEF ChainAnswers, ChainDone, chainVars, Fresh
  <2>2. fresh \subseteq ToSet(optParams) \X Strikes
    BY DEF Fresh, AroundTheMoney
  <2>3. Narrows
    BY <1>1, <1>9, StreamNarrows DEF StreamStep
  <2>4. ToSet(optParams) \subseteq Answerable /\ ToSet(optParams) \subseteq Futures
    <3>1. ToSet(optParams) \subseteq Futures
      BY <1>1 DEF Shapes, ToSet
    <3> QED
      BY <2>1, <3>1 DEF Answerable, Listed
  <2>5. ToSet(optParams) \cap Answerable' = {}
    <3>1. Listed' = {}
      BY <2>1, Constants DEF Listed
    <3>2. ToSet(optParams) \cap (Ahead' \cup Asked') = {}
      BY <2>1, <2>3 DEF Narrows, OnceEach
    <3> QED
      BY <3>1, <3>2 DEF Answerable
  <2>6. OldOps \cap fresh = {} /\ fresh \subseteq NewOps
    BY <2>2, <2>4, <2>5 DEF OldOps, NewOps
  <2> HIDE DEF fresh
  <2>7. /\ Cardinality(Old) + Cardinality({}) <= Cardinality(New)
        /\ Cardinality(OldOps) + Cardinality(fresh) <= Cardinality(NewOps)
        /\ Cardinality(Old) \in Nat /\ Cardinality(OldOps) \in Nat /\ Cardinality({}) = 0
        /\ Cardinality(fresh) \in Nat
    BY <1>3, <1>4, <2>3, <2>6, PartsFit, FS_EmptySet
  <2> QED
    BY <1>2, <1>3, <1>4, <1>5, <2>1, <2>3, <2>7
<1>10. Narrows \/ Restart
  BY <1>1, StreamNarrows, OthersNarrow DEF Next
<1>11. \/ nextId' = nextId
       \/ \E f \in Futures : SubscribeFuture(f)
       \/ \E atm \in Strikes : ChainAnswers(atm)
       \/ Restart
  BY Steps DEF Quiet, DiscoveryAnswers, Disconnect, subVars
<1> QED
  BY <1>6, <1>7, <1>8, <1>9, <1>10, <1>11

LEMMA IdsInit == Init => IdsInv
<1> SUFFICES ASSUME Init PROVE IdsInv
  OBVIOUS
<1>1. /\ nextId = 0 /\ stream.pc = "idle" /\ stream.todo = {} /\ window.tradeable = {}
      /\ optParams = << >> /\ inflight = [f \in Futures |-> "none"]
  BY DEF Init, IdleStream, NoWindow
<1>2. Chosen = {} /\ Asked = {} /\ ToSet(optParams) = {}
  BY <1>1, Constants DEF Chosen, Asked, ToSet
<1>3. OnceEach
  BY <1>1, <1>2 DEF OnceEach
<1>4. IdsSpent
  <2> DEFINE A == Futures \ Ahead
             B == (Futures \ Answerable) \X Strikes
  <2>1. A \subseteq Futures /\ B \subseteq Options
    BY DEF Options
  <2>2. nextId <= Cardinality(A) + Cardinality(B) => IdsSpent
    BY DEF IdsSpent
  <2> HIDE DEF A, B
  <2>3. Cardinality(A) \in Nat /\ Cardinality(B) \in Nat
    BY <2>1, Constants, FS_Subset, FS_CardinalityType
  <2> QED
    BY <1>1, <2>2, <2>3
<1> QED
  BY <1>3, <1>4 DEF IdsInv

(***************************************************************************)
(* Types, and with them that no future and no option is subscribed twice   *)
(* by one process: its request ids stay within one for each of them,       *)
(* however the days pass and whichever answers come late.                  *)
(***************************************************************************)
THEOREM StreamTypes == Spec => []StreamTypeOK
<1>1. StreamInv /\ IdsInv /\ [Next]_vars => StreamInv' /\ IdsInv'
  BY StreamNext, IdsNext
<1>2. ASSUME StreamInv, IdsInv
      PROVE  StreamTypeOK
  <2> DEFINE A == Futures \ Ahead
             B == (Futures \ Answerable) \X Strikes
  <2>1. A \subseteq Futures /\ B \subseteq Options
    BY DEF Options
  <2>2. nextId \in Nat /\ nextId <= Cardinality(A) + Cardinality(B)
    BY <1>2 DEF IdsInv, IdsSpent, StreamInv, Shapes, Subs
  <2> HIDE DEF A, B
  <2>3. /\ Cardinality(A) + Cardinality({}) <= Cardinality(Futures)
        /\ Cardinality(B) + Cardinality({}) <= Cardinality(Options)
        /\ Cardinality(A) \in Nat /\ Cardinality(B) \in Nat /\ Cardinality({}) = 0
        /\ Cardinality(Futures) \in Nat /\ Cardinality(Options) \in Nat
    BY <2>1, Constants, PartsFit, FS_EmptySet
  <2>4. nextId \in 0 .. MaxId
    BY <2>2, <2>3 DEF MaxId
  <2>5. DOMAIN quotes \subseteq 1 .. nextId
    BY <1>2 DEF StreamInv, Quoted, FutIds, FopIds, Shapes, Subs
  <2>6. lines \subseteq 1 .. nextId
    BY <1>2, <2>5 DEF StreamInv, Sent
  <2>7. /\ stream.pc \in {"idle", "discover", "subscribe"} \cup Futures
        /\ stream.next \in Window /\ stream.todo \subseteq Futures
    BY <1>2 DEF StreamInv, Shapes
  <2> QED
    BY <1>2, <2>4, <2>5, <2>6, <2>7 DEF StreamTypeOK, StreamInv, Shapes, Subs
<1> QED
  BY <1>1, <1>2, StreamInit, IdsInit, PTL DEF Spec

=============================================================================
