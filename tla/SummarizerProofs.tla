-------------------------- MODULE SummarizerProofs --------------------------
(***************************************************************************)
(* Theorems about Summarizer: for every interval, window, alert limit and  *)
(* number of writers, rows and faults.  Like Summarizer they are about the *)
(* aligned schedule of daemons/summarizer.py.                              *)
(*                                                                         *)
(* A row has its place when the digests account for it, committed or not.  *)
(* The argument follows one row from the moment it is stamped: it is       *)
(* awaited until a digest ends after it, and then that digest has read its *)
(* section, or began too late.                                             *)
(***************************************************************************)
EXTENDS Summarizer, TLAPS

Uncommitted == UNION {writing[w] : w \in Writers}

Read == {Sections[i] : i \in 1 .. daemon.pc - 1}      \* the sections read so far

Last == digests[Len(digests)]

Digest == [due : Int, to : 0 .. MaxTime, found : SUBSET Row, broken : BOOLEAN]

(***************************************************************************)
(* The shape of the variables, which TypeOK gives by their fields only.    *)
(***************************************************************************)
Shapes ==
  /\ TypeOK
  /\ writing \in [Writers -> SUBSET Row]
  /\ daemon \in [pc : 0 .. 5, due : 1 .. MaxTime + Interval, to : 0 .. MaxTime,
                 found : SUBSET Row]
  /\ digests \in Seq(Digest)
  /\ broken \in BOOLEAN

(***************************************************************************)
(* A tick is due at a multiple of the interval and starts no earlier.      *)
(***************************************************************************)
OnTime ==
  /\ NextAlignedTick(daemon.due - 1) = daemon.due
  /\ daemon.pc # 0 => daemon.due <= daemon.to
  /\ daemon.to <= clock
  /\ digests # << >> => Last.to <= clock

(***************************************************************************)
(* A digest that is not the first after a lost or overrun tick is due one  *)
(* interval after the one before.                                          *)
(***************************************************************************)
NextInLine ==
  digests # << >> /\ ~broken => daemon.due = Last.due + Interval

(***************************************************************************)
(* What the tick has made of a row whose section it has read.  A row with  *)
(* the time of the tick itself may come later; the next digest has it.     *)
(***************************************************************************)
Alerts(found, r) == {x \in found : x.kind = "alert" /\ x.ts >= r.ts}

Crowded(r) == r.kind = "alert" /\ Cardinality(Alerts(daemon.found, r)) = AlertLimit

Due(r) == daemon.to - Window <= r.ts /\ r.ts < daemon.to

SectionsRead ==
  /\ daemon.pc = 0 => daemon.found = {}
  /\ \A x \in daemon.found : x.kind \in Read
  /\ \A r \in rows \cup Uncommitted :
       r.kind \in Read /\ Due(r) => r \in daemon.found \/ r \in late \/ Crowded(r)

HasPlace(r) == Reported(r) \/ Awaited(r) \/ r \in late \/ CrowdedOut(r) \/ InGap(r)

Placed == \A r \in rows \cup Uncommitted : HasPlace(r)

DigestInv == Shapes /\ OnTime /\ NextInLine /\ SectionsRead /\ Placed

-----------------------------------------------------------------------------
(* The schedule *)

LEMMA Quotient ==
  ASSUME NEW n \in Nat, NEW d \in Nat \ {0}
  PROVE  /\ n \div d \in Nat
         /\ (n \div d) * d <= n
         /\ n < (n \div d + 1) * d
OBVIOUS

LEMMA QuotientUnique ==
  ASSUME NEW n \in Nat, NEW d \in Nat \ {0}, NEW q \in Nat, q * d <= n, n < (q + 1) * d
  PROVE  n \div d = q
<1> DEFINE p == n \div d
<1>1. p \in Nat /\ p * d <= n /\ n < (p + 1) * d
  BY Quotient
<1> HIDE DEF p
<1>2. ~(p < q)
  <2> SUFFICES ASSUME p < q PROVE FALSE
    OBVIOUS
  <2>1. PICK e \in Nat : q = p + 1 + e
    <3>1. q - p - 1 \in Nat
      BY <1>1
    <3> QED
      BY <1>1, <3>1
  <2>2. q * d = (p + 1) * d + e * d
    BY <1>1, <2>1
  <2>3. e * d >= 0
    OBVIOUS
  <2> QED
    BY <1>1, <2>2, <2>3
<1>3. ~(q < p)
  <2> SUFFICES ASSUME q < p PROVE FALSE
    OBVIOUS
  <2>1. PICK e \in Nat : p = q + 1 + e
    <3>1. p - q - 1 \in Nat
      BY <1>1
    <3> QED
      BY <1>1, <3>1
  <2>2. p * d = (q + 1) * d + e * d
    BY <1>1, <2>1
  <2>3. e * d >= 0
    OBVIOUS
  <2> QED
    BY <1>1, <2>2, <2>3
<1> QED
  BY <1>1, <1>2, <1>3 DEF p

(***************************************************************************)
(* _next_aligned_tick gives the next multiple, and the multiples are one   *)
(* interval apart.                                                         *)
(***************************************************************************)
LEMMA NextTick ==
  ASSUME NEW n \in Nat
  PROVE  /\ NextAlignedTick(n) \in Nat
         /\ n < NextAlignedTick(n) /\ NextAlignedTick(n) <= n + Interval
         /\ NextAlignedTick(NextAlignedTick(n) - 1) = NextAlignedTick(n)
<1> DEFINE q == n \div Interval
           t == NextAlignedTick(n)
<1>0. Interval \in Nat \ {0}
  BY SummarizerAssumption
<1>1. q \in Nat /\ q * Interval <= n /\ n < (q + 1) * Interval
  BY <1>0, Quotient
<1>2. t = (q + 1) * Interval
  BY DEF NextAlignedTick
<1> HIDE DEF q, t
<1>3. (q + 1) * Interval = q * Interval + Interval
  BY <1>0, <1>1
<1>4. t \in Nat /\ n < t /\ t <= n + Interval
  BY <1>0, <1>1, <1>2, <1>3
<1>5. (t - 1) \div Interval = q
  <2>1. t - 1 \in Nat /\ q * Interval <= t - 1 /\ t - 1 < (q + 1) * Interval
    BY <1>0, <1>1, <1>2, <1>3, <1>4
  <2> QED
    BY <1>0, <1>1, <2>1, QuotientUnique
<1>6. NextAlignedTick(t - 1) = t
  BY <1>2, <1>5 DEF NextAlignedTick
<1> QED
  BY <1>4, <1>6 DEF t

LEMMA TickAfter ==
  ASSUME NEW t \in Nat \ {0}, NextAlignedTick(t - 1) = t,
         NEW n \in Nat, t <= n, n < t + Interval
  PROVE  NextAlignedTick(n) = t + Interval
<1> DEFINE q == (t - 1) \div Interval
<1>0. Interval \in Nat \ {0}
  BY SummarizerAssumption
<1>1. q \in Nat
  BY <1>0, Quotient
<1>2. t = (q + 1) * Interval
  BY DEF NextAlignedTick
<1> HIDE DEF q
<1>3. ((q + 1) + 1) * Interval = (q + 1) * Interval + Interval
  BY <1>0, <1>1
<1>4. n \div Interval = q + 1
  <2>1. (q + 1) * Interval <= n /\ n < ((q + 1) + 1) * Interval
    BY <1>0, <1>2, <1>3
  <2> QED
    BY <1>0, <1>1, <2>1, q + 1 \in Nat, QuotientUnique
<1> QED
  BY <1>2, <1>3, <1>4 DEF NextAlignedTick

-----------------------------------------------------------------------------
(* The shape of the state *)

LEMMA Constants ==
  /\ MaxTime \in Nat /\ MaxRows \in Nat /\ MaxFaults \in Nat
  /\ Interval \in Nat \ {0} /\ Window \in Nat \ {0} /\ AlertLimit \in Nat \ {0}
  /\ Interval <= Window /\ Len(Sections) = 4
BY SummarizerAssumption DEF Sections

LEMMA WaitingFits ==
  ASSUME clock \in 0 .. MaxTime
  PROVE  /\ Waiting(clock) \in [pc : 0 .. 5, due : 1 .. MaxTime + Interval,
                                to : 0 .. MaxTime, found : SUBSET Row]
         /\ Waiting(clock).pc = 0 /\ Waiting(clock).to = 0 /\ Waiting(clock).found = {}
         /\ Waiting(clock).due = NextAlignedTick(clock)
         /\ NextAlignedTick(Waiting(clock).due - 1) = Waiting(clock).due
<1>1. clock \in Nat /\ clock <= MaxTime
  BY Constants
<1>2. /\ NextAlignedTick(clock) \in 1 .. MaxTime + Interval
      /\ NextAlignedTick(NextAlignedTick(clock) - 1) = NextAlignedTick(clock)
  BY <1>1, NextTick, Constants
<1> QED
  BY <1>2, Constants DEF Waiting

LEMMA ShapesInit == Init => Shapes /\ OnTime
<1> SUFFICES ASSUME Init PROVE Shapes /\ OnTime
  OBVIOUS
<1>1. clock = 0 /\ clock \in 0 .. MaxTime
  BY Constants DEF Init
<1>2. daemon = Waiting(clock)
  BY DEF Init
<1>3. /\ daemon \in [pc : 0 .. 5, due : 1 .. MaxTime + Interval,
                     to : 0 .. MaxTime, found : SUBSET Row]
      /\ daemon.pc = 0 /\ daemon.to = 0 /\ daemon.found = {}
      /\ NextAlignedTick(daemon.due - 1) = daemon.due
  BY <1>1, <1>2, WaitingFits
<1>4. digests = << >> /\ digests \in Seq(Digest)
  BY DEF Init
<1>5. /\ stamped = 0 /\ faults = 0 /\ rows = {} /\ broken = FALSE
      /\ writing = [w \in Writers |-> {}] /\ DOMAIN digests = {}
  BY <1>4 DEF Init
<1>6. writing \in [Writers -> SUBSET Row] /\ \A w \in Writers : writing[w] \subseteq Row
  BY <1>5
<1>7. TypeOK
  BY <1>1, <1>3, <1>4, <1>5, <1>6, Constants DEF TypeOK
<1>8. Shapes
  BY <1>3, <1>4, <1>5, <1>6, <1>7 DEF Shapes
<1> QED
  BY <1>1, <1>3, <1>4, <1>8 DEF OnTime

LEMMA ShapesNext ==
  ASSUME Shapes, [Next]_vars
  PROVE  Shapes'
<1> USE Constants
<1> DEFINE Daemons == [pc : 0 .. 5, due : 1 .. MaxTime + Interval,
                       to : 0 .. MaxTime, found : SUBSET Row]
<1>0. /\ clock \in 0 .. MaxTime /\ stamped \in 0 .. MaxRows /\ faults \in 0 .. MaxFaults
      /\ rows \subseteq Row /\ writing \in [Writers -> SUBSET Row]
      /\ daemon \in Daemons /\ daemon.found \subseteq rows
      /\ digests \in Seq(Digest) /\ \A i \in DOMAIN digests : digests[i].found \subseteq rows
      /\ broken \in BOOLEAN
  BY DEF Shapes, TypeOK
<1> SUFFICES
      /\ clock' \in 0 .. MaxTime /\ stamped' \in 0 .. MaxRows /\ faults' \in 0 .. MaxFaults
      /\ rows' \subseteq Row /\ writing' \in [Writers -> SUBSET Row]
      /\ daemon' \in Daemons /\ daemon'.found \subseteq rows'
      /\ digests' \in Seq(Digest)
      /\ \A i \in DOMAIN digests' : digests'[i].found \subseteq rows'
      /\ broken' \in BOOLEAN
  BY DEF Shapes, TypeOK
<1>1. CASE TimePasses
  BY <1>0, <1>1 DEF TimePasses, Histories
<1>2. ASSUME NEW w \in Writers, Stamp(w)
      PROVE  /\ UNCHANGED <<clock, rows, daemon, digests, faults, broken>>
             /\ stamped' \in 0 .. MaxRows /\ writing' \in [Writers -> SUBSET Row]
  <2>1. PICK kind \in Kinds :
          writing' = [writing EXCEPT
                        ![w] = {[id |-> stamped + 1, kind |-> kind, ts |-> clock]}]
    BY <1>2 DEF Stamp
  <2>2. stamped + 1 \in 1 .. MaxRows /\ stamped' = stamped + 1
    BY <1>0, <1>2 DEF Stamp
  <2>3. [id |-> stamped + 1, kind |-> kind, ts |-> clock] \in Row
    BY <1>0, <2>2 DEF Row
  <2> QED
    BY <1>0, <1>2, <2>1, <2>2, <2>3 DEF Stamp, Histories
<1>3. ASSUME NEW w \in Writers, Commit(w)
      PROVE  /\ UNCHANGED <<clock, stamped, daemon, digests, faults, broken>>
             /\ rows \subseteq rows' /\ rows' \subseteq Row
             /\ writing' \in [Writers -> SUBSET Row]
  BY <1>0, <1>3 DEF Commit, Histories
<1>4. ASSUME Wake
      PROVE  /\ UNCHANGED <<clock, writing, rows, stamped, digests, faults, broken>>
             /\ daemon' \in Daemons /\ daemon'.found = daemon.found
  <2>1. daemon' = [daemon EXCEPT !.pc = 1, !.to = clock]
    BY <1>4 DEF Wake
  <2>2. daemon' = [pc |-> 1, due |-> daemon.due, to |-> clock, found |-> daemon.found]
    BY <1>0, <2>1
  <2>3. daemon' \in Daemons
    BY <1>0, <2>2
  <2>4. daemon'.found = daemon.found
    BY <1>0, <2>1
  <2> QED
    BY <1>4, <2>3, <2>4 DEF Wake, Histories
<1>5. ASSUME ReadSection
      PROVE  /\ UNCHANGED <<clock, writing, rows, stamped, digests, faults, broken>>
             /\ daemon' \in Daemons /\ daemon'.found \subseteq rows
  <2> DEFINE kind == Sections[daemon.pc]
             inWindow == {r \in rows : r.kind = kind /\ InWindow(r, daemon.to)}
  <2>1. PICK S \in Shown(kind, inWindow) :
          daemon' = [daemon EXCEPT !.found = @ \union S, !.pc = @ + 1]
    BY <1>5 DEF ReadSection
  <2>2. S \subseteq rows
    BY DEF Shown
  <2>3. daemon.pc + 1 \in 0 .. 5
    BY <1>5 DEF ReadSection
  <2> QED
    BY <1>0, <1>5, <2>1, <2>2, <2>3 DEF ReadSection
<1>6. ASSUME daemon' = Waiting(clock) PROVE daemon' \in Daemons /\ daemon'.found = {}
  BY <1>0, <1>6, WaitingFits
<1>7. CASE Persist
  <2> DEFINE d == [due |-> daemon.due, to |-> daemon.to, found |-> daemon.found,
                   broken |-> broken]
  <2>1. d \in Digest
    BY <1>0 DEF Digest
  <2>2. d.found \subseteq rows
    BY <1>0
  <2>3. digests' = Append(digests, d)
    BY <1>7 DEF Persist
  <2>4. rows' = rows /\ broken' \in BOOLEAN
    BY <1>7 DEF Persist, Overran
  <2> HIDE DEF d
  <2>5. /\ digests' \in Seq(Digest)
        /\ \A i \in DOMAIN digests' : digests'[i].found \subseteq rows'
    BY <1>0, <2>1, <2>2, <2>3, <2>4
  <2> QED
    BY <1>0, <1>6, <1>7, <2>4, <2>5 DEF Persist
<1>8. CASE TickFails \/ Restart
  <2>1. /\ UNCHANGED <<clock, writing, rows, stamped, digests>>
        /\ faults < MaxFaults /\ faults' = faults + 1
        /\ broken' = TRUE /\ daemon' = Waiting(clock)
    BY <1>8 DEF TickFails, Restart
  <2>2. faults' \in 0 .. MaxFaults
    BY <1>0, <2>1
  <2> QED
    BY <1>0, <1>6, <2>1, <2>2
<1>9. CASE UNCHANGED vars
  BY <1>0, <1>9 DEF vars, Histories
<1> QED
  BY <1>0, <1>1, <1>2, <1>3, <1>4, <1>5, <1>7, <1>8, <1>9 DEF Next, Tick

(***************************************************************************)
(* The digests, their schedule and what they show keep their types, for    *)
(* any interval and any window.                                            *)
(***************************************************************************)
THEOREM DigestTypes == Spec => []TypeOK
<1>1. Init => Shapes
  BY ShapesInit
<1>2. Shapes /\ [Next]_vars => Shapes'
  BY ShapesNext
<1>3. Shapes => TypeOK
  BY DEF Shapes
<1> QED
  BY <1>1, <1>2, <1>3, PTL DEF Spec

-----------------------------------------------------------------------------
(* When the ticks are *)

LEMMA OnTimeNext ==
  ASSUME Shapes, OnTime, [Next]_vars
  PROVE  OnTime'
<1> USE Constants
<1>0. /\ clock \in 0 .. MaxTime
      /\ daemon \in [pc : 0 .. 5, due : 1 .. MaxTime + Interval, to : 0 .. MaxTime,
                     found : SUBSET Row]
      /\ digests \in Seq(Digest)
  BY DEF Shapes, TypeOK
<1>1. /\ NextAlignedTick(daemon.due - 1) = daemon.due
      /\ daemon.pc # 0 => daemon.due <= daemon.to
      /\ daemon.to <= clock
      /\ digests # << >> => digests[Len(digests)].to <= clock
  BY DEF OnTime, Last
<1> SUFFICES
      /\ NextAlignedTick(daemon'.due - 1) = daemon'.due
      /\ daemon'.pc # 0 => daemon'.due <= daemon'.to
      /\ daemon'.to <= clock'
      /\ digests' # << >> => digests'[Len(digests')].to <= clock'
  BY DEF OnTime, Last
<1>2. ASSUME daemon' = Waiting(clock)
      PROVE  /\ NextAlignedTick(daemon'.due - 1) = daemon'.due
             /\ daemon'.pc = 0 /\ daemon'.to <= clock
  BY <1>0, <1>2, WaitingFits
<1>3. digests # << >> => digests[Len(digests)].to \in Int
  <2>1. digests # << >> => digests[Len(digests)] \in Digest
    BY <1>0
  <2> QED
    BY <2>1 DEF Digest
<1>4. CASE TimePasses
  BY <1>0, <1>1, <1>3, <1>4 DEF TimePasses
<1>5. ASSUME NEW w \in Writers, Stamp(w) \/ Commit(w)
      PROVE  UNCHANGED <<clock, daemon, digests>>
  BY <1>5 DEF Stamp, Commit
<1>6. CASE Wake
  BY <1>0, <1>1, <1>6 DEF Wake
<1>7. CASE ReadSection
  <2>1. daemon'.due = daemon.due /\ daemon'.to = daemon.to /\ daemon.pc # 0
    BY <1>0, <1>7 DEF ReadSection
  <2> QED
    BY <1>1, <1>7, <2>1 DEF ReadSection
<1>8. CASE Persist
  <2> DEFINE d == [due |-> daemon.due, to |-> daemon.to, found |-> daemon.found,
                   broken |-> broken]
  <2>1. d.to = daemon.to /\ digests' = Append(digests, d)
    BY <1>8 DEF Persist
  <2> HIDE DEF d
  <2>2. digests'[Len(digests')] = d
    BY <1>0, <2>1
  <2> QED
    BY <1>0, <1>1, <1>2, <1>8, <2>1, <2>2 DEF Persist
<1>9. CASE TickFails \/ Restart
  BY <1>1, <1>2, <1>9 DEF TickFails, Restart
<1>10. CASE UNCHANGED vars
  BY <1>1, <1>10 DEF vars
<1> QED
  BY <1>1, <1>4, <1>5, <1>6, <1>7, <1>8, <1>9, <1>10 DEF Next, Tick

(***************************************************************************)
(* A tick that does not overrun its boundary is followed by the next one.  *)
(***************************************************************************)
LEMMA NextInLineNext ==
  ASSUME Shapes, OnTime, NextInLine, [Next]_vars
  PROVE  NextInLine'
<1> USE Constants
<1>0. /\ clock \in 0 .. MaxTime
      /\ daemon \in [pc : 0 .. 5, due : 1 .. MaxTime + Interval, to : 0 .. MaxTime,
                     found : SUBSET Row]
      /\ digests \in Seq(Digest)
  BY DEF Shapes, TypeOK
<1> SUFFICES digests' # << >> /\ ~broken' => daemon'.due = digests'[Len(digests')].due + Interval
  BY DEF NextInLine, Last
<1>1. digests # << >> /\ ~broken => daemon.due = digests[Len(digests)].due + Interval
  BY DEF NextInLine, Last
<1>2. CASE Persist
  <2> SUFFICES ASSUME ~broken' PROVE daemon'.due = digests'[Len(digests')].due + Interval
    OBVIOUS
  <2> DEFINE d == [due |-> daemon.due, to |-> daemon.to, found |-> daemon.found,
                   broken |-> broken]
  <2>1. d.due = daemon.due /\ digests' = Append(digests, d)
    BY <1>2 DEF Persist
  <2> HIDE DEF d
  <2>2. digests'[Len(digests')] = d
    BY <1>0, <2>1
  <2>3. daemon.due <= clock /\ clock < daemon.due + Interval
    <3>1. daemon.due \in Int /\ daemon.to \in Int /\ clock \in Int
      BY <1>0
    <3>2. daemon.due <= daemon.to /\ daemon.to <= clock
      BY <1>2 DEF OnTime, Persist
    <3>3. ~Overran
      BY <1>2 DEF Persist
    <3> QED
      BY <3>1, <3>2, <3>3 DEF Overran
  <2>4. NextAlignedTick(clock) = daemon.due + Interval
    BY <1>0, <2>3, TickAfter DEF OnTime
  <2>5. daemon'.due = NextAlignedTick(clock)
    BY <1>2 DEF Persist, Waiting
  <2> QED
    BY <2>1, <2>2, <2>4, <2>5
<1>3. CASE TimePasses \/ (\E w \in Writers : Stamp(w) \/ Commit(w)) \/ UNCHANGED vars
  <2>1. digests' = digests /\ broken' = broken /\ daemon' = daemon
    BY <1>3 DEF TimePasses, Stamp, Commit, Histories, vars
  <2> QED
    BY <1>1, <2>1
<1>4. CASE Wake \/ ReadSection
  <2>1. digests' = digests /\ broken' = broken
    BY <1>4 DEF Wake, ReadSection, Histories
  <2>2. daemon'.due = daemon.due
    BY <1>0, <1>4 DEF Wake, ReadSection
  <2> QED
    BY <1>1, <2>1, <2>2
<1>5. CASE TickFails \/ Restart
  BY <1>5 DEF TickFails, Restart
<1> QED
  BY <1>2, <1>3, <1>4, <1>5 DEF Next, Tick

-----------------------------------------------------------------------------
(* What a tick has read *)

LEMMA KindsRead ==
  ASSUME Shapes
  PROVE  /\ daemon.pc <= 1 => Read = {}
         /\ daemon.pc = 5 => Read = Kinds
         /\ daemon.pc \in 1 .. 4 => Sections[daemon.pc] \notin Read
<1>1. daemon.pc \in 0 .. 5
  BY DEF Shapes
<1>2. daemon.pc <= 1 => 1 .. daemon.pc - 1 = {}
  BY <1>1
<1>3. daemon.pc = 5 => 1 .. daemon.pc - 1 = 1 .. Len(Sections)
  BY Constants
<1>4. \A i \in 1 .. 4 : \A j \in 1 .. i - 1 : Sections[i] # Sections[j]
  BY DEF Sections
<1> QED
  BY <1>1, <1>2, <1>3, <1>4 DEF Read, Kinds

LEMMA SectionRead ==
  ASSUME Shapes, ReadSection
  PROVE  /\ daemon.pc \in 1 .. 4 /\ daemon'.pc = daemon.pc + 1
         /\ daemon'.to = daemon.to /\ daemon'.due = daemon.due
         /\ Read' = Read \cup {Sections[daemon.pc]}
<1>1. daemon \in [pc : 0 .. 5, due : 1 .. MaxTime + Interval, to : 0 .. MaxTime,
                  found : SUBSET Row]
  BY DEF Shapes
<1>2. daemon.pc \in 1 .. 4
  BY Constants DEF ReadSection
<1>3. PICK S : daemon' = [daemon EXCEPT !.found = @ \union S, !.pc = @ + 1]
  BY DEF ReadSection
<1>4. daemon'.pc = daemon.pc + 1
  BY <1>1, <1>3
<1>5. daemon'.to = daemon.to /\ daemon'.due = daemon.due
  BY <1>1, <1>3
<1>6. 1 .. daemon'.pc - 1 = (1 .. daemon.pc - 1) \cup {daemon.pc}
  BY <1>2, <1>4
<1> QED
  BY <1>2, <1>4, <1>5, <1>6 DEF Read

LEMMA SectionsInit == Init => SectionsRead /\ Placed
<1> SUFFICES ASSUME Init PROVE SectionsRead /\ Placed
  OBVIOUS
<1>1. rows \cup Uncommitted = {}
  BY DEF Init, Uncommitted
<1>2. daemon.found = {}
  BY DEF Init, Waiting
<1> QED
  BY <1>1, <1>2 DEF SectionsRead, Placed

(***************************************************************************)
(* The rows that are written or being written: a stamp adds one that is    *)
(* not older than the clock, nothing is ever taken away.                   *)
(***************************************************************************)
LEMMA RowsNext ==
  ASSUME Shapes, [Next]_vars
  PROVE  \A r \in rows' \cup Uncommitted' :
           \/ r \in rows \cup Uncommitted
           \/ /\ \E w \in Writers : Stamp(w)
              /\ r \in Row /\ r.ts = clock
<1>0. writing \in [Writers -> SUBSET Row]
  BY DEF Shapes
<1>1. CASE UNCHANGED <<rows, writing>>
  BY <1>1 DEF Uncommitted
<1>2. ASSUME NEW w \in Writers, Stamp(w)
      PROVE  \A r \in rows' \cup Uncommitted' :
               r \in rows \cup Uncommitted \/ (r \in Row /\ r.ts = clock)
  <2>1. PICK kind \in Kinds :
          writing' = [writing EXCEPT
                        ![w] = {[id |-> stamped + 1, kind |-> kind, ts |-> clock]}]
    BY <1>2 DEF Stamp
  <2>2. [id |-> stamped + 1, kind |-> kind, ts |-> clock] \in Row
    <3>1. clock \in 0 .. MaxTime /\ stamped + 1 \in 1 .. MaxRows
      BY <1>2, Constants DEF Stamp, Shapes, TypeOK
    <3> QED
      BY <3>1 DEF Row
  <2> DEFINE new == [id |-> stamped + 1, kind |-> kind, ts |-> clock]
  <2>3. new \in Row /\ new.ts = clock
    BY <2>2
  <2> HIDE DEF new
  <2>4. \A v \in Writers : writing'[v] = IF v = w THEN {new} ELSE writing[v]
    BY <1>0, <2>1 DEF new
  <2>5. rows' = rows
    BY <1>2 DEF Stamp
  <2> QED
    BY <2>3, <2>4, <2>5 DEF Uncommitted
<1>3. ASSUME NEW w \in Writers, Commit(w)
      PROVE  \A r \in rows' \cup Uncommitted' : r \in rows \cup Uncommitted
  <2>1. /\ rows' = rows \union writing[w]
        /\ \A v \in Writers : writing'[v] \subseteq writing[v]
    BY <1>0, <1>3 DEF Commit
  <2> QED
    BY <2>1 DEF Uncommitted
<1>4. TimePasses \/ Tick \/ TickFails \/ Restart \/ UNCHANGED vars => UNCHANGED <<rows, writing>>
  BY DEF TimePasses, Tick, Wake, ReadSection, Persist, TickFails, Restart, vars
<1> QED
  BY <1>1, <1>2, <1>3, <1>4 DEF Next

LEMMA SectionsNext ==
  ASSUME Shapes, OnTime, SectionsRead, [Next]_vars
  PROVE  SectionsRead'
<1> USE Constants
<1>0. /\ daemon \in [pc : 0 .. 5, due : 1 .. MaxTime + Interval, to : 0 .. MaxTime,
                     found : SUBSET Row]
      /\ clock \in 0 .. MaxTime
      /\ rows \cup Uncommitted \subseteq Row
  BY DEF Shapes, TypeOK, Uncommitted
<1>1. Shapes'
  BY ShapesNext
<1>2. CASE daemon'.pc <= 1 /\ daemon'.found = {}
  <2>1. 1 .. daemon'.pc - 1 = {}
    BY <1>1, <1>2 DEF Shapes
  <2>2. Read' = {}
    BY <2>1 DEF Read
  <2> QED
    BY <1>2, <2>2 DEF SectionsRead
<1>3. CASE Wake \/ Persist \/ TickFails \/ Restart
  <2>1. CASE Wake
    <3>1. daemon.found = {}
      BY <2>1 DEF Wake, SectionsRead
    <3>2. daemon' = [daemon EXCEPT !.pc = 1, !.to = clock]
      BY <2>1 DEF Wake
    <3>3. daemon'.pc = 1 /\ daemon'.found = daemon.found
      BY <1>0, <3>2
    <3> QED
      BY <1>2, <3>1, <3>3
  <2>2. CASE daemon' = Waiting(clock)
    <3>1. daemon'.pc = 0 /\ daemon'.found = {}
      BY <2>2 DEF Waiting
    <3> QED
      BY <1>2, <3>1
  <2> QED
    BY <1>3, <2>1, <2>2 DEF Persist, TickFails, Restart
<1>4. CASE UNCHANGED <<daemon, late>>
  <2>1. Read' = Read
    BY <1>4 DEF Read
  <2>2. ASSUME NEW r \in rows' \cup Uncommitted', r.kind \in Read, Due(r)
        PROVE  r \in daemon.found \/ r \in late \/ Crowded(r)
    <3>1. r.ts = clock => ~Due(r)
      BY <1>0 DEF Due, OnTime
    <3> QED
      BY <2>2, <3>1, RowsNext DEF SectionsRead
  <2>3. \A r : Due(r)' = Due(r) /\ Crowded(r)' = Crowded(r)
    BY <1>4 DEF Due, Crowded, Alerts
  <2> QED
    BY <1>4, <2>1, <2>2, <2>3 DEF SectionsRead
<1>5. CASE ReadSection
  <2> DEFINE kind == Sections[daemon.pc]
             of(S) == {r \in S : r.kind = kind /\ InWindow(r, daemon.to)}
  <2>1. PICK S \in Shown(kind, of(rows)) :
          daemon' = [daemon EXCEPT !.found = @ \union S, !.pc = @ + 1]
    BY <1>5 DEF ReadSection
  <2>2. late' = late \union UNION {of(writing[w]) : w \in Writers}
    BY <1>5 DEF ReadSection
  <2>3. S \subseteq of(rows)
    BY DEF Shown
  <2>4. daemon'.found = daemon.found \cup S
    BY <1>0, <2>1
  <2>5. /\ daemon.pc \in 1 .. 4 /\ daemon'.pc = daemon.pc + 1 /\ daemon'.to = daemon.to
        /\ Read' = Read \cup {kind} /\ kind \notin Read
    BY <1>5, SectionRead, KindsRead
  <2>6. rows' = rows /\ Uncommitted' = Uncommitted
    BY <1>5 DEF ReadSection, Uncommitted
  <2>7. \A x \in daemon.found : x.kind \in Read
    BY DEF SectionsRead
  <2>8. \A x \in daemon'.found : x.kind \in Read'
    BY <2>3, <2>4, <2>5, <2>7
  <2>9. ASSUME NEW r \in rows \cup Uncommitted, r.kind \in Read', Due(r)
        PROVE  \/ r \in daemon'.found \/ r \in late'
               \/ r.kind = "alert" /\ Cardinality(Alerts(daemon'.found, r)) = AlertLimit
    <3>1. r \in Row /\ InWindow(r, daemon.to)
      BY <1>0, <2>9 DEF Due, InWindow, Row
    <3>2. CASE r.kind \in Read
      <4>1. r \in daemon.found \/ r \in late \/ Crowded(r)
        BY <2>9, <3>2 DEF SectionsRead
      <4>2. Crowded(r) => Alerts(daemon'.found, r) = Alerts(daemon.found, r)
        BY <2>3, <2>4, <2>5, <3>2 DEF Crowded, Alerts
      <4> QED
        BY <2>2, <2>4, <4>1, <4>2 DEF Crowded
    <3>3. CASE r.kind = kind /\ r \in Uncommitted
      BY <2>2, <3>1, <3>3 DEF Uncommitted
    <3>4. CASE r.kind = kind /\ r \in rows /\ r \notin S
      <4>1. r \in of(rows)
        BY <3>1, <3>4
      <4>2. /\ kind = "alert" /\ Cardinality(S) = AlertLimit
            /\ \A x \in S, y \in of(rows) \ S : y.ts <= x.ts
        BY <3>4, <4>1 DEF Shown
      <4>3. \A x \in S : x.kind = "alert" /\ x.ts >= r.ts
        <5>1. \A x \in S : x.ts \in Int /\ r.ts \in Int
          BY <1>0, <2>3, <3>1 DEF Row
        <5> QED
          BY <2>3, <3>4, <4>1, <4>2, <5>1
      <4>4. Alerts(daemon'.found, r) = S
        BY <2>4, <2>5, <2>7, <4>2, <4>3 DEF Alerts
      <4> QED
        BY <3>4, <4>2, <4>4
    <3> QED
      BY <2>4, <2>5, <2>9, <3>2, <3>3, <3>4
  <2>10. \A r : Due(r)' = Due(r)
    BY <2>5 DEF Due
  <2> QED
    BY <2>5, <2>6, <2>8, <2>9, <2>10 DEF SectionsRead, Crowded
<1>6. TimePasses \/ (\E w \in Writers : Stamp(w) \/ Commit(w)) \/ UNCHANGED vars
        => UNCHANGED <<daemon, late>>
  BY DEF TimePasses, Stamp, Commit, Histories, vars
<1> QED
  BY <1>3, <1>4, <1>5, <1>6 DEF Next, Tick

-----------------------------------------------------------------------------
(* Where the rows are *)

(***************************************************************************)
(* The digests that are written stay as they are.                          *)
(***************************************************************************)
LEMMA PlaceKept ==
  ASSUME digests' = digests, late \subseteq late', NEW r, HasPlace(r)
  PROVE  HasPlace(r)'
BY DEF HasPlace, Reported, Awaited, CrowdedOut, InGap

LEMMA LongGap ==
  ASSUME NEW from \in Int, NEW to \in Int, NEW due \in Int, NEW ts \in Int,
         from <= ts, ts < to - Window
  PROVE  to - (due + Interval) > from - due
BY Constants

(***************************************************************************)
(* A digest has read the sections of a row that was awaited, or left a gap *)
(* before it, or the row awaits the next.                                  *)
(***************************************************************************)
LEMMA PlaceGiven ==
  ASSUME Shapes, OnTime, NextInLine, SectionsRead, Persist,
         NEW r \in rows \cup Uncommitted, HasPlace(r)
  PROVE  HasPlace(r)'
<1> USE Constants
<1> DEFINE d == [due |-> daemon.due, to |-> daemon.to, found |-> daemon.found,
                 broken |-> broken]
           n == Len(digests)
<1>0. /\ daemon.due \in Int /\ daemon.to \in Int /\ daemon.pc = 5
      /\ digests \in Seq(Digest) /\ late' = late
      /\ \A i \in 1 .. n : digests[i].to \in Int /\ digests[i].due \in Int
  <2>1. digests \in Seq(Digest)
    BY DEF Shapes
  <2>2. \A i \in 1 .. n : digests[i] \in Digest
    BY <2>1
  <2>3. \A i \in 1 .. n : digests[i].to \in Int /\ digests[i].due \in Int
    BY <2>2 DEF Digest
  <2>4. daemon.due \in Int /\ daemon.to \in Int
    BY DEF Shapes
  <2>5. daemon.pc = 5 /\ late' = late
    BY DEF Persist
  <2> QED
    BY <2>1, <2>3, <2>4, <2>5
<1>1. r.ts \in Int /\ r.kind \in Kinds
  BY DEF Shapes, TypeOK, Uncommitted, Row
<1>2. /\ d.due = daemon.due /\ d.to = daemon.to /\ d.found = daemon.found
      /\ d.broken = broken
  OBVIOUS
<1>3. digests' = Append(digests, d)
  BY DEF Persist
<1> HIDE DEF d
<1>4. /\ n \in Nat /\ Len(digests') = n + 1 /\ digests'[n + 1] = d
      /\ \A i \in 1 .. n : digests'[i] = digests[i]
      /\ DOMAIN digests = 1 .. n /\ DOMAIN digests' = 1 .. n + 1
      /\ digests' # << >> /\ (digests = << >> <=> n = 0)
  BY <1>0, <1>3
<1> HIDE DEF n
<1>5. Reported(r) => Reported(r)'
  BY <1>4 DEF Reported
<1>6. CrowdedOut(r) => CrowdedOut(r)'
  <2> SUFFICES ASSUME CrowdedOut(r) PROVE CrowdedOut(r)'
    OBVIOUS
  <2>1. PICK i \in DOMAIN digests :
          /\ InWindow(r, digests[i].to)
          /\ Cardinality({x \in digests[i].found : x.kind = "alert" /\ x.ts >= r.ts})
               = AlertLimit
    BY DEF CrowdedOut
  <2>2. i \in DOMAIN digests' /\ digests'[i] = digests[i]
    BY <1>4
  <2> QED
    BY <2>1, <2>2 DEF CrowdedOut, InWindow
<1>7. InGap(r) => InGap(r)'
  <2> SUFFICES ASSUME InGap(r) PROVE InGap(r)'
    OBVIOUS
  <2>1. PICK i \in 2 .. n :
          /\ digests[i - 1].to <= r.ts /\ r.ts < digests[i].to - Window
          /\ digests[i].broken
               \/ digests[i].to - digests[i].due > digests[i - 1].to - digests[i - 1].due
    BY DEF InGap, n
  <2>2. /\ i \in 2 .. Len(digests')
        /\ digests'[i] = digests[i] /\ digests'[i - 1] = digests[i - 1]
    BY <1>4
  <2> QED
    BY <2>1, <2>2 DEF InGap
<1>8. CASE daemon.to - Window <= r.ts /\ r.ts < daemon.to
  <2>1. r \in daemon.found \/ r \in late \/ Crowded(r)
    BY <1>0, <1>1, <1>8, KindsRead DEF SectionsRead, Due
  <2>2. r \in daemon.found => Reported(r)'
    BY <1>2, <1>4 DEF Reported
  <2>3. Crowded(r) => CrowdedOut(r)'
    <3> SUFFICES ASSUME Crowded(r) PROVE CrowdedOut(r)'
      OBVIOUS
    <3>1. InWindow(r, d.to)
      BY <1>0, <1>1, <1>2, <1>8 DEF InWindow
    <3>2. Cardinality({x \in d.found : x.kind = "alert" /\ x.ts >= r.ts}) = AlertLimit
      BY <1>2 DEF Crowded, Alerts
    <3>3. n + 1 \in DOMAIN digests' /\ digests'[n + 1] = d
      BY <1>4
    <3> QED
      BY <3>1, <3>2, <3>3 DEF CrowdedOut, Crowded, InWindow
  <2> QED
    BY <1>0, <2>1, <2>2, <2>3 DEF HasPlace
<1>9. CASE daemon.to <= r.ts
  <2>1. Awaited(r)'
    BY <1>2, <1>4, <1>9 DEF Awaited
  <2> QED
    BY <2>1 DEF HasPlace
<1>10. CASE r.ts < daemon.to - Window /\ Awaited(r)
  <2>1. CASE n = 0
    BY <1>1, <1>0, <1>2, <1>4, <1>10, <2>1 DEF Awaited, HasPlace
  <2>2. CASE n # 0 /\ digests[1].to - Window > r.ts
    <3>1. digests'[1] = digests[1]
      BY <1>4, <2>2
    <3> QED
      BY <1>4, <2>2, <3>1 DEF Awaited, HasPlace
  <2>3. CASE n # 0 /\ digests[n].to <= r.ts
    <3>1. /\ n + 1 \in 2 .. Len(digests') /\ digests'[n + 1 - 1] = digests[n]
          /\ digests[n].to \in Int /\ digests[n].due \in Int
      BY <1>0, <1>4, <2>3
    <3>2. ~broken => daemon.due = digests[n].due + Interval
      BY <1>4, <2>3 DEF NextInLine, Last, n
    <3>3. daemon.due = digests[n].due + Interval
            => daemon.to - daemon.due > digests[n].to - digests[n].due
      BY <1>0, <1>1, <1>10, <2>3, <3>1, LongGap
    <3>4. broken \/ daemon.to - daemon.due > digests[n].to - digests[n].due
      BY <3>2, <3>3, Zenon
    <3>5. InGap(r)'
      BY <1>2, <1>4, <1>10, <2>3, <3>1, <3>4 DEF InGap
    <3> QED
      BY <3>5 DEF HasPlace
  <2> QED
    BY <1>4, <1>10, <2>1, <2>2, <2>3 DEF Awaited, n
<1> QED
  BY <1>0, <1>1, <1>5, <1>6, <1>7, <1>8, <1>9, <1>10 DEF HasPlace

LEMMA PlacedNext ==
  ASSUME Shapes, OnTime, NextInLine, SectionsRead, Placed, [Next]_vars
  PROVE  Placed'
<1> USE Constants
<1> SUFFICES ASSUME NEW r \in rows' \cup Uncommitted'
             PROVE  HasPlace(r)'
  BY DEF Placed
<1>1. (digests' = digests /\ late \subseteq late') \/ Persist
  BY DEF Next, Tick, TimePasses, Stamp, Commit, Wake, ReadSection, TickFails, Restart, Histories,
     vars
<1>2. CASE r \in rows \cup Uncommitted
  <2>1. HasPlace(r)
    BY <1>2 DEF Placed
  <2> QED
    BY <1>1, <1>2, <2>1, PlaceKept, PlaceGiven
<1>3. CASE r \notin rows \cup Uncommitted
  <2>1. PICK w \in Writers : Stamp(w) /\ r.ts = clock
    BY <1>3, RowsNext
  <2>2. digests' = digests
    BY <2>1 DEF Stamp
  <2>3. Awaited(r)
    BY <2>1 DEF Awaited, OnTime, Last
  <2>4. Awaited(r)'
    BY <2>2, <2>3 DEF Awaited
  <2> QED
    BY <2>4 DEF HasPlace
<1> QED
  BY <1>2, <1>3

(***************************************************************************)
(* config/settings.toml, once an hour: for any interval no longer than the *)
(* window, an event that is in no digest was committed late, crowded out,  *)
(* or in a gap that a lost, an overrun or a later tick has left.           *)
(***************************************************************************)
THEOREM EventsAreReported == Spec => []EventsReported
<1>1. Init => DigestInv
  <2>1. Init => NextInLine
    BY DEF Init, NextInLine
  <2> QED
    BY <2>1, ShapesInit, SectionsInit DEF DigestInv
<1>2. DigestInv /\ [Next]_vars => DigestInv'
  BY ShapesNext, OnTimeNext, NextInLineNext, SectionsNext, PlacedNext DEF DigestInv
<1>3. DigestInv => EventsReported
  BY DEF DigestInv, Placed, HasPlace, EventsReported
<1> QED
  BY <1>1, <1>2, <1>3, PTL DEF Spec

=============================================================================
