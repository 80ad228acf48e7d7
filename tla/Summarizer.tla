----------------------------- MODULE Summarizer -----------------------------
(***************************************************************************)
(* The digests: the loop of daemons/summarizer.py, and build_summary,      *)
(* which reads one table after the other while the other daemons write.    *)
(* A row carries the time its writer looked at the clock, and is committed *)
(* some time later.                                                        *)
(***************************************************************************)
EXTENDS Integers, Sequences, FiniteSets

CONSTANTS
  Writers,      \* threads that write rows the digest reports
  Interval,     \* summarizer.interval_seconds, a divisor of the day
  Window,       \* summarizer.window_hours
  AlertLimit,   \* how many alerts the body lists
  MaxTime,      \* bound: the clock
  MaxRows,      \* bound: rows written
  MaxFaults     \* bound: ticks that raise, inserts that fail, restarts

ASSUME SummarizerAssumption ==
  /\ {MaxTime, MaxRows, MaxFaults} \subseteq Nat
  /\ {Interval, Window, AlertLimit} \subseteq Nat \ {0}
  /\ Interval <= Window

VARIABLES
  clock,     \* wall clock, in UTC and at the machine alike
  writing,   \* each writer: the row it has stamped and not committed
  rows,      \* the committed rows
  stamped,   \* how many rows were stamped
  daemon,    \* the summarizer: what it waits for or has read
  digests,   \* table summaries
  faults,    \* how many faults there were
  late,      \* history: rows in a window that were committed after its reading
  broken     \* history: a tick was lost or overran since the last digest

vars == <<clock, writing, rows, stamped, daemon, digests, faults, late, broken>>

Sections == <<"opened", "closed", "rec", "alert">>
Kinds == {Sections[i] : i \in 1 .. Len(Sections)}

Row == [id : 1 .. MaxRows, kind : Kinds, ts : 0 .. MaxTime]

Unaligned(now) == now + Interval             \* mutants of NextAlignedTick
ThisBoundary(now) == (now \div Interval) * Interval
NextAlignedTick(now) == (now \div Interval + 1) * Interval

Waiting(now) == [pc |-> 0, due |-> NextAlignedTick(now), to |-> 0, found |-> {}]

Init ==
  /\ clock = 0 /\ stamped = 0 /\ faults = 0
  /\ writing = [w \in Writers |-> {}]
  /\ rows = {} /\ late = {}
  /\ daemon = Waiting(0)
  /\ digests = <<>>
  /\ broken = FALSE

Histories == <<late, broken>>

-----------------------------------------------------------------------------
(* The other daemons, and time *)

TimePasses ==
  /\ clock < MaxTime
  /\ clock' = clock + 1
  /\ UNCHANGED <<writing, rows, stamped, daemon, digests, faults, Histories>>

Stamp(w) ==
  /\ writing[w] = {} /\ stamped < MaxRows
  /\ stamped' = stamped + 1
  /\ \E kind \in Kinds :
       writing' = [writing EXCEPT
                     ![w] = {[id |-> stamped + 1, kind |-> kind, ts |-> clock]}]
  /\ UNCHANGED <<clock, rows, daemon, digests, faults, Histories>>

Commit(w) ==
  /\ writing[w] # {}
  /\ rows' = rows \union writing[w]
  /\ writing' = [writing EXCEPT ![w] = {}]
  /\ UNCHANGED <<clock, stamped, daemon, digests, faults, Histories>>

-----------------------------------------------------------------------------
(* tick, build_summary *)

Wake ==
  /\ daemon.pc = 0 /\ daemon.due <= clock
  /\ daemon' = [daemon EXCEPT !.pc = 1, !.to = clock]
  /\ UNCHANGED <<clock, writing, rows, stamped, digests, faults, Histories>>

InWindow(r, to) == to - Window <= r.ts /\ r.ts <= to

(***************************************************************************)
(* What the body shows: positions each on a line, recommendations counted, *)
(* and of the alerts read (the newest 20) the newest 10.  Rows with equal  *)
(* timestamps come in the order of SQLite's choice.                        *)
(***************************************************************************)
Shown(kind, inWindow) ==
  IF kind # "alert" \/ Cardinality(inWindow) <= AlertLimit
    THEN {inWindow}
    ELSE {S \in SUBSET inWindow :
            /\ Cardinality(S) = AlertLimit
            /\ \A r \in S, x \in inWindow \ S : x.ts <= r.ts}

ReadSection ==
  LET kind == Sections[daemon.pc]
      of(S) == {r \in S : r.kind = kind /\ InWindow(r, daemon.to)}
  IN  /\ daemon.pc \in 1 .. Len(Sections)
      /\ \E S \in Shown(kind, of(rows)) :
           daemon' = [daemon EXCEPT !.found = @ \union S, !.pc = @ + 1]
      /\ late' = late \union UNION {of(writing[w]) : w \in Writers}
      /\ UNCHANGED <<clock, writing, rows, stamped, digests, faults, broken>>

Overran == daemon.due + Interval <= clock

Persist ==                \* run computes the next tick from the time it is now
  /\ daemon.pc = Len(Sections) + 1
  /\ digests' = Append(digests, [due |-> daemon.due, to |-> daemon.to,
                                 found |-> daemon.found, broken |-> broken])
  /\ broken' = Overran
  /\ daemon' = Waiting(clock)
  /\ UNCHANGED <<clock, writing, rows, stamped, faults, late>>

TickFails ==              \* a query or the insert raises: no digest
  /\ daemon.pc # 0
  /\ faults < MaxFaults
  /\ faults' = faults + 1
  /\ broken' = TRUE
  /\ daemon' = Waiting(clock)
  /\ UNCHANGED <<clock, writing, rows, stamped, digests, late>>

Restart ==
  /\ faults < MaxFaults
  /\ faults' = faults + 1
  /\ broken' = TRUE
  /\ daemon' = Waiting(clock)
  /\ UNCHANGED <<clock, writing, rows, stamped, digests, late>>

Tick == Wake \/ ReadSection \/ Persist

Next ==
  \/ TimePasses \/ Tick \/ TickFails \/ Restart
  \/ \E w \in Writers : Stamp(w) \/ Commit(w)

Spec == Init /\ [][Next]_vars

-----------------------------------------------------------------------------
TypeOK ==
  /\ clock \in 0 .. MaxTime /\ stamped \in 0 .. MaxRows /\ faults \in 0 .. MaxFaults
  /\ rows \subseteq Row
  /\ \A w \in Writers : writing[w] \subseteq Row
  /\ daemon.pc \in 0 .. Len(Sections) + 1
  /\ daemon.due \in 1 .. MaxTime + Interval
  /\ daemon.found \subseteq rows
  /\ \A i \in DOMAIN digests : digests[i].found \subseteq rows

(***************************************************************************)
(* config/settings.toml: check in once an hour.  What the daemons write is *)
(* in some digest, and each of the ways to fall between two digests has    *)
(* its cause: the row was committed after its section had been read, more  *)
(* alerts than are listed came after it, or the digest after it was later  *)
(* than the one before, which leaves a gap between their windows as a lost *)
(* or overrun tick does.                                                   *)
(***************************************************************************)
Reported(r) == \E i \in DOMAIN digests : r \in digests[i].found

Awaited(r) ==
  digests = <<>> \/ digests[1].to - Window > r.ts \/ digests[Len(digests)].to <= r.ts

CrowdedOut(r) ==
  /\ r.kind = "alert"
  /\ \E i \in DOMAIN digests :
       /\ InWindow(r, digests[i].to)
       /\ Cardinality({x \in digests[i].found : x.kind = "alert" /\ x.ts >= r.ts})
            = AlertLimit

InGap(r) ==
  \E i \in 2 .. Len(digests) :
    LET before == digests[i - 1]
        after == digests[i]
    IN  /\ before.to <= r.ts /\ r.ts < after.to - Window
        /\ after.broken \/ after.to - after.due > before.to - before.due

EventsReported ==
  \A r \in rows : Reported(r) \/ Awaited(r) \/ r \in late \/ CrowdedOut(r) \/ InGap(r)

=============================================================================
