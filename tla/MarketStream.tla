---------------------------- MODULE MarketStream ----------------------------
(***************************************************************************)
(* daemons/stream_daemon.py with core/rolling_window.py: the window of     *)
(* active futures, the market data lines that follow it, and the discovery *)
(* of option chains over the IB API.                                       *)
(*                                                                         *)
(* Two threads share the fields of IBStream.  The stream thread rebuilds   *)
(* the window and waits for answers with a timeout; the API thread runs    *)
(* the callbacks.  The answer to a chain request carries no request id     *)
(* that anybody looks at, so one that comes after its timeout is taken for *)
(* the answer to the next request.                                         *)
(*                                                                         *)
(* Prices are left out: a quote is which line it belongs to.  An option is *)
(* <<future, strike>>; of its two rights one stands for both.  A tick that *)
(* needs no rebuild only writes a snapshot and changes nothing here.       *)
(***************************************************************************)
EXTENDS Integers, SequencesExt

CONSTANTS
  Futures,         \* the listed CL futures
  Expiry,          \* the day each of them expires
  Strikes,         \* the strikes of a chain
  StrikeWindow,    \* strike_window: strikes either side of the money
  MonthsAhead,     \* n_months_ahead
  DropDte,         \* drop_when_dte_le
  MinOpenDte,      \* no option is opened when its future is closer to expiry
  MaxLines,        \* max_lines
  LegsNameFuture,  \* the legs of positions name their future
  LastDay,         \* bound: days modelled
  MaxDisconnects,  \* bound: how often IB closes the connection
  MaxRestarts      \* bound: how often the daemon is restarted

ASSUME StreamAssumption ==
  /\ IsFiniteSet(Futures) /\ {"idle", "discover", "subscribe"} \cap Futures = {}
  /\ Expiry \in [Futures -> Nat]
  /\ \A f, g \in Futures : Expiry[f] = Expiry[g] => f = g
  /\ IsFiniteSet(Strikes) /\ Strikes \subseteq Nat
  /\ {StrikeWindow, DropDte, MinOpenDte, LastDay, MaxDisconnects, MaxRestarts}
       \subseteq Nat
  /\ {MonthsAhead, MaxLines} \subseteq Nat \ {0}
  /\ LegsNameFuture \in BOOLEAN

VARIABLES
  clock,           \* [day, late]: late once rebuild_hour_et has passed
  connected,       \* the socket to IB is open
  lines,           \* at IB: the request ids market data is sent for
  inflight,        \* at IB: how far the answer to each chain request is
  optParams,       \* IBStream._opt_params: futures whose entries arrived
  optDone,         \* IBStream._opt_params_done
  stream,          \* the stream thread: where it is, what it rebuilds
  window,          \* StreamDaemon.window
  futSub,          \* StreamDaemon.fut_sub
  fopSub,          \* StreamDaemon.fop_sub
  quotes,          \* IBStream.quotes: the future each line is labelled with
  nextId,          \* IBStream._next_req_id
  held,            \* futures on whose options positions are open
  outages          \* [disconnects, restarts] so far

ibVars == <<connected, lines, inflight>>
chainVars == <<optParams, optDone>>
subVars == <<futSub, fopSub, quotes, nextId>>
worldVars == <<clock, held, outages>>
vars == <<ibVars, chainVars, subVars, worldVars, stream, window>>

Options == Futures \X Strikes

Window == [day : -1 .. LastDay, tradeable : SUBSET Futures, markable : SUBSET Futures]

NoWindow == [day |-> -1, tradeable |-> {}, markable |-> {}]

IdleStream == [pc |-> "idle", next |-> NoWindow, todo |-> {}]

MaxId == Cardinality(Futures) + Cardinality(Options)

StreamTypeOK ==
  /\ clock \in [day : 0 .. LastDay, late : BOOLEAN]
  /\ connected \in BOOLEAN
  /\ lines \subseteq 1 .. nextId
  /\ inflight \in [Futures -> {"none", "asked", "given"}]
  /\ optParams \in Seq(Futures)
  /\ optDone \in BOOLEAN
  /\ stream.pc \in {"idle", "discover", "subscribe"} \cup Futures
  /\ stream.next \in Window /\ stream.todo \subseteq Futures
  /\ window \in Window
  /\ DOMAIN futSub \subseteq Futures /\ DOMAIN fopSub \subseteq Options
  /\ quotes \in [DOMAIN quotes -> Futures] /\ DOMAIN quotes \subseteq 1 .. nextId
  /\ nextId \in 0 .. MaxId
  /\ held \subseteq Futures
  /\ outages \in [disconnects : 0 .. MaxDisconnects, restarts : 0 .. MaxRestarts]

None == [x \in {} |-> 0]

(***************************************************************************)
(* A StreamDaemon after its first connect.                                 *)
(***************************************************************************)
Init ==
  /\ connected = TRUE /\ lines = {} /\ inflight = [f \in Futures |-> "none"]
  /\ optParams = << >> /\ optDone = FALSE
  /\ stream = IdleStream /\ window = NoWindow
  /\ futSub = None /\ fopSub = None /\ quotes = None /\ nextId = 0
  /\ clock = [day |-> 0, late |-> FALSE]
  /\ held = {}
  /\ outages = [disconnects |-> 0, restarts |-> 0]

-----------------------------------------------------------------------------
(* core/rolling_window.py *)

Dte(f) == Expiry[f] - clock.day

Eligible == {f \in Futures : Dte(f) >= 0 /\ Dte(f) > DropDte}

Tradeable ==
  {f \in Eligible :
     Cardinality({g \in Eligible : Expiry[g] < Expiry[f]}) < MonthsAhead}

(***************************************************************************)
(* get_open_position_local_symbols finds a future only if the legs of a    *)
(* position name it.  Those the trader writes do not.                      *)
(***************************************************************************)
OpenLocals == IF LegsNameFuture THEN held ELSE {}

(***************************************************************************)
(* compute_active_window                                                   *)
(***************************************************************************)
ActiveWindow ==
  [day       |-> clock.day,
   tradeable |-> Tradeable,
   markable  |-> {f \in OpenLocals \ Tradeable : Dte(f) >= 0}]

FrontAgedLate == \E f \in window.tradeable : Dte(f) < DropDte  \* mutant of FrontAged
FrontAged == \E f \in window.tradeable : Dte(f) <= DropDte

NeedsRebuild ==
  \/ window = NoWindow
  \/ window.day < clock.day /\ clock.late
  \/ FrontAged

-----------------------------------------------------------------------------
(* Rebuilding: maybe_rebuild_window, _apply_subscription_diff *)

OptionsKept(gone) == {}                        \* mutant of OptionsOf
OptionsOf(gone) == {o \in DOMAIN fopSub : quotes[fopSub[o]] \in gone}

FuturesKept(gone) == futSub                    \* mutant of FuturesAfter
FuturesAfter(gone) == [f \in DOMAIN futSub \ gone |-> futSub[f]]

RebuildBegins ==
  /\ stream.pc = "idle"
  /\ NeedsRebuild
  /\ stream' = [stream EXCEPT !.pc = "discover"]
  /\ UNCHANGED <<ibVars, chainVars, subVars, worldVars, window>>

DiscoveryTimesOut ==      \* 15 seconds without an answer: the next tick retries
  /\ stream.pc = "discover"
  /\ stream' = IdleStream
  /\ UNCHANGED <<ibVars, chainVars, subVars, worldVars, window>>

(***************************************************************************)
(* The list of futures arrives, the window is computed, and the lines of   *)
(* the futures that left it are cancelled with their options.              *)
(***************************************************************************)
DiscoveryAnswers ==
  /\ stream.pc = "discover"
  /\ connected
  /\ LET gone == window.tradeable \ Tradeable
         rids == {futSub[f] : f \in gone \cap DOMAIN futSub}
                   \cup {fopSub[o] : o \in OptionsOf(gone)}
     IN  /\ stream' = [pc |-> "subscribe", next |-> ActiveWindow,
                       todo |-> Tradeable \ window.tradeable]
         /\ fopSub' = [o \in DOMAIN fopSub \ OptionsOf(gone) |-> fopSub[o]]
         /\ futSub' = FuturesAfter(gone)
         /\ quotes' = [r \in DOMAIN quotes \ rids |-> quotes[r]]
         /\ lines' = lines \ rids
  /\ UNCHANGED <<connected, inflight, chainVars, nextId, worldVars, window>>

(***************************************************************************)
(* _subscribe_future, then the request of discover_option_chain_for, which *)
(* clears what is left of earlier answers.  The order is that of a set.    *)
(***************************************************************************)
SubscribeFuture(f) ==
  /\ stream.pc = "subscribe" /\ f \in stream.todo
  /\ stream' = [stream EXCEPT !.pc = f]
  /\ nextId' = nextId + 1
  /\ futSub' = [g \in DOMAIN futSub \cup {f} |-> IF g = f THEN nextId' ELSE futSub[g]]
  /\ quotes' = [r \in DOMAIN quotes \cup {nextId'} |-> IF r = nextId' THEN f ELSE quotes[r]]
  /\ lines' = IF connected THEN lines \cup {nextId'} ELSE lines
  /\ optParams' = << >> /\ optDone' = FALSE
  /\ inflight' = IF connected THEN [inflight EXCEPT ![f] = "asked"] ELSE inflight
  /\ UNCHANGED <<connected, fopSub, worldVars, window>>

ChainDone == stream' = [stream EXCEPT !.pc = "subscribe", !.todo = @ \ {stream.pc}]

ChainGivenUp ==           \* mutant of ChainTimesOut
  /\ stream.pc \in Futures /\ ~optDone
  /\ stream' = [stream EXCEPT !.pc = "subscribe", !.todo = {}]
  /\ UNCHANGED <<ibVars, chainVars, subVars, worldVars, window>>

ChainTimesOut ==          \* 15 seconds without an answer: no options, no retry
  /\ stream.pc \in Futures /\ ~optDone
  /\ ChainDone
  /\ UNCHANGED <<ibVars, chainVars, subVars, worldVars, window>>

(***************************************************************************)
(* build_fop_contracts_around_atm: the strikes around the one nearest to   *)
(* the future's price.  The list has those of the first entry before those *)
(* of the second, each lowest first; Before(o, near) of its members come   *)
(* before o.  No future has two entries.                                   *)
(***************************************************************************)
Below(s, S) == Cardinality({t \in S : t < s})

AroundTheMoney(atm) ==
  {s \in Strikes : /\ Below(s, Strikes) - Below(atm, Strikes) <= StrikeWindow
                   /\ Below(atm, Strikes) - Below(s, Strikes) <= StrikeWindow}

Entry(f) == CHOOSE i \in DOMAIN optParams : optParams[i] = f

Before(o, near) == (Entry(o[1]) - 1) * Cardinality(near) + Below(o[2], near)

FuturesOnly == MaxLines - Cardinality(DOMAIN futSub)     \* mutant of Budget
Budget == MaxLines - (Cardinality(DOMAIN futSub) + Cardinality(DOMAIN fopSub))

(***************************************************************************)
(* The rest of _subscribe_chain_for: whatever entries are in the list when *)
(* the event is set are subscribed, within the budget, as options on the   *)
(* future asked for.  Its price, or the default if none comes in time, is  *)
(* nearest to some strike.                                                 *)
(***************************************************************************)
ChainAnswers(atm) ==
  /\ stream.pc \in Futures /\ optDone
  /\ LET near  == AroundTheMoney(atm)
         fresh == {o \in ToSet(optParams) \X near : Before(o, near) < Budget}
                    \ DOMAIN fopSub
         id(o) == nextId + 1 + Cardinality({x \in fresh : Before(x, near) < Before(o, near)})
         rids  == {id(o) : o \in fresh}
     IN  /\ fopSub' = [o \in DOMAIN fopSub \cup fresh |->
                         IF o \in fresh THEN id(o) ELSE fopSub[o]]
         /\ quotes' = [r \in DOMAIN quotes \cup rids |->
                         IF r \in rids THEN stream.pc ELSE quotes[r]]
         /\ lines' = IF connected THEN lines \cup rids ELSE lines
         /\ nextId' = nextId + Cardinality(fresh)
  /\ ChainDone
  /\ UNCHANGED <<connected, inflight, chainVars, futSub, worldVars, window>>

RebuildEnds ==
  /\ stream.pc = "subscribe" /\ stream.todo = {}
  /\ window' = stream.next
  /\ stream' = IdleStream
  /\ UNCHANGED <<ibVars, chainVars, subVars, worldVars>>

-----------------------------------------------------------------------------
(* The API thread *)

(***************************************************************************)
(* securityDefinitionOptionParameter: the entries of a chain.              *)
(***************************************************************************)
ChainEntry(f) ==
  /\ inflight[f] = "asked"
  /\ inflight' = [inflight EXCEPT ![f] = "given"]
  /\ optParams' = Append(optParams, f)
  /\ UNCHANGED <<connected, lines, optDone, subVars, worldVars, stream, window>>

(***************************************************************************)
(* securityDefinitionOptionParameterEnd, for whichever request.            *)
(***************************************************************************)
ChainEnd(f) ==
  /\ inflight[f] \in {"asked", "given"}
  /\ inflight' = [inflight EXCEPT ![f] = "none"]
  /\ optDone' = TRUE
  /\ UNCHANGED <<connected, lines, optParams, subVars, worldVars, stream, window>>

-----------------------------------------------------------------------------
(* The world: time, the desk, IB, the operating system *)

TimePasses ==
  /\ IF clock.late
       THEN clock.day < LastDay /\ clock' = [day |-> clock.day + 1, late |-> FALSE]
       ELSE clock' = [clock EXCEPT !.late = TRUE]
  /\ UNCHANGED <<ibVars, chainVars, subVars, held, outages, stream, window>>

PositionOpened(f) ==      \* its options are quoted and far enough from expiry
  /\ f \in DOMAIN futSub /\ Dte(f) >= MinOpenDte
  /\ held' = held \cup {f}
  /\ UNCHANGED <<ibVars, chainVars, subVars, clock, outages, stream, window>>

PositionClosed(f) ==      \* its options are quoted
  /\ f \in held \cap DOMAIN futSub
  /\ held' = held \ {f}
  /\ UNCHANGED <<ibVars, chainVars, subVars, clock, outages, stream, window>>

LinesLeftOpen ==          \* mutant of HangUp
  lines' = lines /\ inflight' = [f \in Futures |-> "none"]

(***************************************************************************)
(* IB forgets a connection that ends, as disconnect() sees to.             *)
(***************************************************************************)
HangUp == lines' = {} /\ inflight' = [f \in Futures |-> "none"]

(***************************************************************************)
(* Nothing in the daemon notices or reconnects: requests go unanswered.    *)
(***************************************************************************)
Disconnect ==
  /\ connected
  /\ outages.disconnects < MaxDisconnects
  /\ outages' = [outages EXCEPT !.disconnects = @ + 1]
  /\ connected' = FALSE
  /\ HangUp
  /\ UNCHANGED <<chainVars, subVars, clock, held, stream, window>>

(***************************************************************************)
(* The process is started anew, connects, and knows nothing.               *)
(***************************************************************************)
Restart ==
  /\ outages.restarts < MaxRestarts
  /\ outages' = [outages EXCEPT !.restarts = @ + 1]
  /\ HangUp
  /\ connected' = TRUE
  /\ optParams' = << >> /\ optDone' = FALSE
  /\ stream' = IdleStream /\ window' = NoWindow
  /\ futSub' = None /\ fopSub' = None /\ quotes' = None /\ nextId' = 0
  /\ UNCHANGED <<clock, held>>

StreamStep ==
  \/ RebuildBegins \/ DiscoveryTimesOut \/ DiscoveryAnswers
  \/ \E f \in Futures : SubscribeFuture(f)
  \/ ChainTimesOut \/ (\E atm \in Strikes : ChainAnswers(atm))
  \/ RebuildEnds

Callback == \E f \in Futures : ChainEntry(f) \/ ChainEnd(f)

World ==
  \/ TimePasses
  \/ \E f \in Futures : PositionOpened(f) \/ PositionClosed(f)
  \/ Disconnect \/ Restart

Next == StreamStep \/ Callback \/ World

Spec == Init /\ [][Next]_vars

(***************************************************************************)
(* stream_worker loops for ever and every wait has a timeout.  IB lists    *)
(* the futures again and again as long as it is connected.                 *)
(***************************************************************************)
FairSpec == Spec /\ WF_vars(StreamStep) /\ SF_vars(DiscoveryAnswers)

-----------------------------------------------------------------------------
(* Properties *)

(***************************************************************************)
(* The four stores of subscriptions agree: every id in fut_sub and fop_sub *)
(* has a quote and no other id has, no id is used twice, and IB sends data *)
(* for exactly these, unless it has hung up.  A line that is only in some  *)
(* of them could never be cancelled, or would be waited for in vain.       *)
(***************************************************************************)
LinesAgree ==
  LET futs == {futSub[f] : f \in DOMAIN futSub}
      fops == {fopSub[o] : o \in DOMAIN fopSub}
  IN  /\ futs \cup fops = DOMAIN quotes
      /\ Cardinality(DOMAIN quotes) = Cardinality(DOMAIN futSub) + Cardinality(DOMAIN fopSub)
      /\ lines \subseteq DOMAIN quotes
      /\ connected /\ outages.disconnects = 0 => lines = DOMAIN quotes

(***************************************************************************)
(* No option outlives the line of the future it is labelled with, which    *)
(* gives its underlying price in the snapshots: the options of a dropped   *)
(* future go with it, whatever chain they really came from.                *)
(***************************************************************************)
OptionsFollowFutures ==
  \A o \in DOMAIN fopSub : quotes[fopSub[o]] \in DOMAIN futSub

(***************************************************************************)
(* Between rebuilds exactly the tradeable futures of the window are        *)
(* subscribed, whatever timed out while it was built.                      *)
(***************************************************************************)
WindowSubscribed ==
  stream.pc \in {"idle", "discover"} => DOMAIN futSub = window.tradeable

(***************************************************************************)
(* max_lines is exceeded by at most the futures of the window but one:     *)
(* options are subscribed within the budget, futures without asking.       *)
(***************************************************************************)
LinesBound == Cardinality(DOMAIN quotes) <= MaxLines + MonthsAhead - 1

(***************************************************************************)
(* Futures at or below the drop threshold do not stay subscribed, as long  *)
(* as IB is connected, even if no rebuild hour comes.                      *)
(***************************************************************************)
AgedSubscribed == \E f \in DOMAIN futSub : Dte(f) <= DropDte

Rolls == AgedSubscribed ~> ~AgedSubscribed \/ ~connected

(***************************************************************************)
(* config/settings.toml: existing positions on a dropped contract continue *)
(* to be marked.  Between rebuilds what is held and not expired is quoted. *)
(***************************************************************************)
HeldStaysMarked ==
  stream.pc = "idle" /\ ~NeedsRebuild =>
    \A f \in held : Dte(f) >= 0 => f \in DOMAIN futSub

=============================================================================
