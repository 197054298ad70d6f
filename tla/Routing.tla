------------------------------ MODULE Routing ------------------------------
(***************************************************************************)
(* Which database a request reads (internal/repo/dbrouter.go and the RAW   *)
(* middleware of internal/http/middleware/middleware.go).  Every write     *)
(* goes to the primary.  A read goes to the replica, which lags, unless    *)
(* the request carries the cookie that the answer to a recent write of the *)
(* same browser set.                                                       *)
(*                                                                         *)
(* Only the rows of the table files are read on both sides by what builds  *)
(* on this module.  The switch SetReplicaDegraded is off: nothing in the   *)
(* program turns it on.                                                    *)
(***************************************************************************)
EXTENDS Integers, Sequences

CONSTANTS
    Files,
    Sessions,  \* browsers with a login session
    Visitor,   \* a browser without one
    Second,    \* clock ticks in a second
    Window,    \* Cfg.RAWWindow, in seconds
    Lag,       \* ticks within which the replica has applied a change
    End,       \* BOUND: the last tick
    MaxChanges \* BOUND: changes of a row after which it is only deleted

ASSUME ClockAssumption ==
    /\ Second \in Nat \ {0}
    /\ Window \in Nat \ {0}
    /\ Lag \in Nat /\ End \in Nat /\ MaxChanges \in Nat

\* What makes the window useful: the replica lags less than it lasts, and a second
\* less, because the cookie loses the fraction of a second.
ASSUME LagAssumption == Lag <= (Window - 1) * Second

ASSUME VisitorAssumption == Visitor \notin Sessions

VARIABLES
    clock,   \* now, in ticks
    primary, \* [Files -> Row] on the primary
    replica, \* [Files -> Row] on the replica
    binlog,  \* changes the replica has yet to apply, oldest first
    cookie,  \* [Sessions -> until of its RAW cookie, in ticks; 0 without one]
    told     \* history: [Sessions -> [Files -> the newest change of the row that an
             \* answer to this session confirmed]]

routingVars == <<clock, primary, replica, binlog, cookie, told>>

Clients == Sessions \cup {Visitor}

\* `changes` counts the UPDATEs of the row, as updated_at orders them.
Row == [state : {"active", "trashed"}, version : Nat, changes : Nat]

Change == [file : Files, row : Row, at : 0..End]

RoutingInit ==
    /\ clock = 0
    /\ primary = [f \in Files |-> [state |-> "active", version |-> 1, changes |-> 1]]
    /\ replica = primary
    /\ binlog = <<>>
    /\ cookie = [s \in Sessions |-> 0]
    /\ told = [s \in Sessions |-> [f \in Files |-> 0]]
-----------------------------------------------------------------------------
\* The cookie carries until.Unix(): the fraction of the second is lost.
TruncatesLate(t) == ((t - Second) \div Second) * Second \* mutant: one second short
WindowSubtracted(t) == t - 2 * Window * Second \* mutant: the wrong sign
WholeSecond(t) == (t \div Second) * Second

\* SetRAWCookie with time.Now().Add(d.Cfg.RAWWindow).
CookieForgotten(s) == cookie \* mutant: the answer sets no cookie
SetRAWCookie(s) == [cookie EXCEPT ![s] = WholeSecond(clock + Window * Second)]

\* RAWMiddleware: the until a request carries from its arrival on, 0 for none.
UntilOf(c) ==
    IF c \in Sessions /\ clock <= cookie[c] THEN cookie[c] ELSE 0

\* DBRouter.Reader, for the row of a file.  It is asked again at every query, so
\* the two queries of one request can go to two databases.
Reader(until, f) == IF clock < until THEN primary[f] ELSE replica[f]

\* A committed UPDATE of the row f.
Write(f, row) ==
    /\ primary' = [primary EXCEPT ![f] = row]
    /\ binlog' = Append(binlog, [file |-> f, row |-> row, at |-> clock])

Changed(row) == [row EXCEPT !.changes = @ + 1]

\* The answer to the write of row in f reaches the session s.
Confirm(s, f, row) ==
    told' = [told EXCEPT ![s][f] = IF row.changes > @ THEN row.changes ELSE @]
-----------------------------------------------------------------------------
\* The replica applies the oldest change it has not applied yet.
Replicate ==
    /\ binlog # <<>>
    /\ replica' = [replica EXCEPT ![Head(binlog).file] = Head(binlog).row]
    /\ binlog' = Tail(binlog)
    /\ UNCHANGED <<clock, primary, cookie, told>>

\* Time passes; the replica keeps within Lag.
Tick ==
    /\ clock < End
    /\ binlog # <<>> => clock < Head(binlog).at + Lag
    /\ clock' = clock + 1
    /\ UNCHANGED <<primary, replica, binlog, cookie, told>>

RoutingTypeOK ==
    /\ clock \in 0..End
    /\ primary \in [Files -> Row] /\ replica \in [Files -> Row]
    /\ binlog \in Seq(Change)
    /\ cookie \in [Sessions -> Nat]
    /\ told \in [Sessions -> [Files -> Nat]]
=============================================================================
