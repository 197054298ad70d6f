--------------------------- MODULE SharingProofs ---------------------------
(***************************************************************************)
(* Proofs about Sharing, for any files, browsers, links and requests, any  *)
(* window and any lag the window is made for.  IInv is the inductive       *)
(* invariant; each of its parts is explained where it is defined.          *)
(***************************************************************************)
EXTENDS Sharing, TLAPS

\* a is the row b, or the row before some changes that led to b.
Behind(a, b) ==
    /\ a.changes <= b.changes /\ a.version <= b.version
    /\ a.changes = b.changes => a = b

\* Replica, log and primary are stages of one history, and every change still
\* in the log was made within the last Lag ticks.
LogOrdered ==
    /\ \A f \in Files : Behind(replica[f], primary[f])
    /\ \A i \in 1..Len(binlog) :
          /\ Behind(replica[binlog[i].file], binlog[i].row)
          /\ Behind(binlog[i].row, primary[binlog[i].file])
          /\ binlog[i].at <= clock /\ clock <= binlog[i].at + Lag
    /\ \A i, j \in 1..Len(binlog) : i < j =>
          /\ binlog[i].at <= binlog[j].at
          /\ binlog[i].file = binlog[j].file => Behind(binlog[i].row, binlog[j].row)

\* The change n of the row f is on the replica, or is due there before t.
DueBefore(f, n, t) ==
    \/ n <= replica[f].changes
    \/ \E i \in 1..Len(binlog) :
          /\ binlog[i].file = f /\ binlog[i].row.changes = n
          /\ binlog[i].at + Lag < t

\* A browser's window outlasts the replication of what it was told.
CookiesCover ==
    \A s \in Sessions, f \in Files : DueBefore(f, told[s][f], cookie[s])

\* So does the window of a request that has yet to read the file.
Covered(q) == q.step \in Looking => DueBefore(q.file, q.known, q.until)

\* A request under way is about a file, and one that may revoke a link about a
\* link; a delete belongs to a session and has its change in the log before it is
\* answered.
Named(q) ==
    /\ q.step \in Busy => q.file \in Files
    /\ q.step \in {"resolved", "unsharing"} => q.link \in Links
    /\ q.step \in {"delete", "deleting", "revoking"} => q.by \in Sessions
    /\ q.step = "revoking" => \E t \in Nat : DueBefore(q.file, q.row.changes, t)

\* A row that was read is behind the primary, and, if the request came outside
\* the window, behind the replica.
ReadBehind(q) ==
    q.step = "fetching" =>
        /\ q.row.version <= primary[q.file].version
        /\ q.until = 0 => q.row.version <= replica[q.file].version

\* A request that came late came for a spared link; the links a delete found are
\* those it will revoke.
LinksKnown(q) ==
    /\ q.step \in {"download", "resolved", "fetching"} /\ q.late => q.link \in spared
    /\ q.step = "revoking" => \A l \in q.links : linkFile[l] = q.file

Sound(q) == Covered(q) /\ Named(q) /\ ReadBehind(q) /\ LinksKnown(q)

RequestsSound == \A r \in Requests : Sound(req[r])

\* Links of a deleted file are inactive or spared.
DoomedLinks == doomed \subseteq inactive \cup spared

IInv ==
    /\ TypeOK
    /\ LogOrdered
    /\ CookiesCover
    /\ RequestsSound
    /\ DoomedLinks
-----------------------------------------------------------------------------
(***************************************************************************)
(* The replicated history: what each kind of step does to it.              *)
(***************************************************************************)

LEMMA Elements ==
    ASSUME NEW S, NEW s \in Seq(S)
    PROVE  /\ Len(s) \in Nat
           /\ \A i \in 1..Len(s) : s[i] \in S
           /\ s # <<>> => Len(s) # 0 /\ Head(s) = s[1]
OBVIOUS

LEMMA LogElements ==
    ASSUME RoutingTypeOK, NEW i \in 1..Len(binlog)
    PROVE  binlog[i].file \in Files /\ binlog[i].row \in Row /\ binlog[i].at \in Nat
<1>1. binlog[i] \in Change
  BY DEF RoutingTypeOK
<1> QED
  BY <1>1 DEF Change

\* The truncation loses less than a second, so a window that starts now ends
\* after everything made until now is replicated.
LEMMA WindowOutlastsLag ==
    ASSUME clock \in Nat
    PROVE  /\ WholeSecond(clock + Window * Second) \in Nat
           /\ clock + Lag < WholeSecond(clock + Window * Second)
<1> DEFINE t == clock + Window * Second
<1>1. Window * Second \in Nat /\ (Window - 1) * Second = Window * Second - Second
  BY ClockAssumption
<1>2. t \in Nat
  BY <1>1
<1>3. ASSUME NEW x \in Nat, NEW y \in Nat \ {0}
      PROVE  (x \div y) * y > x - y /\ (x \div y) * y \in Nat
  BY <1>3, SMT
<1>4. (t \div Second) * Second > t - Second /\ (t \div Second) * Second \in Nat
  BY <1>2, <1>3, ClockAssumption
<1> QED
  BY <1>1, <1>2, <1>4, ClockAssumption, LagAssumption DEF WholeSecond

LEMMA BehindTransitive ==
    ASSUME NEW a \in Row, NEW b \in Row, NEW c \in Row, Behind(a, b), Behind(b, c)
    PROVE  Behind(a, c)
BY DEF Behind, Row

\* What the three writes make of a row.
LEMMA ChangedRows ==
    ASSUME NEW row \in Row
    PROVE  /\ \A x \in {"active", "trashed"} :
                 LET new == Changed([row EXCEPT !.state = x])
                 IN  new \in Row /\ new.changes = row.changes + 1 /\ new.version = row.version
           /\ LET new == Changed([row EXCEPT !.version = @ + 1])
              IN  new \in Row /\ new.changes = row.changes + 1 /\ new.version = row.version + 1
<1>1. ASSUME NEW x \in {"active", "trashed"}
      PROVE  LET new == Changed([row EXCEPT !.state = x])
             IN  new \in Row /\ new.changes = row.changes + 1 /\ new.version = row.version
  <2>1. PICK mid \in Row : mid = [row EXCEPT !.state = x]
    BY DEF Row
  <2>2. mid.changes = row.changes /\ mid.version = row.version
    BY <2>1 DEF Row
  <2>3. Changed(mid) \in Row /\ Changed(mid).changes = mid.changes + 1
        /\ Changed(mid).version = mid.version
    BY DEF Changed, Row
  <2> QED
    BY <2>1, <2>2, <2>3
<1>2. LET new == Changed([row EXCEPT !.version = @ + 1])
      IN  new \in Row /\ new.changes = row.changes + 1 /\ new.version = row.version + 1
  <2>1. PICK mid \in Row : mid = [row EXCEPT !.version = @ + 1]
    <3>1. row.version + 1 \in Nat
      BY DEF Row
    <3>2. ASSUME NEW v \in Nat PROVE [row EXCEPT !.version = v] \in Row
      BY DEF Row
    <3> QED
      BY <3>1, <3>2
  <2>2. mid.changes = row.changes /\ mid.version = row.version + 1
    BY <2>1 DEF Row
  <2>3. Changed(mid) \in Row /\ Changed(mid).changes = mid.changes + 1
        /\ Changed(mid).version = mid.version
    BY DEF Changed, Row
  <2> QED
    BY <2>1, <2>2, <2>3
<1> QED
  BY <1>1, <1>2

\* A committed change of a row.
Writes(f, row) ==
    /\ Write(f, row) /\ UNCHANGED <<clock, replica>>
    /\ row.changes = primary[f].changes + 1 /\ row.version >= primary[f].version

\* What every step leaves as it is, or moves on: rows only grow, and what is due
\* on the replica stays due.
Grows ==
    \A f \in Files :
        /\ Behind(replica[f], replica'[f]) /\ Behind(primary[f], primary'[f])
        /\ \A n \in Nat, t \in Nat : DueBefore(f, n, t) => DueBefore(f, n, t)'

LEMMA WriteKeepsLog ==
    ASSUME RoutingTypeOK, LogOrdered, NEW f \in Files, NEW row \in Row, Writes(f, row)
    PROVE  /\ RoutingTypeOK' <=> (cookie' \in [Sessions -> Nat]
                                  /\ told' \in [Sessions -> [Files -> Nat]])
           /\ LogOrdered' /\ Grows
           /\ \A t \in Nat : clock + Lag < t => DueBefore(f, row.changes, t)'
<1> DEFINE e == [file |-> f, row |-> row, at |-> clock]
           n == Len(binlog)
<1>1. /\ binlog' = Append(binlog, e) /\ clock' = clock /\ replica' = replica
      /\ primary' = [primary EXCEPT ![f] = row]
  BY DEF Writes, Write
<1>2. /\ clock \in 0..End /\ clock \in Nat /\ Lag \in Nat /\ n \in Nat
      /\ primary \in [Files -> Row] /\ replica \in [Files -> Row]
      /\ binlog \in Seq(Change)
  BY ClockAssumption DEF RoutingTypeOK
<1>3. e \in Change
  BY <1>2 DEF Change
<1>4. /\ binlog' \in Seq(Change)
      /\ Len(binlog') = n + 1
      /\ \A i \in 1..n : binlog'[i] = binlog[i]
      /\ binlog'[n + 1] = e
  BY <1>1, <1>2, <1>3
<1>5. \A i \in 1..n : binlog[i].file \in Files /\ binlog[i].row \in Row
  BY LogElements
<1>6. primary' \in [Files -> Row]
  BY <1>1, <1>2
<1>7. \A g \in Files : Behind(primary[g], primary'[g])
  BY <1>1, <1>2 DEF Writes, Behind, Row
<1>8. LogOrdered'
  <2>1. \A g \in Files : Behind(replica'[g], primary'[g])
    BY <1>1, <1>2, <1>6, <1>7, BehindTransitive DEF LogOrdered
  <2>2. ASSUME NEW i \in 1..Len(binlog')
        PROVE  /\ Behind(replica'[binlog'[i].file], binlog'[i].row)
               /\ Behind(binlog'[i].row, primary'[binlog'[i].file])
               /\ binlog'[i].at <= clock' /\ clock' <= binlog'[i].at + Lag
    <3>1. CASE i \in 1..n
      <4>1. /\ binlog'[i] = binlog[i] /\ binlog[i].file \in Files /\ binlog[i].row \in Row
        BY <3>1, <1>4, <1>5
      <4>2. Behind(binlog[i].row, primary'[binlog[i].file])
        BY <4>1, <3>1, <1>2, <1>6, <1>7, BehindTransitive DEF LogOrdered
      <4> QED
        BY <4>1, <4>2, <3>1, <1>1 DEF LogOrdered
    <3>2. CASE i = n + 1
      <4>1. binlog'[i] = e
        BY <3>2, <1>4
      <4>2. primary'[f] = row
        BY <1>1, <1>2
      <4>3. Behind(row, row)
        BY DEF Behind, Row
      <4>4. Behind(replica[f], row)
        BY <2>1, <1>1, <4>2
      <4> QED
        BY <4>1, <4>2, <4>3, <4>4, <1>1, <1>2
    <3> QED
      BY <3>1, <3>2, <1>2, <1>4
  <2>3. ASSUME NEW i \in 1..Len(binlog'), NEW j \in 1..Len(binlog'), i < j
        PROVE  /\ binlog'[i].at <= binlog'[j].at
               /\ binlog'[i].file = binlog'[j].file
                     => Behind(binlog'[i].row, binlog'[j].row)
    <3>1. i \in 1..n /\ binlog'[i] = binlog[i]
      BY <2>3, <1>2, <1>4
    <3>2. CASE j \in 1..n
      BY <3>1, <3>2, <2>3, <1>4 DEF LogOrdered
    <3>3. CASE j = n + 1
      <4>1. binlog'[j] = e /\ primary'[f] = row
        BY <3>3, <1>1, <1>2, <1>4
      <4> QED
        BY <4>1, <3>1, <2>2, <1>1
    <3> QED
      BY <3>2, <3>3, <1>2, <1>4
  <2> QED
    BY <2>1, <2>2, <2>3 DEF LogOrdered
<1>9. ASSUME NEW g \in Files, NEW k \in Nat, NEW t \in Nat, DueBefore(g, k, t)
      PROVE  DueBefore(g, k, t)'
  BY <1>9, <1>1, <1>2, <1>4 DEF DueBefore
<1>10. ASSUME NEW t \in Nat, clock + Lag < t PROVE DueBefore(f, row.changes, t)'
  <2>1. n + 1 \in 1..Len(binlog')
    BY <1>2, <1>4
  <2> QED
    BY <2>1, <1>4, <1>10 DEF DueBefore
<1>11. \A g \in Files : Behind(replica[g], replica'[g])
  BY <1>1, <1>2 DEF Behind, Row
<1>12. Grows
  BY <1>7, <1>9, <1>11 DEF Grows
<1> QED
  BY <1>1, <1>2, <1>4, <1>6, <1>8, <1>10, <1>12 DEF RoutingTypeOK

LEMMA ReplicateKeepsLog ==
    ASSUME RoutingTypeOK, LogOrdered, Replicate
    PROVE  RoutingTypeOK' /\ LogOrdered' /\ Grows
<1> DEFINE h == binlog[1]
           n == Len(binlog)
<1>1. /\ binlog # <<>> /\ binlog' = Tail(binlog) /\ clock' = clock /\ primary' = primary
      /\ replica' = [replica EXCEPT ![h.file] = h.row]
      /\ cookie' = cookie /\ told' = told
  BY Elements DEF Replicate, RoutingTypeOK
<1>2. /\ clock \in 0..End /\ Lag \in Nat /\ n \in Nat
      /\ primary \in [Files -> Row] /\ replica \in [Files -> Row]
      /\ binlog \in Seq(Change)
  BY ClockAssumption DEF RoutingTypeOK
<1>3. /\ n \in Nat \ {0} /\ 1 \in 1..n
      /\ binlog' \in Seq(Change)
      /\ Len(binlog') = n - 1
      /\ \A i \in 1..(n - 1) : binlog'[i] = binlog[i + 1] /\ i + 1 \in 1..n
  BY <1>1, <1>2
<1>4. \A i \in 1..n : binlog[i].file \in Files /\ binlog[i].row \in Row
  BY LogElements
<1>5. h.file \in Files /\ h.row \in Row
  BY <1>3, <1>4
<1>6. replica' \in [Files -> Row] /\ replica'[h.file] = h.row
  BY <1>1, <1>2, <1>5
<1>7. ASSUME NEW g \in Files PROVE Behind(replica[g], replica'[g])
  <2>1. CASE g = h.file
    BY <2>1, <1>3, <1>6 DEF LogOrdered
  <2>2. CASE g # h.file
    BY <2>2, <1>1, <1>2 DEF Behind, Row
  <2> QED
    BY <2>1, <2>2
<1>8. LogOrdered'
  <2>1. ASSUME NEW g \in Files PROVE Behind(replica'[g], primary'[g])
    BY <1>1, <1>2, <1>3, <1>5, <1>6 DEF LogOrdered
  <2>2. ASSUME NEW i \in 1..Len(binlog')
        PROVE  /\ Behind(replica'[binlog'[i].file], binlog'[i].row)
               /\ Behind(binlog'[i].row, primary'[binlog'[i].file])
               /\ binlog'[i].at <= clock' /\ clock' <= binlog'[i].at + Lag
    <3>1. /\ binlog'[i] = binlog[i + 1] /\ i + 1 \in 1..n /\ 1 < i + 1
          /\ binlog[i + 1].file \in Files
      BY <1>2, <1>3, <1>4
    <3>2. Behind(replica'[binlog[i + 1].file], binlog[i + 1].row)
      <4>1. CASE binlog[i + 1].file = h.file
        BY <4>1, <3>1, <1>3, <1>6 DEF LogOrdered
      <4>2. CASE binlog[i + 1].file # h.file
        BY <4>2, <3>1, <1>1, <1>2 DEF LogOrdered
      <4> QED
        BY <4>1, <4>2
    <3> QED
      BY <3>1, <3>2, <1>1 DEF LogOrdered
  <2>3. ASSUME NEW i \in 1..Len(binlog'), NEW j \in 1..Len(binlog'), i < j
        PROVE  /\ binlog'[i].at <= binlog'[j].at
               /\ binlog'[i].file = binlog'[j].file
                     => Behind(binlog'[i].row, binlog'[j].row)
    <3>1. i \in 1..(n - 1) /\ j \in 1..(n - 1) /\ i + 1 < j + 1
      BY <2>3, <1>2, <1>3
    <3>2. /\ binlog'[i] = binlog[i + 1] /\ i + 1 \in 1..n
          /\ binlog'[j] = binlog[j + 1] /\ j + 1 \in 1..n
      BY <3>1, <1>3
    <3> QED
      BY <3>1, <3>2 DEF LogOrdered
  <2> QED
    BY <2>1, <2>2, <2>3 DEF LogOrdered
<1>9. ASSUME NEW g \in Files, NEW k \in Nat, NEW t \in Nat, DueBefore(g, k, t)
      PROVE  DueBefore(g, k, t)'
  <2>0. replica[g] \in Row /\ replica'[g] \in Row
    BY <1>2, <1>6
  <2>1. CASE k <= replica[g].changes
    BY <2>0, <2>1, <1>7 DEF DueBefore, Behind, Row
  <2>2. ASSUME NEW i \in 1..n, binlog[i].file = g, binlog[i].row.changes = k,
               binlog[i].at + Lag < t
        PROVE  DueBefore(g, k, t)'
    <3>1. CASE i = 1
      BY <3>1, <2>2, <1>6 DEF DueBefore
    <3>2. CASE i # 1
      <4>1. i - 1 \in 1..Len(binlog') /\ binlog'[i - 1] = binlog[i]
        BY <3>2, <1>2, <1>3
      <4> QED
        BY <4>1, <2>2 DEF DueBefore
    <3> QED
      BY <3>1, <3>2
  <2> QED
    BY <2>1, <2>2, <1>9 DEF DueBefore
<1>10. \A g \in Files : Behind(primary[g], primary'[g])
  BY <1>1, <1>2 DEF Behind, Row
<1>11. Grows
  BY <1>7, <1>9, <1>10 DEF Grows
<1>12. RoutingTypeOK'
  BY <1>1, <1>3, <1>6 DEF RoutingTypeOK
<1> QED
  BY <1>8, <1>11, <1>12

LEMMA TickKeepsLog ==
    ASSUME RoutingTypeOK, LogOrdered, Tick
    PROVE  RoutingTypeOK' /\ LogOrdered' /\ Grows
<1>1. /\ clock < End /\ clock' = clock + 1
      /\ primary' = primary /\ replica' = replica /\ binlog' = binlog
      /\ cookie' = cookie /\ told' = told
      /\ binlog # <<>> => clock < binlog[1].at + Lag
  BY Elements DEF Tick, RoutingTypeOK
<1>2. /\ clock \in 0..End /\ End \in Nat /\ Lag \in Nat /\ Len(binlog) \in Nat
      /\ primary \in [Files -> Row] /\ replica \in [Files -> Row]
      /\ binlog \in Seq(Change)
  BY ClockAssumption DEF RoutingTypeOK
<1>3. ASSUME NEW i \in 1..Len(binlog)
      PROVE  binlog[i].at <= clock' /\ clock' <= binlog[i].at + Lag
  <2>1. binlog[i].at \in Nat /\ binlog[1].at \in Nat /\ 1 \in 1..Len(binlog)
    <3>1. 1 \in 1..Len(binlog)
      BY <1>2
    <3> QED
      BY <3>1, LogElements
  <2>2. binlog[1].at <= binlog[i].at /\ binlog[i].at <= clock
    <3>1. CASE i = 1
      BY <3>1, <2>1 DEF LogOrdered
    <3>2. CASE i # 1
      <4>1. 1 < i
        BY <3>2, <1>2
      <4> QED
        BY <4>1, <2>1 DEF LogOrdered
    <3> QED
      BY <3>1, <3>2
  <2>3. binlog # <<>>
    BY <1>2
  <2> QED
    BY <2>1, <2>2, <2>3, <1>1, <1>2
<1>4. LogOrdered'
  BY <1>1, <1>3 DEF LogOrdered
<1>5. Grows
  BY <1>1, <1>2 DEF Grows, DueBefore, Behind, Row
<1>6. RoutingTypeOK'
  BY <1>1, <1>2 DEF RoutingTypeOK
<1> QED
  BY <1>4, <1>5, <1>6

LEMMA QuietKeepsLog ==
    ASSUME RoutingTypeOK, LogOrdered, UNCHANGED <<clock, primary, replica, binlog>>
    PROVE  LogOrdered' /\ Grows
<1>1. primary \in [Files -> Row] /\ replica \in [Files -> Row]
  BY DEF RoutingTypeOK
<1>2. LogOrdered'
  BY DEF LogOrdered
<1>3. Grows
  BY <1>1 DEF Grows, DueBefore, Behind, Row
<1> QED
  BY <1>2, <1>3
-----------------------------------------------------------------------------
(***************************************************************************)
(* Requests: what carries over from one state to the next.                 *)
(***************************************************************************)

\* Tables only grow for those who look at them later.
LinksStay ==
    /\ \A l \in Links : linkFile[l] # None => linkFile'[l] = linkFile[l]
    /\ spared \subseteq spared'

LEMMA AnsweredIsSound ==
    ASSUME NEW step \in Steps
    PROVE  /\ Answered(step) \in Request
           /\ Answered(step).step = step
           /\ step \notin Busy => Sound(Answered(step)) /\ Sound(Answered(step))'
<1>1. Answered(step) \in Request
  BY DEF Answered, Request, NoRow, Row, Clients
<1> QED
  BY <1>1 DEF Answered, Sound, Covered, Named, ReadBehind, LinksKnown, Looking, Arrived, Busy

LEMMA SoundStays ==
    ASSUME TypeOK, RoutingTypeOK', Grows, LinksStay, NEW q \in Request, Sound(q)
    PROVE  Sound(q)'
<1>1. /\ q.known \in Nat /\ q.until \in Nat /\ q.row \in Row /\ q.links \in SUBSET Links
      /\ q.row.changes \in Nat /\ q.row.version \in Nat
  BY DEF Request, Row
<1>2. q.step \in Busy => q.file \in Files
  BY DEF Sound, Named
<1>3. Covered(q)'
  BY <1>1, <1>2 DEF Sound, Covered, Grows, Looking, Arrived, Busy
<1>4. Named(q)'
  BY <1>1, <1>2 DEF Sound, Named, Grows, Busy
<1>5. ReadBehind(q)'
  <2>1. CASE q.step = "fetching"
    <3>1. q.file \in Files
      BY <2>1, <1>2 DEF Busy
    <3>2. /\ primary[q.file].version \in Nat /\ replica[q.file].version \in Nat
          /\ primary'[q.file].version \in Nat /\ replica'[q.file].version \in Nat
          /\ primary[q.file].version <= primary'[q.file].version
          /\ replica[q.file].version <= replica'[q.file].version
      BY <3>1 DEF TypeOK, RoutingTypeOK, Row, Grows, Behind
    <3> DEFINE p == primary[q.file].version  p2 == primary'[q.file].version
               k == replica[q.file].version  k2 == replica'[q.file].version
    <3>3. q.row.version <= p /\ (q.until = 0 => q.row.version <= k)
      BY <2>1 DEF Sound, ReadBehind
    <3> QED
      BY <3>2, <3>3, <1>1 DEF ReadBehind
  <2> QED
    BY <2>1 DEF ReadBehind
<1>6. LinksKnown(q)'
  BY <1>1, <1>2, NoneAssumption DEF Sound, LinksKnown, LinksStay, Busy
<1> QED
  BY <1>3, <1>4, <1>5, <1>6 DEF Sound

\* One request is replaced by q, the others stay.
LEMMA OneRequestMoves ==
    ASSUME TypeOK, RequestsSound, RoutingTypeOK', Grows, LinksStay,
           NEW r \in Requests, NEW q \in Request, req' = [req EXCEPT ![r] = q], Sound(q)'
    PROVE  req' \in [Requests -> Request] /\ RequestsSound'
<1>1. req \in [Requests -> Request]
  BY DEF TypeOK
<1>2. req' \in [Requests -> Request]
  BY <1>1
<1>3. ASSUME NEW x \in Requests PROVE Sound(req[x])'
  <2>1. CASE x = r
    <3>1. req'[x] = q
      BY <2>1, <1>1
    <3> QED
      BY <3>1 DEF Sound, Covered, Named, ReadBehind, LinksKnown, DueBefore
  <2>2. CASE x # r
    <3>1. req'[x] = req[x] /\ req[x] \in Request /\ Sound(req[x])
      BY <2>2, <1>1 DEF RequestsSound
    <3> DEFINE y == req[x]
    <3>2. \A z \in Request : Sound(z) => Sound(z)'
      BY SoundStays
    <3> QED
      BY <3>1, <3>2 DEF Sound, Covered, Named, ReadBehind, LinksKnown, DueBefore
  <2> QED
    BY <2>1, <2>2
<1> QED
  BY <1>2, <1>3 DEF RequestsSound

LEMMA NoRequestMoves ==
    ASSUME TypeOK, RequestsSound, RoutingTypeOK', Grows, LinksStay, UNCHANGED req
    PROVE  req' \in [Requests -> Request] /\ RequestsSound'
<1>1. req \in [Requests -> Request]
  BY DEF TypeOK
<1>2. \A z \in Request : Sound(z) => Sound(z)'
  BY SoundStays
<1>3. ASSUME NEW x \in Requests PROVE Sound(req[x])'
  <2>1. req'[x] = req[x] /\ req[x] \in Request /\ Sound(req[x])
    BY <1>1 DEF RequestsSound
  <2> QED
    BY <2>1, <1>2 DEF Sound, Covered, Named, ReadBehind, LinksKnown, DueBefore
<1> QED
  BY <1>1, <1>3 DEF RequestsSound
-----------------------------------------------------------------------------
(***************************************************************************)
(* Cookies.                                                                *)
(***************************************************************************)

LEMMA CookiesStay ==
    ASSUME RoutingTypeOK, CookiesCover, Grows, UNCHANGED <<cookie, told>>
    PROVE  CookiesCover'
<1> SUFFICES ASSUME NEW s \in Sessions, NEW f \in Files
             PROVE  DueBefore(f, told[s][f], cookie[s])'
  BY DEF CookiesCover
<1>1. told[s][f] \in Nat /\ cookie[s] \in Nat /\ DueBefore(f, told[s][f], cookie[s])
  BY DEF RoutingTypeOK, CookiesCover
<1>2. \A n \in Nat, t \in Nat : DueBefore(f, n, t) => DueBefore(f, n, t)'
  BY DEF Grows
<1> QED
  BY <1>1, <1>2 DEF DueBefore

\* An answer that sets the cookie covers the change n it confirms, and all the
\* session had been told of before.
LEMMA AnswerCoversWrite ==
    ASSUME RoutingTypeOK, CookiesCover, RoutingTypeOK', LogOrdered', Grows, clock' = clock,
           NEW s \in Sessions, NEW f \in Files, NEW n \in Nat, NEW t \in Nat,
           DueBefore(f, n, t)',
           cookie' = SetRAWCookie(s),
           told' = [told EXCEPT ![s][f] = IF n > @ THEN n ELSE @]
    PROVE  CookiesCover'
<1> SUFFICES ASSUME NEW x \in Sessions, NEW g \in Files
             PROVE  DueBefore(g, told[x][g], cookie[x])'
  BY DEF CookiesCover
<1>1. /\ cookie \in [Sessions -> Nat] /\ told \in [Sessions -> [Files -> Nat]]
      /\ clock \in Nat /\ Lag \in Nat
  BY ClockAssumption DEF RoutingTypeOK
<1>2. \A m \in Nat, u \in Nat : DueBefore(g, m, u) => DueBefore(g, m, u)'
  BY DEF Grows
<1>3. told[x][g] \in Nat /\ cookie[x] \in Nat /\ DueBefore(g, told[x][g], cookie[x])
  BY <1>1 DEF CookiesCover
<1>4. CASE x # s
  <2>1. cookie'[x] = cookie[x] /\ told'[x][g] = told[x][g]
    BY <1>4, <1>1 DEF SetRAWCookie
  <2>2. DueBefore(g, told[x][g], cookie[x]) => \A m, u \in Nat :
           m = told[x][g] /\ u = cookie[x] => DueBefore(g, m, u)'
    BY <1>2
  <2> QED
    BY <2>1, <2>2, <1>3 DEF DueBefore
<1>5. CASE x = s
  <2>1. cookie'[x] \in Nat /\ clock + Lag < cookie'[x]
    BY <1>5, <1>1, WindowOutlastsLag DEF SetRAWCookie
  <2>2. \E m \in Nat, u \in Nat : m = told'[x][g] /\ DueBefore(g, m, u)'
    <3>1. CASE told'[x][g] = told[x][g]
      BY <3>1, <1>2, <1>3
    <3>2. CASE g = f /\ told'[x][g] = n
      BY <3>2
    <3> QED
      BY <3>1, <3>2, <1>1, <1>5
  <2>3. PICK m \in Nat, u \in Nat : m = told'[x][g] /\ DueBefore(g, m, u)'
    BY <2>2
  <2>4. \A i \in 1..Len(binlog') :
           binlog'[i].at \in Nat /\ binlog'[i].at + Lag <= clock + Lag
    <3>1. ASSUME NEW i \in 1..Len(binlog')
          PROVE  binlog'[i].at \in Nat /\ binlog'[i].at <= clock
      <4>1. binlog'[i] \in Change
        BY DEF RoutingTypeOK
      <4> QED
        BY <4>1 DEF LogOrdered, Change
    <3> QED
      BY <3>1, <1>1
  <2>5. CASE m <= replica'[g].changes
    BY <2>3, <2>5 DEF DueBefore
  <2>6. ASSUME NEW i \in 1..Len(binlog'),
               binlog'[i].file = g, binlog'[i].row.changes = m
        PROVE  DueBefore(g, told[x][g], cookie[x])'
    <3>1. binlog'[i].at + Lag < cookie'[x]
      <4> DEFINE a == binlog'[i].at  c == cookie'[x]
      <4>1. a \in Nat /\ a + Lag <= clock + Lag
        BY <2>4
      <4>2. c \in Nat /\ clock + Lag < c
        BY <2>1
      <4> HIDE DEF a, c
      <4>3. a + Lag < c
        BY <4>1, <4>2, <1>1
      <4> QED
        BY <4>3 DEF a, c
    <3> QED
      BY <3>1, <2>3, <2>6 DEF DueBefore
  <2> QED
    BY <2>3, <2>5, <2>6 DEF DueBefore
<1> QED
  BY <1>4, <1>5
-----------------------------------------------------------------------------
(***************************************************************************)
(* Every action keeps IInv.                                                *)
(***************************************************************************)

\* A step of one request that answers no write.
LEMMA RequestStep ==
    ASSUME IInv, RoutingTypeOK', LogOrdered', Grows, LinksStay,
           UNCHANGED <<cookie, told, doomed, spared>>,
           linkFile' \in [Links -> Files \cup {None}],
           inactive \subseteq inactive', inactive' \in SUBSET Links,
           NEW r \in Requests, NEW q \in Request, req' = [req EXCEPT ![r] = q], Sound(q)'
    PROVE  IInv'
<1>1. req' \in [Requests -> Request] /\ RequestsSound'
  BY OneRequestMoves DEF IInv
<1>2. TypeOK'
  BY <1>1 DEF IInv, TypeOK
<1>3. CookiesCover'
  BY CookiesStay DEF IInv, TypeOK
<1>4. DoomedLinks'
  BY DEF IInv, DoomedLinks
<1> QED
  BY <1>1, <1>2, <1>3, <1>4 DEF IInv

\* A step of one request that reads only, or touches no more than `inactive`.
LEMMA ReadStep ==
    ASSUME IInv, UNCHANGED <<routingVars, linkFile, doomed, spared>>,
           inactive \subseteq inactive', inactive' \in SUBSET Links,
           NEW r \in Requests, NEW q \in Request, req' = [req EXCEPT ![r] = q], Sound(q)
    PROVE  IInv'
<1>1. TypeOK /\ RoutingTypeOK /\ LogOrdered
  BY DEF IInv, TypeOK
<1>2. RoutingTypeOK' /\ LogOrdered' /\ Grows
  BY <1>1, QuietKeepsLog DEF routingVars, RoutingTypeOK
<1>3. LinksStay
  BY DEF LinksStay
<1>4. Sound(q)'
  BY <1>1, <1>2, <1>3, SoundStays
<1> QED
  BY <1>1, <1>2, <1>3, <1>4, RequestStep DEF TypeOK, routingVars

\* A step that answers the request r and otherwise touches no more than
\* `inactive`.
LEMMA AnswerStep ==
    ASSUME IInv, UNCHANGED <<routingVars, linkFile, doomed, spared>>,
           inactive \subseteq inactive', inactive' \in SUBSET Links,
           NEW r \in Requests, NEW step \in Steps \ Busy, Answer(r, step)
    PROVE  IInv'
<1>1. Answered(step) \in Request /\ Sound(Answered(step))
  BY AnsweredIsSound
<1> QED
  BY <1>1, ReadStep DEF Answer

\* A request that arrives is covered for what its browser had been told.
LEMMA ArrivalIsCovered ==
    ASSUME IInv, NEW c \in Clients, NEW f \in Files
    PROVE  LET n == IF c \in Sessions THEN told[c][f] ELSE 0
           IN  n \in Nat /\ UntilOf(c) \in Nat /\ DueBefore(f, n, UntilOf(c))
<1>1. /\ clock \in Nat /\ Lag \in Nat /\ cookie \in [Sessions -> Nat]
      /\ told \in [Sessions -> [Files -> Nat]] /\ replica[f] \in Row
  BY ClockAssumption DEF IInv, TypeOK, RoutingTypeOK
<1>2. CASE c \notin Sessions
  BY <1>1, <1>2 DEF UntilOf, DueBefore, Row
<1>3. CASE c \in Sessions /\ clock <= cookie[c]
  BY <1>1, <1>3 DEF UntilOf, IInv, CookiesCover
<1>4. CASE c \in Sessions /\ ~(clock <= cookie[c])
  <2>1. DueBefore(f, told[c][f], cookie[c])
    BY <1>4 DEF IInv, CookiesCover
  <2>2. ASSUME NEW i \in 1..Len(binlog) PROVE ~(binlog[i].at + Lag < cookie[c])
    <3> DEFINE a == binlog[i].at  k == cookie[c]
    <3>1. a \in Nat /\ clock <= a + Lag
      BY LogElements DEF IInv, TypeOK, LogOrdered
    <3>2. k \in Nat /\ ~(clock <= k)
      BY <1>1, <1>4
    <3> HIDE DEF a, k
    <3>3. ~(a + Lag < k)
      BY <3>1, <3>2, <1>1
    <3> QED
      BY <3>3 DEF a, k
  <2>3. told[c][f] <= replica[f].changes
    BY <2>1, <2>2 DEF DueBefore
  <2> QED
    BY <2>3, <1>1, <1>4 DEF UntilOf, DueBefore
<1> QED
  BY <1>2, <1>3, <1>4

LEMMA ArrivalStep ==
    ASSUME IInv, UNCHANGED <<routingVars, linkVars, ghostVars>>,
           NEW r \in Requests, NEW c \in Clients, NEW f \in Files,
           NEW l \in Links \cup {None}, NEW step \in Looking,
           Arrive(r, c, f, l, step),
           step = "delete" => c \in Sessions,
           step = "resolved" => l \in Links,
           l \in doomed => l \in spared
    PROVE  IInv'
<1> DEFINE q == [Answered(step) EXCEPT
                   !.by = IF step = "delete" THEN c ELSE Visitor, !.until = UntilOf(c),
                   !.file = f, !.link = l,
                   !.known = IF c \in Sessions THEN told[c][f] ELSE 0,
                   !.late = l \in doomed]
<1>1. req' = [req EXCEPT ![r] = q]
  BY DEF Arrive
<1>2. /\ UntilOf(c) \in Nat
      /\ (IF c \in Sessions THEN told[c][f] ELSE 0) \in Nat
      /\ DueBefore(f, IF c \in Sessions THEN told[c][f] ELSE 0, UntilOf(c))
  BY ArrivalIsCovered
<1>3. step \in Steps /\ Answered(step) \in Request
  BY AnsweredIsSound DEF Looking, Steps, Busy
<1>4. q \in Request
  <2> DEFINE by == IF step = "delete" THEN c ELSE Visitor
             known == IF c \in Sessions THEN told[c][f] ELSE 0
             late == l \in doomed
  <2>1. ASSUME NEW a \in Request, NEW b \in Clients, NEW u \in Nat, NEW k \in Nat,
               NEW d \in BOOLEAN
        PROVE  [a EXCEPT !.by = b, !.until = u, !.file = f, !.link = l,
                         !.known = k, !.late = d] \in Request
    BY DEF Request
  <2>2. by \in Clients /\ known \in Nat
    BY <1>2 DEF Clients
  <2>3. late \in BOOLEAN
    OBVIOUS
  <2> HIDE DEF by, known, late
  <2>4. [Answered(step) EXCEPT !.by = by, !.until = UntilOf(c), !.file = f, !.link = l,
                               !.known = known, !.late = late] \in Request
    BY <1>2, <1>3, <2>1, <2>2, <2>3
  <2> QED
    BY <2>4 DEF by, known, late
<1>5. /\ q.step = step /\ q.until = UntilOf(c) /\ q.file = f /\ q.link = l
      /\ q.known = (IF c \in Sessions THEN told[c][f] ELSE 0)
      /\ q.late = (l \in doomed) /\ (step = "delete" => q.by = c)
  BY DEF Answered
<1> HIDE DEF q
<1>6. Sound(q)
  BY <1>2, <1>5 DEF Sound, Covered, Named, ReadBehind, LinksKnown, Looking, Arrived, Busy
<1>7. inactive' = inactive /\ inactive \in SUBSET Links
  BY DEF linkVars, IInv, TypeOK
<1> QED
  BY <1>1, <1>4, <1>6, <1>7, ReadStep DEF linkVars, ghostVars

\* The first read of a request.
LEMMA GoOnStep ==
    ASSUME IInv, UNCHANGED <<routingVars, linkVars, ghostVars>>,
           NEW r \in Requests, NEW step \in {"deleting", "creating", "unsharing", "fetching"},
           GoOn(r, step), req[r].step \in Looking,
           step = "deleting" => req[r].step = "delete",
           step = "fetching" => req[r].step \in {"download", "resolved"},
           step = "unsharing" => req[r].step = "resolved"
    PROVE  IInv'
<1> DEFINE old == req[r]
           q == IF step = "fetching"
                THEN [old EXCEPT !.step = step, !.known = 0, !.row = RowRead(r)]
                ELSE [old EXCEPT !.step = step, !.known = 0, !.until = 0]
<1>1. req' = [req EXCEPT ![r] = q]
  BY DEF GoOn
<1>2. old \in Request /\ Sound(old)
  BY DEF IInv, TypeOK, RequestsSound
<1>3. old.file \in Files
  BY <1>2 DEF Sound, Named, Looking, Busy
<1>4. /\ clock \in Nat /\ primary[old.file] \in Row /\ replica[old.file] \in Row
      /\ old.until \in Nat
  BY <1>2, <1>3 DEF IInv, TypeOK, RoutingTypeOK, Request
<1>5. RowRead(r) \in Row
  BY <1>4 DEF RowRead, Reader
<1>6. q \in Request
  BY <1>2, <1>5 DEF Request, Steps, Busy
<1>7. /\ q.step = step /\ q.file = old.file /\ q.by = old.by /\ q.link = old.link
      /\ q.late = old.late /\ q.links = old.links
      /\ step = "fetching" => q.row = RowRead(r) /\ q.until = old.until
  BY <1>2 DEF Request
<1>8. Behind(replica[old.file], primary[old.file])
  BY <1>3 DEF IInv, LogOrdered
<1>9. ReadBehind(q)
  <2>1. CASE clock < old.until
    BY <2>1, <1>4, <1>7 DEF ReadBehind, RowRead, Reader, Row
  <2>2. CASE ~(clock < old.until)
    BY <2>2, <1>4, <1>7, <1>8 DEF ReadBehind, RowRead, Reader, Row, Behind
  <2> QED
    BY <2>1, <2>2
<1> HIDE DEF q
<1>10. Covered(q) /\ Named(q) /\ LinksKnown(q)
  BY <1>2, <1>3, <1>7 DEF Sound, Covered, Named, LinksKnown, Looking, Arrived, Busy
<1>11. Sound(q)
  BY <1>9, <1>10 DEF Sound
<1>12. inactive' = inactive /\ inactive \in SUBSET Links
  BY DEF linkVars, IInv, TypeOK
<1> QED
  BY <1>1, <1>6, <1>11, <1>12, ReadStep DEF linkVars, ghostVars

\* The steps that read, answer or arrive.
LEMMA ReadingSteps ==
    ASSUME IInv, NEW r \in Requests,
           \/ \E s \in Sessions, f \in Files : OwnerArrives(r, s, f)
           \/ DeleteLooks(r) \/ CreateLooks(r) \/ DownloadLooks(r)
           \/ \E c \in Clients, l \in Links : Resolve(r, c, l)
           \/ VisitLooks(r) \/ FindVersion(r) \/ Break(r)
    PROVE  IInv'
<1>1. /\ inactive \in SUBSET Links /\ doomed \in SUBSET Links
      /\ linkFile \in [Links -> Files \cup {None}]
  BY DEF IInv, TypeOK
<1>2. {"idle", "served", "missing", "kept"} \subseteq Steps \ Busy
  BY DEF Steps, Busy, Arrived
<1>3. ASSUME NEW s \in Sessions, NEW f \in Files, OwnerArrives(r, s, f) PROVE IInv'
  <2>1. PICK step \in Arrived : Arrive(r, s, f, None, step)
    BY <1>3 DEF OwnerArrives
  <2>2. None \notin doomed
    BY <1>1, NoneAssumption
  <2> QED
    BY <1>3, <2>1, <2>2, ArrivalStep DEF OwnerArrives, Clients, Looking, Arrived
<1>4. CASE DeleteLooks(r)
  <2>1. CASE GoOn(r, "deleting")
    BY <1>4, <2>1, GoOnStep DEF DeleteLooks, At, Looking, Arrived
  <2>2. CASE Answer(r, "kept")
    BY <1>1, <1>2, <1>4, <2>2, AnswerStep DEF DeleteLooks, linkVars, ghostVars
  <2> QED
    BY <1>4, <2>1, <2>2 DEF DeleteLooks
<1>5. CASE CreateLooks(r)
  <2>1. CASE GoOn(r, "creating")
    BY <1>5, <2>1, GoOnStep DEF CreateLooks, At, Looking, Arrived
  <2>2. CASE Answer(r, "idle")
    BY <1>1, <1>2, <1>5, <2>2, AnswerStep DEF CreateLooks, linkVars, ghostVars
  <2> QED
    BY <1>5, <2>1, <2>2 DEF CreateLooks
<1>6. CASE DownloadLooks(r)
  <2>1. CASE GoOn(r, "fetching")
    BY <1>6, <2>1, GoOnStep DEF DownloadLooks, At, Looking, Arrived
  <2>2. CASE Answer(r, "idle")
    BY <1>1, <1>2, <1>6, <2>2, AnswerStep DEF DownloadLooks, linkVars, ghostVars
  <2> QED
    BY <1>6, <2>1, <2>2 DEF DownloadLooks
<1>7. ASSUME NEW c \in Clients, NEW l \in Links, Resolve(r, c, l) PROVE IInv'
  <2>1. linkFile[l] \in Files /\ (l \in doomed => l \in spared)
    BY <1>1, <1>7 DEF Resolve, IsActive, IInv, DoomedLinks
  <2> QED
    BY <1>7, <2>1, ArrivalStep DEF Resolve, Looking
<1>8. CASE VisitLooks(r)
  <2>1. PICK step \in {"unsharing", "fetching"} : GoOn(r, step)
    BY <1>8 DEF VisitLooks
  <2> QED
    BY <1>8, <2>1, GoOnStep DEF VisitLooks, At, Looking
<1>9. CASE FindVersion(r)
  <2>1. PICK step \in {"served", "missing"} : Answer(r, step)
    BY <1>9 DEF FindVersion
  <2> QED
    BY <1>1, <1>2, <1>9, <2>1, AnswerStep DEF FindVersion, linkVars, ghostVars
<1>10. CASE Break(r)
  BY <1>1, <1>2, <1>10, AnswerStep DEF Break, linkVars, ghostVars
<1> QED
  BY <1>3, <1>4, <1>5, <1>6, <1>7, <1>8, <1>9, <1>10

LEMMA UnshareStep ==
    ASSUME IInv, NEW r \in Requests, Unshare(r)
    PROVE  IInv'
<1>1. Sound(req[r]) /\ inactive \in SUBSET Links
  BY DEF IInv, TypeOK, RequestsSound
<1>2. req[r].link \in Links
  BY <1>1 DEF Unshare, At, Sound, Named
<1>3. "idle" \in Steps \ Busy
  BY DEF Steps, Busy, Arrived
<1> QED
  BY <1>1, <1>2, <1>3, AnswerStep DEF Unshare, ghostVars

LEMMA InsertStep ==
    ASSUME IInv, NEW r \in Requests, NEW l \in Links, Insert(r, l)
    PROVE  IInv'
<1>1. Sound(req[r]) /\ req[r].step = "creating"
  BY DEF IInv, RequestsSound, Insert, At
<1>2. req[r].file \in Files
  BY <1>1 DEF Sound, Named, Busy
<1>3. /\ linkFile \in [Links -> Files \cup {None}] /\ inactive \in SUBSET Links
      /\ RoutingTypeOK /\ LogOrdered
  BY DEF IInv, TypeOK
<1>4. linkFile' \in [Links -> Files \cup {None}] /\ LinksStay
  BY <1>2, <1>3 DEF Insert, LinksStay, ghostVars
<1>5. RoutingTypeOK' /\ LogOrdered' /\ Grows
  BY <1>3, QuietKeepsLog DEF Insert, routingVars, RoutingTypeOK
<1>6. Answered("idle") \in Request /\ Sound(Answered("idle"))'
  BY AnsweredIsSound DEF Steps, Busy, Arrived
<1> QED
  BY <1>3, <1>4, <1>5, <1>6, RequestStep DEF Insert, Answer, routingVars, ghostVars

LEMMA SoftDeleteStep ==
    ASSUME IInv, NEW r \in Requests, SoftDelete(r)
    PROVE  IInv'
<1>1. /\ TypeOK /\ RoutingTypeOK /\ LogOrdered /\ inactive \in SUBSET Links
      /\ req[r] \in Request /\ Sound(req[r]) /\ req[r].step = "deleting"
  BY DEF IInv, TypeOK, RequestsSound, SoftDelete, At
<1>2. req[r].file \in Files /\ req[r].by \in Sessions
  BY <1>1 DEF Sound, Named, Busy
<1>3. PICK f \in Files : f = req[r].file
  BY <1>2
<1>4. CASE ~(primary[f].state = "active")
  BY <1>1, <1>3, <1>4, AnswerStep
     DEF SoftDelete, routingVars, linkVars, ghostVars, Steps, Busy, Arrived
<1>5. CASE primary[f].state = "active"
  <2>1. primary[f] \in Row
    BY <1>1 DEF RoutingTypeOK
  <2>2. Changed([primary[f] EXCEPT !.state = "trashed"]) \in Row
    BY <2>1, ChangedRows
  <2>3. PICK row \in Row : row = Changed([primary[f] EXCEPT !.state = "trashed"])
    BY <2>2
  <2>4. PICK found \in SUBSET Links : found = {l \in Links : linkFile[l] = f}
    OBVIOUS
  <2>5. PICK q \in Request : q = [req[r] EXCEPT !.step = "revoking", !.row = row, !.links = found]
    BY <1>1 DEF Request, Steps, Busy
  <2>6. /\ Write(f, row) /\ UNCHANGED <<clock, replica, cookie, told, linkFile, inactive, doomed, spared>>
        /\ req' = [req EXCEPT ![r].step = "revoking", ![r].row = row, ![r].links = found]
    BY <1>3, <1>5, <2>3, <2>4 DEF SoftDelete, linkVars, ghostVars
  <2>7. Writes(f, row)
    BY <2>1, <2>3, <2>6 DEF Writes, Changed, Row
  <2>8. /\ RoutingTypeOK' /\ LogOrdered' /\ Grows
        /\ \A t \in Nat : clock + Lag < t => DueBefore(f, row.changes, t)'
    <3>1. cookie' \in [Sessions -> Nat] /\ told' \in [Sessions -> [Files -> Nat]]
      BY <1>1, <2>6 DEF RoutingTypeOK
    <3> QED
      BY <1>1, <2>7, <3>1, WriteKeepsLog
  <2>9. req' = [req EXCEPT ![r] = q]
    BY <2>5, <2>6, <1>1 DEF TypeOK, Request
  <2>10. /\ q.step = "revoking" /\ q.file = f /\ q.by \in Sessions
         /\ q.row = row /\ q.links = found
    BY <1>1, <1>2, <1>3, <2>5 DEF Request
  <2>11. \E t \in Nat : DueBefore(f, row.changes, t)'
    <3>1. clock + Lag + 1 \in Nat /\ clock + Lag < clock + Lag + 1
      BY <1>1, ClockAssumption DEF RoutingTypeOK
    <3> QED
      BY <2>8, <3>1
  <2>12. Sound(q)'
    <3>1. Covered(q)' /\ ReadBehind(q)' /\ LinksKnown(q)'
      BY <2>4, <2>6, <2>10 DEF Covered, ReadBehind, LinksKnown, Looking, Arrived
    <3>2. Named(q)'
      BY <2>10, <2>11 DEF Named, Busy
    <3> QED
      BY <3>1, <3>2 DEF Sound
  <2>13. LinksStay
    BY <2>6 DEF LinksStay
  <2>14. linkFile' \in [Links -> Files \cup {None}] /\ inactive \subseteq inactive'
         /\ inactive' \in SUBSET Links
    BY <1>1, <2>6 DEF TypeOK
  <2> QED
    BY <2>6, <2>8, <2>9, <2>12, <2>13, <2>14, RequestStep
<1> QED
  BY <1>4, <1>5

\* The answer to a delete: the links it found are inactive or spared now.
LEMMA RevokeByFileStep ==
    ASSUME IInv, NEW r \in Requests, RevokeByFile(r)
    PROVE  IInv'
<1>1. /\ TypeOK /\ RoutingTypeOK /\ LogOrdered /\ CookiesCover
      /\ req[r] \in Request /\ Sound(req[r]) /\ req[r].step = "revoking"
  BY DEF IInv, TypeOK, RequestsSound, RevokeByFile, At
<1>2. PICK q \in Request : q = req[r]
  BY <1>1
<1>3. /\ q.file \in Files /\ q.by \in Sessions /\ q.row.changes \in Nat
      /\ \E t \in Nat : DueBefore(q.file, q.row.changes, t)
      /\ q.links \in SUBSET Links /\ \A l \in q.links : linkFile[l] = q.file
  BY <1>1, <1>2 DEF Sound, Named, LinksKnown, Busy, Request, Row
<1>4. /\ UNCHANGED <<clock, primary, replica, binlog, linkFile>>
      /\ cookie' = SetRAWCookie(q.by) /\ Confirm(q.by, q.file, q.row)
      /\ doomed' = doomed \cup q.links /\ req' = [req EXCEPT ![r] = Answered("idle")]
  BY <1>2 DEF RevokeByFile, Answer
<1>5. /\ inactive \subseteq inactive' /\ spared \subseteq spared'
      /\ inactive' \in SUBSET Links /\ spared' \in SUBSET Links /\ doomed' \in SUBSET Links
      /\ q.links \subseteq inactive' \cup spared'
  BY <1>1, <1>2, <1>3, <1>4 DEF RevokeByFile, RevokedWith, TypeOK
<1>6. LogOrdered' /\ Grows
  BY <1>1, <1>4, QuietKeepsLog
<1>7. RoutingTypeOK'
  <2>1. WholeSecond(clock + Window * Second) \in Nat
    BY <1>1, WindowOutlastsLag DEF RoutingTypeOK
  <2> QED
    BY <2>1, <1>1, <1>3, <1>4 DEF RoutingTypeOK, SetRAWCookie, Confirm
<1>8. CookiesCover'
  <2>1. PICK t \in Nat : DueBefore(q.file, q.row.changes, t)
    BY <1>3
  <2>2. DueBefore(q.file, q.row.changes, t)'
    BY <1>3, <1>4, <2>1 DEF DueBefore
  <2> QED
    BY <1>1, <1>3, <1>4, <1>6, <1>7, <2>2, AnswerCoversWrite DEF Confirm
<1>9. LinksStay
  BY <1>4, <1>5 DEF LinksStay
<1>10. Answered("idle") \in Request /\ Sound(Answered("idle"))'
  BY AnsweredIsSound DEF Steps, Busy, Arrived
<1>11. req' \in [Requests -> Request] /\ RequestsSound'
  BY <1>1, <1>4, <1>6, <1>7, <1>9, <1>10, OneRequestMoves DEF IInv
<1>12. TypeOK'
  BY <1>1, <1>4, <1>5, <1>7, <1>11 DEF TypeOK
<1>13. DoomedLinks'
  BY <1>4, <1>5 DEF IInv, DoomedLinks
<1> QED
  BY <1>6, <1>8, <1>11, <1>12, <1>13 DEF IInv

\* An overwrite or a restore: a write and its answer in one step.
LEMMA AnsweredWriteStep ==
    ASSUME IInv, NEW s \in Sessions, NEW f \in Files, NEW row \in Row,
           Writes(f, row), cookie' = SetRAWCookie(s), Confirm(s, f, row),
           UNCHANGED <<linkVars, req, ghostVars>>
    PROVE  IInv'
<1>1. TypeOK /\ RoutingTypeOK /\ LogOrdered /\ CookiesCover /\ row.changes \in Nat
  BY DEF IInv, TypeOK, Row
<1>2. WholeSecond(clock + Window * Second) \in Nat /\ clock + Lag + 1 \in Nat
  BY <1>1, WindowOutlastsLag, ClockAssumption DEF RoutingTypeOK
<1>3. cookie' \in [Sessions -> Nat] /\ told' \in [Sessions -> [Files -> Nat]]
  BY <1>1, <1>2 DEF RoutingTypeOK, SetRAWCookie, Confirm
<1>4. /\ RoutingTypeOK' /\ LogOrdered' /\ Grows /\ clock' = clock
      /\ \A t \in Nat : clock + Lag < t => DueBefore(f, row.changes, t)'
  BY <1>1, <1>3, WriteKeepsLog DEF Writes
<1>5. CookiesCover'
  <2>1. clock + Lag < clock + Lag + 1
    BY <1>1, ClockAssumption DEF RoutingTypeOK
  <2>2. DueBefore(f, row.changes, clock + Lag + 1)'
    BY <1>2, <1>4, <2>1 DEF DueBefore
  <2>3. PICK t \in Nat : DueBefore(f, row.changes, t)'
    BY <1>2, <1>4, <2>1
  <2> QED
    BY <1>1, <1>4, <2>3, AnswerCoversWrite DEF Confirm
<1>6. LinksStay
  BY DEF LinksStay, linkVars, ghostVars
<1>7. req' \in [Requests -> Request] /\ RequestsSound'
  BY <1>1, <1>4, <1>6, NoRequestMoves DEF IInv
<1> QED
  BY <1>1, <1>4, <1>5, <1>7 DEF IInv, TypeOK, DoomedLinks, linkVars, ghostVars

LEMMA UploadStep ==
    ASSUME IInv, NEW s \in Sessions, NEW f \in Files, Upload(s, f) \/ Restore(s, f)
    PROVE  IInv'
<1>1. primary[f] \in Row
  BY DEF IInv, TypeOK, RoutingTypeOK
<1>2. /\ Changed([primary[f] EXCEPT !.version = @ + 1]) \in Row
      /\ Changed([primary[f] EXCEPT !.state = "active"]) \in Row
  BY <1>1, ChangedRows
<1>3. PICK row \in Row :
        /\ \/ row = Changed([primary[f] EXCEPT !.version = @ + 1])
           \/ row = Changed([primary[f] EXCEPT !.state = "active"])
        /\ Write(f, row) /\ cookie' = SetRAWCookie(s) /\ Confirm(s, f, row)
        /\ UNCHANGED <<clock, replica, linkVars, req, ghostVars>>
  BY <1>2 DEF Upload, Restore
<1>4. /\ row.changes = primary[f].changes + 1 /\ row.version >= primary[f].version
  <2>1. primary[f].version \in Nat
    BY <1>1 DEF Row
  <2>2. CASE row = Changed([primary[f] EXCEPT !.version = @ + 1])
    <3>1. row.changes = primary[f].changes + 1 /\ row.version = primary[f].version + 1
      BY <1>1, <2>2, ChangedRows
    <3> QED
      BY <2>1, <3>1
  <2>3. CASE row = Changed([primary[f] EXCEPT !.state = "active"])
    <3>1. row.changes = primary[f].changes + 1 /\ row.version = primary[f].version
      BY <1>1, <2>3, ChangedRows
    <3> QED
      BY <2>1, <3>1
  <2> QED
    BY <1>3, <2>2, <2>3
<1>5. Writes(f, row)
  BY <1>3, <1>4 DEF Writes
<1> QED
  BY <1>3, <1>5, AnsweredWriteStep

LEMMA RevokeStep ==
    ASSUME IInv, NEW l \in Links, Revoke(l)
    PROVE  IInv'
<1>1. TypeOK /\ RoutingTypeOK /\ LogOrdered /\ CookiesCover
  BY DEF IInv, TypeOK
<1>2. RoutingTypeOK' /\ LogOrdered' /\ Grows
  BY <1>1, QuietKeepsLog DEF Revoke, routingVars, RoutingTypeOK
<1>3. LinksStay
  BY DEF Revoke, LinksStay, ghostVars
<1>4. req' \in [Requests -> Request] /\ RequestsSound'
  BY <1>1, <1>2, <1>3, NoRequestMoves DEF Revoke, IInv
<1>5. CookiesCover'
  BY <1>1, <1>2, CookiesStay DEF Revoke, routingVars
<1> QED
  BY <1>1, <1>2, <1>4, <1>5 DEF Revoke, IInv, TypeOK, DoomedLinks, ghostVars

LEMMA EnvironmentStep ==
    ASSUME IInv, Environment
    PROVE  IInv'
<1>1. TypeOK /\ RoutingTypeOK /\ LogOrdered /\ CookiesCover
  BY DEF IInv, TypeOK
<1>2. RoutingTypeOK' /\ LogOrdered' /\ Grows
  BY <1>1, ReplicateKeepsLog, TickKeepsLog DEF Environment
<1>3. LinksStay
  BY DEF Environment, LinksStay, linkVars, ghostVars
<1>4. req' \in [Requests -> Request] /\ RequestsSound'
  BY <1>1, <1>2, <1>3, NoRequestMoves DEF Environment, IInv
<1>5. CookiesCover'
  BY <1>1, <1>2, CookiesStay DEF Environment, Replicate, Tick
<1> QED
  BY <1>1, <1>2, <1>4, <1>5 DEF Environment, IInv, TypeOK, DoomedLinks, linkVars, ghostVars

LEMMA StutterStep ==
    ASSUME IInv, UNCHANGED vars
    PROVE  IInv'
<1>1. TypeOK /\ RoutingTypeOK /\ LogOrdered /\ CookiesCover
  BY DEF IInv, TypeOK
<1>2. RoutingTypeOK' /\ LogOrdered' /\ Grows
  BY <1>1, QuietKeepsLog DEF vars, routingVars, RoutingTypeOK
<1>3. LinksStay
  BY DEF vars, LinksStay, linkVars, ghostVars
<1>4. req' \in [Requests -> Request] /\ RequestsSound'
  BY <1>1, <1>2, <1>3, NoRequestMoves DEF vars, IInv
<1>5. CookiesCover'
  BY <1>1, <1>2, CookiesStay DEF vars, routingVars
<1> QED
  BY <1>1, <1>2, <1>4, <1>5 DEF vars, IInv, TypeOK, DoomedLinks, linkVars, ghostVars

LEMMA InitIsSound == Init => IInv
<1> SUFFICES ASSUME Init PROVE IInv
  OBVIOUS
<1> USE DEF Init, RoutingInit
<1>1. Answered("idle") \in Request /\ Sound(Answered("idle"))
  BY AnsweredIsSound DEF Steps, Busy, Arrived
<1>2. [state |-> "active", version |-> 1, changes |-> 1] \in Row
  BY DEF Row
<1>3. binlog \in Seq(Change) /\ Len(binlog) = 0
  OBVIOUS
<1>4. RoutingTypeOK
  BY <1>2, <1>3, ClockAssumption DEF RoutingTypeOK
<1>5. TypeOK
  BY <1>1, <1>4 DEF TypeOK
<1>6. LogOrdered
  BY <1>3 DEF LogOrdered, Behind
<1>7. CookiesCover
  <2>1. ASSUME NEW s \in Sessions, NEW f \in Files PROVE DueBefore(f, told[s][f], cookie[s])
    <3>1. told[s][f] = 0 /\ replica[f].changes = 1
      OBVIOUS
    <3>2. told[s][f] <= replica[f].changes
      BY <3>1
    <3> HIDE DEF Init, RoutingInit
    <3> QED
      BY <3>2 DEF DueBefore
  <2> QED
    BY <2>1 DEF CookiesCover
<1>8. RequestsSound /\ DoomedLinks
  BY <1>1 DEF RequestsSound, DoomedLinks
<1> QED
  BY <1>5, <1>6, <1>7, <1>8 DEF IInv

LEMMA StepKeepsIInv == IInv /\ [Next]_vars => IInv'
<1> SUFFICES ASSUME IInv, [Next]_vars PROVE IInv'
  OBVIOUS
<1>1. CASE Environment
  BY <1>1, EnvironmentStep
<1>2. ASSUME NEW r \in Requests, HandlerStep(r) PROVE IInv'
  <2>1. CASE SoftDelete(r)
    BY <2>1, SoftDeleteStep
  <2>2. CASE RevokeByFile(r)
    BY <2>2, RevokeByFileStep
  <2>3. ASSUME NEW l \in Links, Insert(r, l) PROVE IInv'
    BY <2>3, InsertStep
  <2>4. CASE Unshare(r)
    BY <2>4, UnshareStep
  <2> QED
    BY <1>2, <2>1, <2>2, <2>3, <2>4, ReadingSteps DEF HandlerStep
<1>3. ASSUME NEW s \in Sessions, NEW f \in Files, Upload(s, f) \/ Restore(s, f)
      PROVE  IInv'
  BY <1>3, UploadStep
<1>4. ASSUME NEW l \in Links, Revoke(l) PROVE IInv'
  BY <1>4, RevokeStep
<1>5. CASE UNCHANGED vars
  BY <1>5, StutterStep
<1> QED
  BY <1>1, <1>2, <1>3, <1>4, <1>5 DEF Next
-----------------------------------------------------------------------------
(***************************************************************************)
(* The theorems.                                                           *)
(***************************************************************************)

\* The invariant that carries the proofs: the replicated history is in order,
\* and every cookie and every request is covered by its window.
THEOREM Invariance == Spec => []IInv
<1>1. Init => IInv
  BY InitIsSound
<1>2. IInv /\ [Next]_vars => IInv'
  BY StepKeepsIInv
<1> QED
  BY <1>1, <1>2, PTL DEF Spec

\* Every variable keeps its type.
THEOREM TypeCorrect == Spec => []TypeOK
<1>1. IInv => TypeOK
  BY DEF IInv
<1> QED
  BY <1>1, Invariance, PTL

\* What a request is about to read is new enough, on either database.
LEMMA ReadIsCovered ==
    ASSUME IInv, NEW r \in Requests, req[r].step \in Looking
    PROVE  /\ req[r].file \in Files /\ req[r].known \in Nat /\ RowRead(r) \in Row
           /\ RowRead(r).changes >= req[r].known
<1>1. PICK q \in Request : q = req[r]
  BY DEF IInv, TypeOK
<1>2. Sound(q)
  BY <1>1 DEF IInv, RequestsSound
<1>3. /\ q.file \in Files /\ q.known \in Nat /\ q.until \in Nat
      /\ DueBefore(q.file, q.known, q.until)
  BY <1>1, <1>2 DEF Sound, Covered, Named, Looking, Busy, Request
<1>4. /\ clock \in Nat /\ Lag \in Nat
      /\ primary[q.file] \in Row /\ replica[q.file] \in Row
      /\ Behind(replica[q.file], primary[q.file])
  BY <1>3, ClockAssumption DEF IInv, TypeOK, RoutingTypeOK, LogOrdered
<1>5. /\ primary[q.file].changes \in Nat /\ replica[q.file].changes \in Nat
      /\ replica[q.file].changes <= primary[q.file].changes
  BY <1>4 DEF Row, Behind
<1>6. CASE q.known <= replica[q.file].changes
  BY <1>1, <1>3, <1>4, <1>5, <1>6 DEF RowRead, Reader
<1>7. ASSUME NEW i \in 1..Len(binlog),
             binlog[i].file = q.file, binlog[i].row.changes = q.known,
             binlog[i].at + Lag < q.until
      PROVE  RowRead(r) \in Row /\ RowRead(r).changes >= q.known
  <2>1. binlog[i].at \in Nat /\ clock <= binlog[i].at + Lag
    BY LogElements DEF IInv, TypeOK, LogOrdered
  <2>2. clock < q.until
    BY <1>3, <1>4, <1>7, <2>1
  <2>3. q.known <= primary[q.file].changes
    BY <1>7 DEF IInv, LogOrdered, Behind
  <2> QED
    BY <1>1, <1>3, <1>4, <1>5, <2>2, <2>3 DEF RowRead, Reader
<1> QED
  BY <1>1, <1>3, <1>6, <1>7 DEF DueBefore

\* A request reads no row older than what its browser had been told of when it
\* arrived, for any window and any replica that lags a second less than it.
THEOREM ReadsOwnWrites == Spec => []ReadYourWrites
<1>1. IInv => ReadYourWrites
  BY ReadIsCovered DEF ReadYourWrites
<1> QED
  BY <1>1, Invariance, PTL

\* A step that moves the request r is a step of its handler.
LEMMA OwnStep ==
    ASSUME TypeOK, [Next]_vars, NEW r \in Requests, req'[r].step # req[r].step
    PROVE  HandlerStep(r)
<1>1. req \in [Requests -> Request]
  BY DEF TypeOK
<1>2. ASSUME NEW x \in Requests, HandlerStep(x), x # r PROVE FALSE
  <2>1. ASSUME NEW q, req' = [req EXCEPT ![x] = q] PROVE FALSE
    BY <1>1, <1>2, <2>1
  <2>2. \A step : ~Answer(x, step)
    BY <2>1 DEF Answer
  <2>3. \A step : ~GoOn(x, step)
    BY <2>1 DEF GoOn
  <2>4. \A c, f, l, step : ~Arrive(x, c, f, l, step)
    BY <2>1 DEF Arrive
  <2>5. ~SoftDelete(x)
    BY <1>1, <1>2, <2>2 DEF SoftDelete
  <2>6. ~RevokeByFile(x) /\ ~Unshare(x) /\ ~FindVersion(x) /\ ~Break(x)
    BY <2>2 DEF RevokeByFile, Unshare, FindVersion, Break
  <2>7. ~DeleteLooks(x) /\ ~CreateLooks(x) /\ ~DownloadLooks(x) /\ ~VisitLooks(x)
    BY <2>2, <2>3 DEF DeleteLooks, CreateLooks, DownloadLooks, VisitLooks
  <2>8. \A l \in Links : ~Insert(x, l)
    BY <2>2 DEF Insert
  <2>9. /\ \A s \in Sessions, f \in Files : ~OwnerArrives(x, s, f)
        /\ \A c \in Clients, l \in Links : ~Resolve(x, c, l)
    BY <2>4 DEF OwnerArrives, Resolve
  <2> QED
    BY <1>2, <2>5, <2>6, <2>7, <2>8, <2>9 DEF HandlerStep
<1>3. req' # req
  OBVIOUS
<1>4. ~Environment /\ \A l \in Links : ~Revoke(l)
  BY <1>3 DEF Environment, Revoke
<1>5. \A s \in Sessions, f \in Files : ~Upload(s, f) /\ ~Restore(s, f)
  BY <1>3 DEF Upload, Restore
<1>6. ~UNCHANGED vars
  BY <1>3 DEF vars
<1> QED
  BY <1>2, <1>4, <1>5, <1>6 DEF Next

\* What a handler that looks at a delete, or fetches, can do next.
LEMMA NextOfHandler ==
    ASSUME TypeOK, NEW r \in Requests, HandlerStep(r)
    PROVE  /\ At(r, "delete") => DeleteLooks(r) \/ Answer(r, "idle")
           /\ At(r, "fetching") => FindVersion(r) \/ Answer(r, "idle")
<1> USE DEF At, Busy, Arrived
<1>1. At(r, "delete") \/ At(r, "fetching") =>
        /\ \A s \in Sessions, f \in Files : ~OwnerArrives(r, s, f)
        /\ \A c \in Clients, l \in Links : ~Resolve(r, c, l)
  BY DEF OwnerArrives, Resolve, Arrive
<1>2. At(r, "delete") \/ At(r, "fetching") =>
        /\ ~SoftDelete(r) /\ ~RevokeByFile(r) /\ ~CreateLooks(r) /\ ~VisitLooks(r)
        /\ ~Unshare(r) /\ ~DownloadLooks(r) /\ \A l \in Links : ~Insert(r, l)
  BY DEF SoftDelete, RevokeByFile, CreateLooks, VisitLooks, Unshare, DownloadLooks, Insert
<1>3. Break(r) => Answer(r, "idle")
  BY DEF Break
<1>4. /\ At(r, "delete") => ~FindVersion(r)
      /\ At(r, "fetching") => ~DeleteLooks(r)
  BY DEF FindVersion, DeleteLooks
<1> QED
  BY <1>1, <1>2, <1>3, <1>4 DEF HandlerStep

LEMMA AnswerIsThere ==
    ASSUME TypeOK, NEW r \in Requests, NEW step, Answer(r, step)
    PROVE  req'[r].step = step
<1>1. req' = [req EXCEPT ![r] = Answered(step)] /\ req \in [Requests -> Request]
  BY DEF Answer, TypeOK
<1>2. req'[r] = Answered(step)
  BY <1>1
<1> QED
  BY <1>2 DEF Answered

\* A delete that answers 200 without deleting is not misled by a replica that
\* lacks a change its own browser was told of.
THEOREM DeletesAreNotMisled == Spec => KeepsOnlyTheDeleted
<1>1. ASSUME IInv, [Next]_vars, NEW r \in Requests, At(r, "delete"), req'[r].step = "kept"
      PROVE  LET row == primary[req[r].file]
             IN  row.state # "active" \/ row.changes > req[r].known
  <2>1. TypeOK /\ req[r].step = "delete" /\ HandlerStep(r)
    BY <1>1, OwnStep DEF IInv, At
  <2>2. DeleteLooks(r)
    BY <1>1, <2>1, NextOfHandler, AnswerIsThere
  <2>3. RowRead(r).state # "active"
    <3>1. ASSUME GoOn(r, "deleting") PROVE FALSE
      <4>1. req \in [Requests -> Request] /\ req[r] \in Request
        BY <2>1 DEF TypeOK
      <4>2. req'[r] = [req[r] EXCEPT !.step = "deleting", !.known = 0, !.until = 0]
        BY <3>1, <4>1 DEF GoOn
      <4> QED
        BY <1>1, <4>1, <4>2 DEF Request
    <3> QED
      BY <2>2, <3>1 DEF DeleteLooks
  <2>4. /\ req[r].file \in Files /\ req[r].known \in Nat /\ RowRead(r) \in Row
        /\ RowRead(r).changes >= req[r].known
    BY <1>1, <2>1, ReadIsCovered DEF Looking, Arrived
  <2>5. PICK f \in Files : f = req[r].file
    BY <2>4
  <2>6. /\ primary[f] \in Row /\ replica[f] \in Row /\ Behind(replica[f], primary[f])
        /\ RowRead(r) = primary[f] \/ RowRead(r) = replica[f]
    BY <1>1, <2>1, <2>5 DEF IInv, LogOrdered, TypeOK, RoutingTypeOK, RowRead, Reader
  <2>7. primary[f].state # "active" \/ primary[f].changes > req[r].known
    BY <2>3, <2>4, <2>6 DEF Behind, Row
  <2> QED
    BY <2>5, <2>7
<1>2. IInv /\ [Next]_vars => [\A r \in Requests :
          At(r, "delete") /\ req'[r].step = "kept" =>
              LET row == primary[req[r].file]
              IN  row.state # "active" \/ row.changes > req[r].known]_vars
  BY <1>1
<1> QED
  BY <1>2, Invariance, PTL DEF Spec, KeepsOnlyTheDeleted

\* After the answer to a delete no visit that begins is served through a link the
\* file had then, unless revoking it failed; whatever the replica shows.
THEOREM DeletedFilesAreNotServed == Spec => DeletionEndsLinks
<1>1. ASSUME IInv, NEW r \in Requests, At(r, "fetching"), req[r].late
      PROVE  req[r].link \in spared
  BY <1>1 DEF IInv, RequestsSound, Sound, LinksKnown, At
<1>2. IInv /\ [Next]_vars => [\A r \in Requests :
          At(r, "fetching") /\ req'[r].step = "served" /\ req[r].late
              => req[r].link \in spared]_vars
  BY <1>1
<1> QED
  BY <1>2, Invariance, PTL DEF Spec, DeletionEndsLinks

\* A version row is missed only by a request whose window closed between its two
\* queries.
THEOREM MissesAreLate == Spec => MissedOnlyAtWindowEnd
<1>1. ASSUME IInv, [Next]_vars, NEW r \in Requests, At(r, "fetching"),
             req'[r].step = "missing"
      PROVE  req[r].until > 0 /\ clock >= req[r].until
  <2>1. TypeOK /\ req[r].step = "fetching" /\ HandlerStep(r)
    BY <1>1, OwnStep DEF IInv, At
  <2>2. FindVersion(r)
    BY <1>1, <2>1, NextOfHandler, AnswerIsThere
  <2>3. ~HasVersion(r)
    BY <1>1, <2>1, <2>2, AnswerIsThere DEF FindVersion
  <2>4. PICK q \in Request : q = req[r]
    BY <2>1 DEF TypeOK
  <2>5. /\ q.file \in Files /\ q.until \in Nat /\ q.row.version \in Nat
        /\ q.row.version <= primary[q.file].version
        /\ q.until = 0 => q.row.version <= replica[q.file].version
    BY <1>1, <2>1, <2>4
       DEF IInv, RequestsSound, Sound, Named, ReadBehind, Busy, Request, Row
  <2>6. /\ clock \in Nat /\ primary[q.file].version \in Nat
        /\ replica[q.file].version \in Nat
    BY <2>1, <2>5, ClockAssumption DEF TypeOK, RoutingTypeOK, Row
  <2>7. ~(RowRead(r).version >= q.row.version)
    BY <2>3, <2>4 DEF HasVersion
  <2>8. ~(clock < q.until) /\ q.until # 0
    <3>1. CASE clock < q.until
      BY <2>4, <2>5, <2>6, <2>7, <3>1 DEF RowRead, Reader
    <3>2. CASE q.until = 0
      BY <2>4, <2>5, <2>6, <2>7, <3>2 DEF RowRead, Reader
    <3> QED
      BY <3>1, <3>2
  <2> QED
    BY <2>4, <2>5, <2>6, <2>8
<1>2. IInv /\ [Next]_vars => [\A r \in Requests :
          At(r, "fetching") /\ req'[r].step = "missing" =>
              req[r].until > 0 /\ clock >= req[r].until]_vars
  BY <1>1
<1> QED
  BY <1>2, Invariance, PTL DEF Spec, MissedOnlyAtWindowEnd
=============================================================================
