------------------------ MODULE OriginIndexerProofs ------------------------
(***************************************************************************)
(* Proofs about OriginIndexer, for any number of origins and messages and  *)
(* however far the indexer is behind: every event finds its row, the       *)
(* tables keep their types, fees are never overstated, the check of debts  *)
(* is silent, and the tables show, one after the other, the states the     *)
(* pool went through.                                                      *)
(*                                                                         *)
(* The last four rest on what the tables will be after each event that is  *)
(* not indexed yet (Replayed): each of those tables is sound, and the last *)
(* one agrees with the pool (TablesInv).                                   *)
(***************************************************************************)
EXTENDS OriginIndexer, OriginSumsProofs

Kind == {"OriginAdded", "OriginDisabled", "OutstandingDebtChanged", "LoanEmitted"}

Updates == {"OriginDisabled", "OutstandingDebtChanged"}

Adds(e, o) == e.kind = "OriginAdded" /\ e.origin = o

\* The origin o has its row once the first n pending events are indexed.
Known(n, o) ==
  \/ o \in DOMAIN db.origins
  \/ \E j \in 1 .. n : Adds(log[j], o)

\* The origins of the pool are known, and an origin is added before any other
\* event names it.
KnownInv ==
  /\ \E S : log \in Seq(S)
  /\ \A i \in 1 .. Len(log) : log[i].kind \in Kind
  /\ DOMAIN db = {"pool", "origins"}
  /\ \A o \in DOMAIN origins : Known(Len(log), o)
  /\ \A i \in 1 .. Len(log) : log[i].kind \in Updates => Known(i - 1, log[i].origin)

-----------------------------------------------------------------------------
\* A transaction may append updates of the origins there are, or one addition.
LEMMA EmitKeepsKnown ==
  ASSUME KnownInv, db' = db,
         NEW S, NEW events \in Seq(S), Emit(events),
         \A i \in 1 .. Len(events) :
           /\ events[i].kind \in Kind
           /\ events[i].kind \in Updates => events[i].origin \in DOMAIN origins,
         \A o \in DOMAIN origins' \ DOMAIN origins :
           \E i \in 1 .. Len(events) : Adds(events[i], o)
  PROVE  KnownInv'
<1>1. PICK T : log \in Seq(T)
  BY DEF KnownInv
<1> DEFINE U == S \cup T
           n == Len(log)
<1>2. log \in Seq(U) /\ events \in Seq(U) /\ log' = log \o events
  BY <1>1 DEF Emit
<1> HIDE DEF U
<1>3. /\ log' \in Seq(U) /\ n \in Nat /\ Len(events) \in Nat
      /\ Len(log') = n + Len(events)
      /\ \A j \in 1 .. n : log'[j] = log[j]
      /\ \A j \in 1 .. Len(events) : log'[n + j] = events[j]
  BY <1>2
<1>4. PICK last \in Nat : last = Len(log')
  BY <1>3
<1>5. ASSUME NEW k \in 0 .. n, NEW m \in k .. last, NEW o, Known(k, o)
      PROVE  Known(m, o)'
  BY <1>3, <1>4, <1>5 DEF Known
<1>6. ASSUME NEW o \in DOMAIN origins' PROVE Known(last, o)'
  <2>1. CASE o \in DOMAIN origins
    <3>1. Known(n, o)
      BY <2>1 DEF KnownInv
    <3>2. n \in 0 .. n /\ last \in n .. last
      BY <1>3, <1>4
    <3>3. QED
      BY <1>5, <3>1, <3>2
  <2>2. CASE o \notin DOMAIN origins
    <3>1. PICK i \in 1 .. Len(events) : Adds(events[i], o)
      BY <2>2, <1>6
    <3>2. n + i \in 1 .. last /\ log'[n + i] = events[i]
      BY <1>3, <1>4
    <3>3. QED
      BY <3>1, <3>2 DEF Known
  <2>3. QED
    BY <2>1, <2>2
<1>7. ASSUME NEW i \in 1 .. last, NEW e, e = log'[i], e.kind \in Updates
      PROVE  Known(i - 1, e.origin)'
  <2>1. CASE i \in 1 .. n
    <3>1. Known(i - 1, e.origin)
      BY <1>3, <1>7, <2>1 DEF KnownInv
    <3>2. i - 1 \in 0 .. n /\ i - 1 \in i - 1 .. last
      BY <1>3, <1>4, <2>1
    <3>3. QED
      BY <1>5, <3>1, <3>2
  <2>2. CASE i \notin 1 .. n
    <3>1. i - n \in 1 .. Len(events) /\ n + (i - n) = i
      BY <1>3, <1>4, <2>2
    <3>2. e = events[i - n]
      BY <1>3, <1>7, <3>1
    <3>3. Known(n, e.origin)
      BY <1>7, <3>1, <3>2 DEF KnownInv
    <3>4. n \in 0 .. n /\ i - 1 \in n .. last
      BY <1>3, <1>4, <2>2
    <3>5. QED
      BY <1>5, <3>3, <3>4
  <2>3. QED
    BY <2>1, <2>2
<1>8. DOMAIN db' = {"pool", "origins"}
  BY DEF KnownInv
<1>9. ASSUME NEW i \in 1 .. last PROVE log'[i].kind \in Kind
  <2>1. CASE i \in 1 .. n
    BY <1>3, <2>1 DEF KnownInv
  <2>2. CASE i \notin 1 .. n
    <3>1. i - n \in 1 .. Len(events) /\ n + (i - n) = i
      BY <1>3, <1>4, <2>2
    <3>2. log'[i] = events[i - n]
      BY <1>3, <3>1
    <3>3. QED
      BY <3>1, <3>2
  <2>3. QED
    BY <2>1, <2>2
<1>10. QED
  BY <1>3, <1>4, <1>6, <1>7, <1>8, <1>9 DEF KnownInv, Known

\* The rows there are stay, and that of an origin that is added is there.
LEMMA IndexedDomain ==
  ASSUME DOMAIN db = {"pool", "origins"}, NEW e, e.kind \in Kind, ~ Throws(db, e)
  PROVE  /\ DOMAIN Indexed(db, e) = {"pool", "origins"}
         /\ \A o : o \in DOMAIN db.origins \/ Adds(e, o) => o \in DOMAIN Indexed(db, e).origins
<1>1. CASE e.kind = "OriginAdded"
  BY <1>1 DEF Indexed, OnOriginAdded, Adds
<1>2. CASE e.kind = "OriginDisabled"
  BY <1>2 DEF Indexed, OnOriginDisabled, Adds
<1>3. CASE e.kind = "OutstandingDebtChanged"
  BY <1>3 DEF Indexed, OnOutstandingDebtChanged, Adds
<1>4. CASE e.kind = "LoanEmitted"
  BY <1>4 DEF Indexed, OnLoanEmitted, Adds
<1>5. QED
  BY <1>1, <1>2, <1>3, <1>4 DEF Kind

\* The first event is taken away, and its effect is in the tables.
LEMMA IndexKeepsKnown ==
  ASSUME KnownInv, Index
  PROVE  KnownInv'
<1> DEFINE e == log[1]
<1>1. PICK S : log \in Seq(S)
  BY DEF KnownInv
<1>2. /\ log # <<>> /\ Head(log) = e /\ 1 \in 1 .. Len(log) /\ Len(log) \in Nat
      /\ log' = Tail(log) /\ log' \in Seq(S)
      /\ Len(log') = Len(log) - 1 /\ Len(log') \in Nat
      /\ \A i \in 1 .. Len(log) - 1 : log'[i] = log[i + 1]
  BY <1>1 DEF Index
<1>3. /\ e.kind \in Kind /\ ~ Throws(db, e) /\ db' = Indexed(db, e)
      /\ origins' = origins
  BY <1>2 DEF Index, KnownInv, poolVars
<1>4. /\ DOMAIN db' = {"pool", "origins"}
      /\ \A o : o \in DOMAIN db.origins \/ Adds(e, o) => o \in DOMAIN db'.origins
  BY <1>3, IndexedDomain DEF KnownInv
<1>5. ASSUME NEW k \in 0 .. Len(log), NEW m \in Nat, m <= Len(log'), k <= m + 1,
             NEW o, Known(k, o)
      PROVE  Known(m, o)'
  <2>1. CASE o \in DOMAIN db.origins
    BY <1>4, <2>1 DEF Known
  <2>2. CASE o \notin DOMAIN db.origins
    <3>1. PICK j \in 1 .. k : Adds(log[j], o)
      BY <1>5, <2>2 DEF Known
    <3>2. CASE j = 1
      BY <1>4, <3>1, <3>2 DEF Known
    <3>3. CASE j # 1
      <4>1. j - 1 \in 1 .. m /\ j - 1 \in 1 .. Len(log) - 1 /\ (j - 1) + 1 = j
        BY <1>2, <1>5, <3>1, <3>3
      <4>2. log'[j - 1] = log[j]
        BY <1>2, <4>1
      <4>3. QED
        BY <3>1, <4>1, <4>2 DEF Known
    <3>4. QED
      BY <3>2, <3>3
  <2>3. QED
    BY <2>1, <2>2
<1>6. PICK last \in Nat : last = Len(log')
  <2>1. Len(log') \in Nat
    BY <1>2
  <2>2. QED
    BY <2>1
<1>7. ASSUME NEW o \in DOMAIN origins' PROVE Known(last, o)'
  <2>1. Known(Len(log), o)
    BY <1>3, <1>7 DEF KnownInv
  <2>2. PICK k \in Nat : k = Len(log)
    BY <1>2
  <2>3. Known(k, o) /\ k \in 0 .. Len(log) /\ k <= last + 1 /\ last <= Len(log')
    BY <1>2, <1>6, <2>1, <2>2
  <2>4. QED
    BY <1>5, <2>3
<1>8. ASSUME NEW i \in 1 .. last, NEW d, d = log'[i]
      PROVE  d.kind \in Kind /\ (d.kind \in Updates => Known(i - 1, d.origin)')
  <2>1. d = log[i + 1] /\ i + 1 \in 1 .. Len(log) /\ (i + 1) - 1 = i
    BY <1>2, <1>6, <1>8
  <2>2. d.kind \in Kind /\ (d.kind \in Updates => Known(i, d.origin))
    BY <2>1 DEF KnownInv
  <2>3. i \in 0 .. Len(log) /\ i - 1 \in Nat /\ i - 1 <= Len(log') /\ i <= (i - 1) + 1
    BY <1>2, <1>6, <2>1
  <2>4. QED
    BY <1>5, <2>2, <2>3
<1>9. QED
  BY <1>2, <1>4, <1>6, <1>7, <1>8 DEF KnownInv, Known

-----------------------------------------------------------------------------
LEMMA OneEvent ==
  ASSUME NEW x
  PROVE  <<x>> \in Seq({x}) /\ Len(<<x>>) = 1 /\ <<x>>[1] = x
OBVIOUS

LEMMA TwoEvents ==
  ASSUME NEW x, NEW y
  PROVE  <<x, y>> \in Seq({x, y}) /\ Len(<<x, y>>) = 2 /\ <<x, y>>[1] = x /\ <<x, y>>[2] = y
OBVIOUS

\* A transaction that only updates origins there are.
LEMMA UpdatesKeepKnown ==
  ASSUME KnownInv, db' = db, DOMAIN origins' = DOMAIN origins,
         NEW o \in DOMAIN origins, NEW x, NEW y,
         x.kind \in Kind \ {"OriginAdded"}, x.origin = o,
         y.kind \in Kind \ {"OriginAdded"}, y.origin = o,
         Emit(<<x>>) \/ Emit(<<x, y>>)
  PROVE  KnownInv'
<1>1. ASSUME NEW S, NEW events \in Seq(S), Emit(events),
             \A i \in 1 .. Len(events) : events[i] \in {x, y}
      PROVE  KnownInv'
  <2>1. \A i \in 1 .. Len(events) :
          /\ events[i].kind \in Kind
          /\ events[i].kind \in Updates => events[i].origin \in DOMAIN origins
    BY <1>1
  <2>2. DOMAIN origins' \ DOMAIN origins = {}
    OBVIOUS
  <2>3. QED
    BY <1>1, <2>1, <2>2, EmitKeepsKnown
<1>2. CASE Emit(<<x>>)
  <2>1. /\ <<x>> \in Seq({x})
        /\ \A i \in 1 .. Len(<<x>>) : <<x>>[i] \in {x, y}
    BY OneEvent
  <2>2. QED
    BY <1>1, <1>2, <2>1
<1>3. CASE Emit(<<x, y>>)
  <2>1. /\ <<x, y>> \in Seq({x, y})
        /\ \A i \in 1 .. Len(<<x, y>>) : <<x, y>>[i] \in {x, y}
    BY TwoEvents
  <2>2. QED
    BY <1>1, <1>3, <2>1
<1>4. QED
  BY <1>2, <1>3

LEMMA PoolKeepsKnown ==
  ASSUME KnownInv, db' = db,
         NEW o, NEW m, NEW limit, NEW fee, NEW proxy,
         \/ AddOrigin(o, limit, fee, proxy) \/ DisableOrigin(o) \/ Claim(o)
         \/ Handle(m) \/ ProcessFailedHandler(m) \/ Arrive(m)
  PROVE  KnownInv'
<1>1. CASE AddOrigin(o, limit, fee, proxy)
  <2> DEFINE x == [kind |-> "OriginAdded", origin |-> o, maxDebt |-> limit,
                   bridgeFee |-> fee, proxyBridge |-> proxy]
  <2>1. Emit(<<x>>) /\ DOMAIN origins' = DOMAIN origins \cup {o}
    BY <1>1 DEF AddOrigin
  <2>2. x.kind = "OriginAdded" /\ x.origin = o
    OBVIOUS
  <2> HIDE DEF x
  <2>3. <<x>> \in Seq({x}) /\ Len(<<x>>) = 1 /\ <<x>>[1] = x
    BY OneEvent
  <2>4. x.kind \in Kind /\ x.kind \notin Updates /\ Adds(x, o)
    BY <2>2 DEF Kind, Updates, Adds
  <2>5. /\ \A i \in 1 .. Len(<<x>>) : <<x>>[i] = x
        /\ 1 \in 1 .. Len(<<x>>)
    BY <2>3
  <2>6. QED
    BY <2>1, <2>3, <2>4, <2>5, EmitKeepsKnown
<1>2. CASE DisableOrigin(o)
  <2> DEFINE x == [kind |-> "OriginDisabled", origin |-> o]
  <2>1. Emit(<<x>>) /\ o \in DOMAIN origins /\ DOMAIN origins' = DOMAIN origins
    BY <1>2 DEF DisableOrigin
  <2>2. x.kind \in Kind \ {"OriginAdded"} /\ x.origin = o
    BY DEF Kind
  <2> HIDE DEF x
  <2>3. QED
    BY <2>1, <2>2, UpdatesKeepKnown
<1>3. CASE Claim(o)
  <2> DEFINE x == DebtChanged(o, origins'[o].outstandingDebt, outstandingDebt')
  <2>1. Emit(<<x>>) /\ o \in DOMAIN origins /\ DOMAIN origins' = DOMAIN origins
    BY <1>3 DEF Claim
  <2>2. x.kind \in Kind \ {"OriginAdded"} /\ x.origin = o
    BY DEF Kind, DebtChanged
  <2> HIDE DEF x
  <2>3. QED
    BY <2>1, <2>2, UpdatesKeepKnown
<1>4. CASE Handle(m)
  <2> DEFINE u == From[m]
             x == DebtChanged(u, origins'[u].outstandingDebt, outstandingDebt')
             y == [kind |-> "LoanEmitted", origin |-> u, amount |-> Amount[m]]
  <2>1. Emit(<<x, y>>) /\ u \in DOMAIN origins /\ DOMAIN origins' = DOMAIN origins
    BY <1>4 DEF Handle
  <2>2. /\ x.kind \in Kind \ {"OriginAdded"} /\ x.origin = u
        /\ y.kind \in Kind \ {"OriginAdded"} /\ y.origin = u
    BY DEF Kind, DebtChanged
  <2> HIDE DEF x, y, u
  <2>3. QED
    BY <2>1, <2>2, UpdatesKeepKnown
<1>5. CASE ProcessFailedHandler(m)
  <2> DEFINE u == From[m]
  <2>1. PICK a, b, c, d : Emit(<<DebtChanged(u, a, b), DebtChanged(u, c, d)>>)
    BY <1>5 DEF ProcessFailedHandler
  <2>2. u \in DOMAIN origins /\ DOMAIN origins' = DOMAIN origins
    BY <1>5 DEF ProcessFailedHandler
  <2> DEFINE x == DebtChanged(u, a, b)
             y == DebtChanged(u, c, d)
  <2>3. /\ x.kind \in Kind \ {"OriginAdded"} /\ x.origin = u
        /\ y.kind \in Kind \ {"OriginAdded"} /\ y.origin = u
    BY DEF Kind, DebtChanged
  <2>4. Emit(<<x, y>>)
    BY <2>1
  <2> HIDE DEF x, y, u
  <2>5. QED
    BY <2>2, <2>3, <2>4, UpdatesKeepKnown
<1>6. CASE Arrive(m)
  BY <1>6 DEF Arrive, KnownInv, Known
<1>7. QED
  BY <1>1, <1>2, <1>3, <1>4, <1>5, <1>6

LEMMA StepKeepsKnown ==
  ASSUME KnownInv, [Next]_vars
  PROVE  KnownInv'
<1>1. CASE UNCHANGED <<origins, log, db>>
  BY <1>1 DEF KnownInv, Known
<1>2. CASE PoolStep
  <2>1. db' = db
    BY <1>2 DEF PoolStep
  <2>2. CASE \E o \in Origins : OwnerStep(o) \/ Claim(o)
    BY <2>1, <2>2, PoolKeepsKnown DEF OwnerStep
  <2>3. QED
    BY <1>2, <2>1, <2>2, PoolKeepsKnown DEF PoolStep
<1>3. CASE Index
  BY <1>3, IndexKeepsKnown
<1>4. CASE JobStep
  <2>1. ASSUME NEW o \in Origins, RelayClaim(o) PROVE KnownInv'
    BY <2>1, PoolKeepsKnown DEF RelayClaim
  <2>2. QED
    BY <1>1, <1>4, <2>1 DEF JobStep, ReadOrigins, AbortRun, CheckOrigin, DropClaim, poolVars
<1>5. QED
  BY <1>1, <1>2, <1>3, <1>4 DEF Next, vars, poolVars

LEMMA KnownStart == Init => KnownInv
<1> SUFFICES ASSUME Init PROVE KnownInv
  OBVIOUS
<1>1. log = <<>> /\ log \in Seq({}) /\ Len(log) = 0
  BY DEF Init
<1>2. DOMAIN origins = {}
  BY DEF Init
<1>3. DOMAIN db = {"pool", "origins"}
  BY DEF Init
<1>4. QED
  BY <1>1, <1>2, <1>3 DEF KnownInv

\* No handler ever updates a row that is not there, so the indexer of origins
\* never stops: an origin is added before any other event names it, and what is
\* indexed in order finds it so.
THEOREM HandlersNeverThrow == Spec => []NoHandlerThrows
<1>1. KnownInv => NoHandlerThrows
  <2>1. SUFFICES ASSUME KnownInv, log # <<>>, Throws(db, Head(log)) PROVE FALSE
    BY DEF NoHandlerThrows
  <2>2. PICK S : log \in Seq(S)
    BY <2>1 DEF KnownInv
  <2>3. Head(log) = log[1] /\ 1 \in 1 .. Len(log)
    BY <2>1, <2>2
  <2>4. log[1].kind \in Updates /\ log[1].origin \notin DOMAIN db.origins
    BY <2>1, <2>3 DEF Throws, Updates
  <2>5. Known(0, log[1].origin)
    BY <2>1, <2>3, <2>4 DEF KnownInv
  <2>6. QED
    BY <2>4, <2>5 DEF Known
<1>2. QED
  BY <1>1, KnownStart, StepKeepsKnown, PTL DEF Spec

-----------------------------------------------------------------------------
(* The tables after some pending events *)

\* What After(d, events, n) is for all n, by induction on n: f has the values
\* of a function of the first m numbers that starts with d and goes on so.
Replays(f, d, events, m) ==
  f = [i \in 0 .. m |-> IF i = 0 THEN d ELSE Indexed(f[i - 1], events[i])]

\* Two such functions agree as far as both go.
LEMMA ReplaysAgree ==
  ASSUME NEW d, NEW r, NEW s, NEW m \in Nat, NEW n \in Nat, n <= m,
         \A i \in 1 .. n : r[i] = s[i],
         NEW f, Replays(f, d, r, n), NEW g, Replays(g, d, s, m)
  PROVE  f[n] = g[n]
<1> DEFINE D == {i \in 0 .. n : f[i] # g[i]}
<1>1. f[0] = d /\ g[0] = d
  BY DEF Replays
<1>2. ASSUME NEW i \in 1 .. n, f[i - 1] = g[i - 1] PROVE f[i] = g[i]
  <2>1. i \in 0 .. n /\ i \in 0 .. m /\ i # 0
    OBVIOUS
  <2>2. f[i] = Indexed(f[i - 1], r[i])
    BY <2>1 DEF Replays
  <2>3. g[i] = Indexed(g[i - 1], s[i])
    BY <2>1 DEF Replays
  <2>4. QED
    BY <1>2, <2>2, <2>3
<1>3. ASSUME D # {} PROVE FALSE
  <2>1. D \subseteq Nat
    OBVIOUS
  <2>2. PICK x \in D : \A y \in D : x <= y
    BY <1>3, <2>1, Least
  <2>3. x \in 1 .. n /\ x - 1 \in 0 .. n /\ f[x] # g[x]
    BY <1>1, <2>2
  <2>4. x - 1 \notin D
    BY <2>2, <2>3
  <2>5. QED
    BY <1>2, <2>3, <2>4
<1>4. QED
  BY <1>3

LEMMA ReplaysExist ==
  ASSUME NEW d, NEW events, NEW n \in Nat
  PROVE  \E f : Replays(f, d, events, n)
<1> DEFINE D == {m \in Nat : ~ \E f : Replays(f, d, events, m)}
<1>1. \E f : Replays(f, d, events, 0)
  <2>1. Replays([i \in 0 .. 0 |-> d], d, events, 0)
    BY DEF Replays
  <2>2. QED
    BY <2>1
<1>2. ASSUME NEW m \in Nat, NEW f, Replays(f, d, events, m)
      PROVE  \E g : Replays(g, d, events, m + 1)
  <2> DEFINE g == [i \in 0 .. m + 1 |-> IF i = m + 1 THEN Indexed(f[m], events[m + 1]) ELSE f[i]]
  <2>1. ASSUME NEW i \in 0 .. m + 1
        PROVE  g[i] = IF i = 0 THEN d ELSE Indexed(g[i - 1], events[i])
    <3>1. CASE i = m + 1
      <4>1. i # 0 /\ i - 1 = m /\ g[i - 1] = f[m]
        BY <3>1
      <4>2. QED
        BY <3>1, <4>1
    <3>2. CASE i = 0
      <4>1. f[0] = d
        BY <1>2 DEF Replays
      <4>2. QED
        BY <3>2, <4>1
    <3>3. CASE i \in 1 .. m
      <4>1. f[i] = Indexed(f[i - 1], events[i])
        BY <1>2, <3>3 DEF Replays
      <4>2. i # m + 1 /\ i - 1 # m + 1 /\ i - 1 \in 0 .. m + 1 /\ i # 0
        BY <3>3
      <4>3. g[i] = f[i] /\ g[i - 1] = f[i - 1]
        BY <4>2
      <4>4. QED
        BY <4>1, <4>2, <4>3
    <3>4. QED
      BY <3>1, <3>2, <3>3
  <2>2. g = [i \in 0 .. m + 1 |-> g[i]]
    OBVIOUS
  <2>3. g = [i \in 0 .. m + 1 |-> IF i = 0 THEN d ELSE Indexed(g[i - 1], events[i])]
    <3> HIDE DEF g
    <3> QED
      BY <2>1, <2>2
  <2>4. Replays(g, d, events, m + 1)
    <3> HIDE DEF g
    <3> QED
      BY <2>3 DEF Replays
  <2>5. QED
    BY <2>4
<1>3. ASSUME D # {} PROVE FALSE
  <2>1. PICK x \in D : \A y \in D : x <= y
    BY <1>3, Least
  <2>2. x \in Nat /\ x # 0 /\ x - 1 \in Nat /\ (x - 1) + 1 = x
    BY <1>1, <2>1
  <2>3. x - 1 \notin D
    BY <2>1, <2>2
  <2>4. QED
    BY <1>2, <2>1, <2>2, <2>3
<1>4. QED
  BY <1>3

LEMMA AfterIs ==
  ASSUME NEW d, NEW events, NEW n \in Nat
  PROVE  \E f : Replays(f, d, events, n) /\ After(d, events, n) = f[n]
<1> DEFINE g == CHOOSE f : Replays(f, d, events, n)
<1>1. Replays(g, d, events, n)
  BY ReplaysExist
<1>2. After(d, events, n) = g[n]
  BY DEF After, Replays
<1> HIDE DEF g
<1>3. QED
  BY <1>1, <1>2

\* Without an event the tables stay.
LEMMA AfterNone ==
  ASSUME NEW d, NEW events
  PROVE  After(d, events, 0) = d
<1>1. PICK f : Replays(f, d, events, 0) /\ After(d, events, 0) = f[0]
  BY AfterIs
<1>2. QED
  BY <1>1 DEF Replays

\* The n-th event comes after those before it.
LEMMA AfterNext ==
  ASSUME NEW d, NEW events, NEW n \in Nat \ {0}
  PROVE  After(d, events, n) = Indexed(After(d, events, n - 1), events[n])
<1>1. n \in Nat /\ n - 1 \in Nat /\ n - 1 <= n /\ n \in 0 .. n /\ n # 0
  OBVIOUS
<1>2. PICK g : Replays(g, d, events, n) /\ After(d, events, n) = g[n]
  BY <1>1, AfterIs
<1>3. PICK f : Replays(f, d, events, n - 1) /\ After(d, events, n - 1) = f[n - 1]
  BY <1>1, AfterIs
<1>4. f[n - 1] = g[n - 1]
  BY <1>1, <1>2, <1>3, ReplaysAgree
<1>5. g[n] = Indexed(g[n - 1], events[n])
  BY <1>1, <1>2 DEF Replays
<1>6. QED
  BY <1>2, <1>3, <1>4, <1>5

\* Later events change nothing.
LEMMA AfterSame ==
  ASSUME NEW d, NEW r, NEW s, NEW n \in Nat, \A i \in 1 .. n : r[i] = s[i]
  PROVE  After(d, r, n) = After(d, s, n)
<1>1. PICK f : Replays(f, d, r, n) /\ After(d, r, n) = f[n]
  BY AfterIs
<1>2. PICK g : Replays(g, d, s, n) /\ After(d, s, n) = g[n]
  BY AfterIs
<1>3. QED
  BY <1>1, <1>2, ReplaysAgree

\* Once the first event is in the tables, the others follow as before.
LEMMA AfterFirst ==
  ASSUME NEW d, NEW r, NEW s, NEW n \in Nat, \A i \in 1 .. n : s[i] = r[i + 1]
  PROVE  After(Indexed(d, r[1]), s, n) = After(d, r, n + 1)
<1> DEFINE c == Indexed(d, r[1])
           D == {i \in 0 .. n : After(c, s, i) # After(d, r, i + 1)}
<1>1. After(c, s, 0) = After(d, r, 0 + 1)
  BY AfterNone, AfterNext
<1>2. ASSUME NEW i \in 1 .. n, After(c, s, i - 1) = After(d, r, (i - 1) + 1)
      PROVE  After(c, s, i) = After(d, r, i + 1)
  <2>1. i \in Nat \ {0} /\ i + 1 \in Nat \ {0} /\ (i - 1) + 1 = i /\ (i + 1) - 1 = i
    OBVIOUS
  <2>2. After(c, s, i) = Indexed(After(c, s, i - 1), s[i])
    BY <2>1, AfterNext
  <2>3. After(d, r, i + 1) = Indexed(After(d, r, (i + 1) - 1), r[i + 1])
    BY <2>1, AfterNext
  <2>4. QED
    BY <1>2, <2>1, <2>2, <2>3
<1> HIDE DEF c
<1>3. ASSUME D # {} PROVE FALSE
  <2>1. D \subseteq Nat
    OBVIOUS
  <2>2. PICK x \in D : \A y \in D : x <= y
    BY <1>3, <2>1, Least
  <2>3. x \in 1 .. n /\ x - 1 \in 0 .. n /\ After(c, s, x) # After(d, r, x + 1)
    BY <1>1, <2>2
  <2>4. x - 1 \notin D
    BY <2>2, <2>3
  <2>5. QED
    BY <1>2, <2>3, <2>4
<1>4. n \notin D /\ n \in 0 .. n
  BY <1>3
<1>5. QED
  BY <1>4 DEF c

\* After n events come the first m of s.
Continues(r, n, s, m) == \A i \in 1 .. m : r[n + i] = s[i]

\* Events that are appended come after those before them.
LEMMA AfterThen ==
  ASSUME NEW d, NEW r, NEW s, NEW n \in Nat, NEW m \in Nat, Continues(r, n, s, m),
         NEW k, k = n + m
  PROVE  After(d, r, k) = After(After(d, r, n), s, m)
<1> DEFINE c == After(d, r, n)
           D == {i \in 0 .. m : After(d, r, n + i) # After(c, s, i)}
<1>1. After(d, r, n + 0) = After(c, s, 0)
  <2> HIDE DEF c
  <2>1. n + 0 = n /\ After(c, s, 0) = c
    BY AfterNone
  <2>2. QED
    BY <2>1 DEF c
<1> HIDE DEF c
<1>2. ASSUME NEW i \in 1 .. m, After(d, r, n + (i - 1)) = After(c, s, i - 1)
      PROVE  After(d, r, n + i) = After(c, s, i)
  <2>1. i \in Nat \ {0} /\ n + i \in Nat \ {0} /\ (n + i) - 1 = n + (i - 1)
    OBVIOUS
  <2>2. After(c, s, i) = Indexed(After(c, s, i - 1), s[i])
    BY <2>1, AfterNext
  <2>3. After(d, r, n + i) = Indexed(After(d, r, (n + i) - 1), r[n + i])
    BY <2>1, AfterNext
  <2>4. r[n + i] = s[i]
    BY DEF Continues
  <2>5. QED
    BY <1>2, <2>1, <2>2, <2>3, <2>4
<1>3. ASSUME D # {} PROVE FALSE
  <2>1. D \subseteq Nat
    OBVIOUS
  <2>2. PICK x \in D : \A y \in D : x <= y
    BY <1>3, <2>1, Least
  <2>3. x \in 1 .. m /\ x - 1 \in 0 .. m /\ After(d, r, n + x) # After(c, s, x)
    BY <1>1, <2>2
  <2>4. x - 1 \notin D
    BY <2>2, <2>3
  <2>5. QED
    BY <1>2, <2>3, <2>4
<1>4. m \notin D /\ m \in 0 .. m
  BY <1>3
<1>5. QED
  BY <1>4 DEF c

-----------------------------------------------------------------------------
(* What the tables hold *)

Row == [maxDebt: Nat, bridgeFee: Nat, proxyBridge: Proxies, currentOutstandingDebt: Nat]

TablesOK(d) ==
  /\ d = [pool |-> d.pool, origins |-> d.origins]
  /\ d.pool \in [outstandingDebt: Nat, totalBridgeFees: Nat]
  /\ DOMAIN d.origins \subseteq Origins
  /\ d.origins \in [DOMAIN d.origins -> Row]

\* The debt of the pool is the sum over its origins.
Balanced(d) ==
  d.pool.outstandingDebt =
    SumOver([o \in DOMAIN d.origins |-> d.origins[o].currentOutstandingDebt],
            DOMAIN d.origins)

\* The tables say what the contract says.
UpToDate(d, total, pool) ==
  /\ d.pool.outstandingDebt = total
  /\ DOMAIN d.origins = DOMAIN pool
  /\ \A o \in DOMAIN pool :
       /\ d.origins[o].maxDebt = pool[o].maxDebt
       /\ d.origins[o].bridgeFee = BridgeFeeInBps(pool[o].bridgeFee)
       /\ d.origins[o].currentOutstandingDebt = pool[o].outstandingDebt

Event ==
  [kind: {"OriginAdded"}, origin: Origins, maxDebt: Nat, bridgeFee: Nat, proxyBridge: Proxies]
  \cup [kind: {"OriginDisabled"}, origin: Origins]
  \cup [kind: {"OutstandingDebtChanged"}, origin: Origins, newOriginDebt: Nat, newDebt: Nat]
  \cup [kind: {"LoanEmitted"}, origin: Origins, amount: Nat]

ChainOK ==
  /\ DOMAIN origins \subseteq Origins
  /\ origins \in [DOMAIN origins -> Settings]
  /\ outstandingDebt \in Nat /\ pendingBridgeFees \in Nat /\ feesCharged \in Nat
  /\ messages \subseteq Messages /\ arrived \subseteq Messages
  /\ waiting \in [Proxies -> Nat]

\* Inductive: each of the tables to come is balanced and says at most the fees
\* that were charged, and the last of them says what the contract says.
TablesInv ==
  /\ ChainOK
  /\ log \in Seq(Event)
  /\ \A n \in 0 .. Len(log) :
       /\ TablesOK(Replayed(n))
       /\ Balanced(Replayed(n))
       /\ Replayed(n).pool.totalBridgeFees <= feesCharged
  /\ UpToDate(Replayed(Len(log)), outstandingDebt, origins)

-----------------------------------------------------------------------------
(* What one event does to the tables *)

Debts(d) == [o \in DOMAIN d.origins |-> d.origins[o].currentOutstandingDebt]

LEMMA DebtsType ==
  ASSUME NEW d, TablesOK(d)
  PROVE  IsFiniteSet(DOMAIN d.origins) /\ \A o \in DOMAIN d.origins : Debts(d)[o] \in Nat
<1>1. IsFiniteSet(DOMAIN d.origins)
  BY OriginIndexerAssumption, FS_Subset DEF TablesOK
<1>2. QED
  BY <1>1 DEF TablesOK, Debts, Row

\* A balanced pool owes at least what each origin does.
LEMMA DebtOfOrigin ==
  ASSUME NEW d, TablesOK(d), Balanced(d), NEW o \in DOMAIN d.origins
  PROVE  d.origins[o].currentOutstandingDebt <= d.pool.outstandingDebt
<1> DEFINE S == DOMAIN d.origins
           f == Debts(d)
<1>1. IsFiniteSet(S) /\ \A x \in S : f[x] \in Nat
  BY DebtsType
<1>2. d.pool.outstandingDebt = SumOver(f, S) /\ f[o] = d.origins[o].currentOutstandingDebt
  BY DEF Balanced, Debts
<1> HIDE DEF S, f
<1>3. o \in S
  BY DEF S
<1>4. SumOver(f, S) = SumOver(f, S \ {o}) + f[o]
  BY <1>1, <1>3, SumOverSplit
<1>5. SumOver(f, S \ {o}) \in Nat
  BY <1>1, FS_RemoveElement, SumOverType
<1>6. QED
  BY <1>1, <1>2, <1>3, <1>4, <1>5

\* The debts of an origin and of the pool change by the same amount.
LEMMA DebtChangedEvent ==
  ASSUME NEW d, TablesOK(d), Balanced(d), NEW o \in DOMAIN d.origins,
         NEW x \in Nat, NEW y \in Nat,
         y = d.pool.outstandingDebt - d.origins[o].currentOutstandingDebt + x,
         NEW c, c = Indexed(d, DebtChanged(o, x, y))
  PROVE  /\ TablesOK(c) /\ Balanced(c)
         /\ c.pool.totalBridgeFees = d.pool.totalBridgeFees
         /\ c.pool.outstandingDebt = y
         /\ c.origins = [d.origins EXCEPT ![o].currentOutstandingDebt = x]
<1>1. c = [pool |-> [d.pool EXCEPT !.outstandingDebt = y],
           origins |-> [d.origins EXCEPT ![o].currentOutstandingDebt = x]]
  BY DEF TablesOK, Indexed, DebtChanged, OnOutstandingDebtChanged
<1>2. /\ c.pool = [d.pool EXCEPT !.outstandingDebt = y]
      /\ c.origins = [d.origins EXCEPT ![o].currentOutstandingDebt = x]
      /\ c = [pool |-> c.pool, origins |-> c.origins]
  BY <1>1
<1> HIDE DEF DebtChanged
<1>3. /\ c.pool \in [outstandingDebt: Nat, totalBridgeFees: Nat]
      /\ c.pool.totalBridgeFees = d.pool.totalBridgeFees
      /\ c.pool.outstandingDebt = y
  BY <1>2 DEF TablesOK
<1>4. DOMAIN c.origins = DOMAIN d.origins
  BY <1>2
<1>5. c.origins \in [DOMAIN c.origins -> Row]
  BY <1>2, <1>4 DEF TablesOK, Row
<1>6. TablesOK(c)
  BY <1>2, <1>3, <1>4, <1>5 DEF TablesOK
<1>7. Balanced(c)
  <2> DEFINE S == DOMAIN d.origins
             f == Debts(d)
             g == Debts(c)
  <2>1. IsFiniteSet(S) /\ \A z \in S : f[z] \in Nat
    BY DebtsType
  <2>2. \A z \in S : g[z] \in Nat
    BY <1>4, <1>6, DebtsType
  <2>3. g[o] = x /\ f[o] = d.origins[o].currentOutstandingDebt
    BY <1>2, <1>4 DEF Debts, TablesOK, Row
  <2>4. \A z \in S \ {o} : g[z] = f[z]
    BY <1>2, <1>4 DEF Debts
  <2>5. d.pool.outstandingDebt = SumOver(f, S)
    BY DEF Balanced, Debts
  <2> HIDE DEF f, g
  <2>6. SumOver(g, S) = SumOver(f, S) - f[o] + g[o]
    BY <2>1, <2>2, <2>4, SumOverChange
  <2>7. c.pool.outstandingDebt = SumOver(g, S)
    BY <1>3, <2>3, <2>5, <2>6
  <2>8. QED
    BY <1>4, <2>7 DEF Balanced, Debts, g
<1>8. QED
  BY <1>2, <1>3, <1>6, <1>7

\* A quotient of natural numbers.
LEMMA BpsType ==
  ASSUME NEW fee \in Nat
  PROVE  BridgeFeeInBps(fee) \in Nat
<1>1. fee * BPS_DIVISOR \in Nat
  BY OriginIndexerAssumption
<1>2. QED
  BY <1>1, OriginIndexerAssumption, QuotientType DEF BridgeFeeInBps

\* A row that is added owes nothing, one that is there keeps its debt.
LEMMA OriginAddedEvent ==
  ASSUME NEW d, TablesOK(d), Balanced(d), NEW o \in Origins,
         NEW limit \in Nat, NEW fee \in Nat, NEW proxy \in Proxies,
         NEW e, e = [kind |-> "OriginAdded", origin |-> o, maxDebt |-> limit,
                     bridgeFee |-> fee, proxyBridge |-> proxy],
         NEW c, c = Indexed(d, e)
  PROVE  /\ TablesOK(c) /\ Balanced(c) /\ c.pool = d.pool
         /\ DOMAIN c.origins = DOMAIN d.origins \cup {o}
         /\ \A x \in DOMAIN d.origins \ {o} : c.origins[x] = d.origins[x]
         /\ c.origins[o].maxDebt = limit
         /\ c.origins[o].bridgeFee = BridgeFeeInBps(fee)
         /\ c.origins[o].currentOutstandingDebt =
              IF o \in DOMAIN d.origins THEN d.origins[o].currentOutstandingDebt ELSE 0
<1> DEFINE bps == BridgeFeeInBps(fee)
           fresh == [maxDebt |-> limit, bridgeFee |-> bps, proxyBridge |-> proxy,
                     currentOutstandingDebt |-> 0]
           row == IF o \in DOMAIN d.origins
                  THEN [d.origins[o] EXCEPT !.maxDebt = limit, !.bridgeFee = bps]
                  ELSE fresh
           S == DOMAIN d.origins \cup {o}
<1>1. bps \in Nat
  BY BpsType
<1>2. c = OnOriginAdded(d, e)
  BY DEF Indexed
<1>3. c = [pool |-> d.pool, origins |-> [x \in S |-> IF x # o THEN d.origins[x] ELSE row]]
  <2> DEFINE body(x) == IF x # o THEN d.origins[x]
                        ELSE IF x \in DOMAIN d.origins
                        THEN [d.origins[x] EXCEPT !.maxDebt = limit, !.bridgeFee = bps]
                        ELSE fresh
  <2>1. d = [pool |-> d.pool, origins |-> d.origins]
    BY DEF TablesOK
  <2>2. c = [d EXCEPT !.origins = [x \in S |-> body(x)]]
    BY <1>2 DEF OnOriginAdded
  <2>3. [x \in S |-> body(x)] = [x \in S |-> IF x # o THEN d.origins[x] ELSE row]
    OBVIOUS
  <2> HIDE DEF body, row
  <2>4. QED
    BY <2>1, <2>2, <2>3
<1>4. row \in Row
  BY <1>1 DEF TablesOK, Row
<1>5. /\ row.maxDebt = limit /\ row.bridgeFee = bps
      /\ row.currentOutstandingDebt =
           IF o \in DOMAIN d.origins THEN d.origins[o].currentOutstandingDebt ELSE 0
  BY DEF TablesOK, Row
<1> HIDE DEF row, bps
<1>6. /\ c.pool = d.pool
      /\ c.origins = [x \in S |-> IF x # o THEN d.origins[x] ELSE row]
      /\ DOMAIN c.origins = S
      /\ c.origins[o] = row
      /\ \A x \in DOMAIN d.origins \ {o} : c.origins[x] = d.origins[x]
  BY <1>3
<1>7. TablesOK(c)
  <2>1. c = [pool |-> c.pool, origins |-> c.origins]
    BY <1>3, <1>6
  <2>2. \A x \in S : c.origins[x] \in Row
    BY <1>4, <1>6 DEF TablesOK
  <2>3. c.origins \in [S -> Row]
    BY <1>6, <2>2
  <2>4. QED
    BY <1>6, <2>1, <2>3 DEF TablesOK
<1>8. Balanced(c)
  <2> DEFINE T == DOMAIN d.origins
             f == Debts(d)
             g == Debts(c)
  <2>1. IsFiniteSet(T) /\ IsFiniteSet(S) /\ \A z \in S : g[z] \in Nat
    BY <1>6, <1>7, DebtsType
  <2>2. d.pool.outstandingDebt = SumOver(f, T)
    BY DEF Balanced, Debts
  <2>3. \A z \in T : g[z] = f[z]
    BY <1>5, <1>6 DEF Debts
  <2>4. o \notin T => g[o] = 0
    BY <1>5, <1>6 DEF Debts
  <2> HIDE DEF f, g
  <2>5. SumOver(g, T) = SumOver(f, T)
    BY <2>3, SumOverSame
  <2>6. SumOver(g, T) = SumOver(g, S)
    <3>1. T \subseteq S /\ \A y \in S \ T : g[y] = 0
      BY <2>4
    <3>2. QED
      BY <3>1, SumOverSupport
  <2>7. c.pool.outstandingDebt = SumOver(g, S)
    BY <1>6, <2>2, <2>5, <2>6
  <2>8. QED
    BY <1>6, <2>7 DEF Balanced, Debts, g
<1>9. QED
  BY <1>5, <1>6, <1>7, <1>8 DEF bps

\* An origin that is disabled keeps its debt.
LEMMA OriginDisabledEvent ==
  ASSUME NEW d, TablesOK(d), Balanced(d), NEW o \in DOMAIN d.origins,
         NEW c, c = Indexed(d, [kind |-> "OriginDisabled", origin |-> o])
  PROVE  /\ TablesOK(c) /\ Balanced(c) /\ c.pool = d.pool
         /\ c.origins = [d.origins EXCEPT ![o].maxDebt = 0]
<1>1. c = [pool |-> d.pool, origins |-> [d.origins EXCEPT ![o].maxDebt = 0]]
  BY DEF TablesOK, Indexed, OnOriginDisabled
<1>2. /\ c.pool = d.pool /\ c.origins = [d.origins EXCEPT ![o].maxDebt = 0]
      /\ c = [pool |-> c.pool, origins |-> c.origins]
      /\ DOMAIN c.origins = DOMAIN d.origins
  BY <1>1
<1>3. c.origins \in [DOMAIN c.origins -> Row]
  BY <1>2 DEF TablesOK, Row
<1>4. TablesOK(c)
  BY <1>2, <1>3 DEF TablesOK
<1>5. Debts(c) = Debts(d)
  BY <1>2 DEF Debts, TablesOK, Row
<1>6. Balanced(c)
  BY <1>2, <1>5 DEF Balanced, Debts
<1>7. QED
  BY <1>2, <1>4, <1>6

\* Basis points are rounded down, and so is the fee they give: it is at most
\* the fee of the contract.
LEMMA FeeOfBps ==
  ASSUME NEW amount \in Nat, NEW fee \in Nat
  PROVE  /\ (amount * BridgeFeeInBps(fee)) \div BPS_DIVISOR \in Nat
         /\ (amount * fee) \div FRACTIONAL_BPS_DENOMINATOR \in Nat
         /\ (amount * BridgeFeeInBps(fee)) \div BPS_DIVISOR
              <= (amount * fee) \div FRACTIONAL_BPS_DENOMINATOR
<1> DEFINE F == FRACTIONAL_BPS_DENOMINATOR
           B == BPS_DIVISOR
           q == BridgeFeeInBps(fee)
           r == (amount * q) \div B
           s == (amount * fee) \div F
<1>1. F \in Nat \ {0} /\ B \in Nat \ {0}
  BY OriginIndexerAssumption
<1>2. q \in Nat /\ F * q <= fee * B
  BY <1>1, QuotientType DEF BridgeFeeInBps
<1> HIDE DEF q, F, B
<1>3. r \in Nat /\ B * r <= amount * q
  BY <1>1, <1>2, QuotientType
<1>4. s \in Nat /\ amount * fee < F * s + F
  BY <1>1, QuotientType
<1> HIDE DEF r, s
<1>5. F * (B * r) <= F * (amount * q)
  BY <1>1, <1>2, <1>3, ProductMonotone
<1>6. amount * (F * q) <= amount * (fee * B)
  BY <1>1, <1>2, ProductMonotone
<1>7. B * (F * r) <= B * (amount * fee)
  <2>1. F * (B * r) = B * (F * r)
    BY <1>1, <1>3
  <2>2. F * (amount * q) = amount * (F * q)
    BY <1>1, <1>2
  <2>3. amount * (fee * B) = B * (amount * fee)
    BY <1>1
  <2>4. /\ F * (B * r) \in Nat /\ F * (amount * q) \in Nat
        /\ amount * (F * q) \in Nat /\ amount * (fee * B) \in Nat
    BY <1>1, <1>2, <1>3
  <2>5. QED
    BY <1>5, <1>6, <2>1, <2>2, <2>3, <2>4
<1>8. ASSUME s < r PROVE FALSE
  <2>1. F * (s + 1) <= F * r
    BY <1>1, <1>3, <1>4, <1>8, ProductMonotone
  <2>2. F * (s + 1) = F * s + F
    BY <1>1, <1>4
  <2>3. amount * fee + 1 <= F * r
    BY <1>1, <1>3, <1>4, <2>1, <2>2
  <2>4. B * (amount * fee + 1) <= B * (F * r)
    BY <1>1, <1>3, <2>3, ProductMonotone
  <2>5. B * (amount * fee + 1) = B * (amount * fee) + B
    BY <1>1
  <2>6. B * (amount * fee) \in Nat /\ B * (F * r) \in Nat
    BY <1>1, <1>3
  <2>7. QED
    BY <1>1, <1>7, <2>4, <2>5, <2>6
<1>9. QED
  BY <1>3, <1>4, <1>8 DEF q, r, s, F, B

\* A loan adds its fee, at the rate of the row.
LEMMA LoanEmittedEvent ==
  ASSUME NEW d, TablesOK(d), Balanced(d), NEW o \in DOMAIN d.origins,
         NEW amount \in Nat, NEW fee \in Nat,
         d.origins[o].bridgeFee = BridgeFeeInBps(fee),
         NEW c, c = Indexed(d, [kind |-> "LoanEmitted", origin |-> o, amount |-> amount])
  PROVE  /\ TablesOK(c) /\ Balanced(c) /\ c.origins = d.origins
         /\ c.pool.outstandingDebt = d.pool.outstandingDebt
         /\ c.pool.totalBridgeFees <=
              d.pool.totalBridgeFees + (amount * fee) \div FRACTIONAL_BPS_DENOMINATOR
<1> DEFINE r == (amount * BridgeFeeInBps(fee)) \div BPS_DIVISOR
           s == (amount * fee) \div FRACTIONAL_BPS_DENOMINATOR
<1>1. r \in Nat /\ s \in Nat /\ r <= s
  BY FeeOfBps
<1>2. c = [pool |-> [d.pool EXCEPT !.totalBridgeFees = @ + r], origins |-> d.origins]
  BY DEF TablesOK, Indexed, OnLoanEmitted
<1> HIDE DEF r, s
<1>3. /\ c.pool = [d.pool EXCEPT !.totalBridgeFees = @ + r] /\ c.origins = d.origins
      /\ c = [pool |-> c.pool, origins |-> c.origins]
  BY <1>2
<1>4. /\ c.pool \in [outstandingDebt: Nat, totalBridgeFees: Nat]
      /\ c.pool.outstandingDebt = d.pool.outstandingDebt
      /\ c.pool.totalBridgeFees = d.pool.totalBridgeFees + r
      /\ d.pool.totalBridgeFees \in Nat
  BY <1>1, <1>3 DEF TablesOK
<1>5. TablesOK(c)
  BY <1>3, <1>4 DEF TablesOK
<1>6. Balanced(c)
  BY <1>3, <1>4 DEF Balanced
<1>7. c.pool.totalBridgeFees <= d.pool.totalBridgeFees + s
  BY <1>1, <1>4
<1>8. QED
  BY <1>3, <1>4, <1>5, <1>6, <1>7 DEF s

-----------------------------------------------------------------------------
(* What a step does to the tables to come *)

\* The pending tables stay, and those of the new events follow.
LEMMA EmitReplays ==
  ASSUME log \in Seq(Event), db' = db, NEW events \in Seq(Event), Emit(events),
         NEW n, n = Len(log)
  PROVE  /\ n \in Nat /\ Len(events) \in Nat
         /\ log' \in Seq(Event) /\ Len(log') = n + Len(events)
         /\ \A i \in 0 .. n : After(db', log', i) = Replayed(i)
         /\ \A i \in 0 .. Len(events) :
              After(db', log', n + i) = After(Replayed(n), events, i)
<1>1. /\ n \in Nat /\ Len(events) \in Nat
      /\ log' \in Seq(Event) /\ Len(log') = n + Len(events)
      /\ \A i \in 1 .. n : log'[i] = log[i]
      /\ \A i \in 1 .. Len(events) : log'[n + i] = events[i]
  BY DEF Emit
<1>2. ASSUME NEW i \in 0 .. n PROVE After(db', log', i) = After(db, log, i)
  <2>1. i \in Nat /\ \A j \in 1 .. i : log'[j] = log[j]
    BY <1>1
  <2>2. QED
    BY <2>1, AfterSame
<1>3. ASSUME NEW i \in 0 .. Len(events)
      PROVE  After(db', log', n + i) = After(After(db, log, n), events, i)
  <2>1. i \in Nat /\ n \in Nat /\ Continues(log', n, events, i)
    BY <1>1 DEF Continues
  <2>2. PICK k : k = n + i
    OBVIOUS
  <2>3. After(db', log', k) = After(After(db', log', n), events, i)
    BY <2>1, <2>2, AfterThen
  <2>4. After(db', log', n) = After(db, log, n)
    BY <1>1, <1>2
  <2>5. QED
    BY <2>2, <2>3, <2>4
<1>4. QED
  BY <1>1, <1>2, <1>3 DEF Replayed

Good(d, fees) ==
  TablesOK(d) /\ Balanced(d) /\ d.pool.totalBridgeFees <= fees

\* A transaction keeps the invariant when it does so event by event.
LEMMA EmitKeepsTables ==
  ASSUME TablesInv, ChainOK', db' = db, feesCharged <= feesCharged',
         NEW events \in Seq(Event), Emit(events),
         NEW d, d = Replayed(Len(log)),
         \A i \in 1 .. Len(events) : Good(After(d, events, i), feesCharged'),
         UpToDate(After(d, events, Len(events)), outstandingDebt', origins')
  PROVE  TablesInv'
<1>1. PICK n : n = Len(log)
  OBVIOUS
<1>2. /\ n \in Nat /\ Len(events) \in Nat
      /\ log' \in Seq(Event) /\ Len(log') = n + Len(events)
      /\ \A i \in 0 .. n : After(db', log', i) = Replayed(i)
      /\ \A i \in 0 .. Len(events) : After(db', log', n + i) = After(d, events, i)
  BY <1>1, EmitReplays DEF TablesInv
<1>3. PICK last \in Nat : last = Len(log')
  BY <1>2
<1>4. ASSUME NEW i \in 0 .. last PROVE Good(After(db', log', i), feesCharged')
  <2>1. CASE i \in 0 .. n
    <3>1. Good(Replayed(i), feesCharged)
      BY <1>1, <2>1 DEF TablesInv, Good
    <3>2. feesCharged \in Nat /\ feesCharged' \in Nat
      BY DEF TablesInv, ChainOK
    <3>3. QED
      BY <1>2, <2>1, <3>1, <3>2 DEF Good, TablesOK
  <2>2. CASE i \notin 0 .. n
    <3>1. PICK k \in 1 .. Len(events) : n + k = i
      <4>1. i - n \in 1 .. Len(events) /\ n + (i - n) = i
        BY <1>2, <1>3, <2>2
      <4>2. QED
        BY <4>1
    <3>2. After(db', log', i) = After(d, events, k)
      <4>1. k \in 0 .. Len(events)
        BY <1>2, <3>1
      <4>2. After(db', log', n + k) = After(d, events, k)
        BY <1>2, <4>1
      <4>3. QED
        BY <3>1, <4>2
    <3>3. QED
      BY <3>1, <3>2
  <2>3. QED
    BY <2>1, <2>2
<1>5. UpToDate(After(db', log', last), outstandingDebt', origins')
  <2>1. PICK k \in 0 .. Len(events) : k = Len(events) /\ last = n + k
    BY <1>2, <1>3
  <2>2. After(db', log', last) = After(d, events, k)
    BY <1>2, <2>1
  <2>3. QED
    BY <2>1, <2>2
<1>6. QED
  BY <1>2, <1>3, <1>4, <1>5 DEF TablesInv, Good, Replayed

LEMMA OneEventKeepsTables ==
  ASSUME TablesInv, ChainOK', db' = db, feesCharged <= feesCharged',
         NEW x \in Event, Emit(<<x>>),
         NEW c, c = Indexed(Replayed(Len(log)), x),
         Good(c, feesCharged'), UpToDate(c, outstandingDebt', origins')
  PROVE  TablesInv'
<1>1. PICK events : events = <<x>>
  OBVIOUS
<1>2. events \in Seq(Event) /\ Len(events) = 1 /\ events[1] = x
  BY <1>1
<1>3. PICK d : d = Replayed(Len(log))
  OBVIOUS
<1>4. After(d, events, 1) = c
  <2>1. After(d, events, 1) = Indexed(After(d, events, 0), events[1])
    BY <1>2, AfterNext
  <2>2. After(d, events, 0) = d
    BY <1>2, AfterNone
  <2> HIDE DEF Indexed
  <2>3. QED
    BY <1>2, <1>3, <2>1, <2>2
<1>5. \A i \in 1 .. Len(events) : Good(After(d, events, i), feesCharged')
  BY <1>2, <1>4
<1>6. UpToDate(After(d, events, Len(events)), outstandingDebt', origins')
  BY <1>2, <1>4
<1>7. Emit(events)
  BY <1>1
<1>8. QED
  BY <1>2, <1>3, <1>5, <1>6, <1>7, EmitKeepsTables

LEMMA TwoEventsKeepTables ==
  ASSUME TablesInv, ChainOK', db' = db, feesCharged <= feesCharged',
         NEW x \in Event, NEW y \in Event, Emit(<<x, y>>),
         NEW b, b = Indexed(Replayed(Len(log)), x), Good(b, feesCharged'),
         NEW c, c = Indexed(b, y),
         Good(c, feesCharged'), UpToDate(c, outstandingDebt', origins')
  PROVE  TablesInv'
<1>1. PICK events : events = <<x, y>>
  OBVIOUS
<1>2. events \in Seq(Event) /\ Len(events) = 2 /\ events[1] = x /\ events[2] = y
  BY <1>1
<1>3. PICK d : d = Replayed(Len(log))
  OBVIOUS
<1>4. After(d, events, 1) = b
  BY <1>2, <1>3, AfterNext, AfterNone
<1>5. After(d, events, 2) = c
  <2>1. 2 \in Nat \ {0} /\ 2 - 1 = 1
    OBVIOUS
  <2>2. QED
    BY <1>2, <1>4, <2>1, AfterNext
<1>6. \A i \in 1 .. Len(events) : Good(After(d, events, i), feesCharged')
  BY <1>2, <1>4, <1>5
<1>7. UpToDate(After(d, events, Len(events)), outstandingDebt', origins')
  BY <1>2, <1>5
<1>8. Emit(events)
  BY <1>1
<1>9. QED
  BY <1>2, <1>3, <1>6, <1>7, <1>8, EmitKeepsTables

\* The tables to come are one fewer: the first of them is now there.
LEMMA IndexReplays ==
  ASSUME log \in Seq(Event), Index
  PROVE  /\ Len(log) \in Nat /\ Len(log') = Len(log) - 1 /\ Len(log') \in Nat
         /\ log' \in Seq(Event)
         /\ \A i \in 0 .. Len(log') : After(db', log', i) = Replayed(i + 1)
<1>1. /\ log # <<>> /\ Head(log) = log[1] /\ Len(log) \in Nat
      /\ log' \in Seq(Event) /\ Len(log') = Len(log) - 1 /\ Len(log') \in Nat
      /\ \A i \in 1 .. Len(log') : log'[i] = log[i + 1]
  BY DEF Index
<1>2. db' = Indexed(db, log[1])
  BY <1>1 DEF Index
<1>3. ASSUME NEW i \in 0 .. Len(log') PROVE After(db', log', i) = After(db, log, i + 1)
  <2>1. i \in Nat /\ \A j \in 1 .. i : log'[j] = log[j + 1]
    BY <1>1
  <2>2. QED
    BY <1>2, <2>1, AfterFirst
<1>4. QED
  BY <1>1, <1>3 DEF Replayed

LEMMA IndexKeepsTables ==
  ASSUME TablesInv, Index
  PROVE  TablesInv'
<1>1. /\ Len(log) \in Nat /\ Len(log') = Len(log) - 1 /\ Len(log') \in Nat
      /\ log' \in Seq(Event)
      /\ \A i \in 0 .. Len(log') : After(db', log', i) = Replayed(i + 1)
  BY IndexReplays DEF TablesInv
<1>2. ChainOK' /\ feesCharged' = feesCharged
      /\ origins' = origins /\ outstandingDebt' = outstandingDebt
  BY DEF TablesInv, ChainOK, Index, poolVars, feeVars
<1>3. PICK n \in Nat : n = Len(log')
  BY <1>1
<1>4. ASSUME NEW i \in 0 .. n PROVE Good(After(db', log', i), feesCharged')
  <2>1. PICK j : j = i + 1
    OBVIOUS
  <2>2. j \in 0 .. Len(log) /\ After(db', log', i) = Replayed(j)
    BY <1>1, <1>3, <2>1
  <2>3. Good(Replayed(j), feesCharged)
    BY <2>2 DEF TablesInv, Good
  <2>4. QED
    BY <1>2, <2>2, <2>3
<1>5. UpToDate(After(db', log', n), outstandingDebt', origins')
  <2>1. n \in 0 .. Len(log') /\ n + 1 = Len(log)
    BY <1>1, <1>3
  <2>2. After(db', log', n) = Replayed(Len(log))
    BY <1>1, <2>1
  <2>3. QED
    BY <1>2, <2>2 DEF TablesInv
<1>6. QED
  BY <1>1, <1>2, <1>3, <1>4, <1>5 DEF TablesInv, Good, Replayed

-----------------------------------------------------------------------------
(* One step of the pool *)

\* The last of the tables to come.
LEMMA LastTables ==
  ASSUME TablesInv
  PROVE  \E d : /\ d = Replayed(Len(log))
                /\ Good(d, feesCharged)
                /\ UpToDate(d, outstandingDebt, origins)
<1>1. Len(log) \in 0 .. Len(log)
  BY DEF TablesInv
<1>2. QED
  BY <1>1 DEF TablesInv, Good

LEMMA AddOriginKeepsTables ==
  ASSUME TablesInv, db' = db,
         NEW o \in Origins, NEW limit \in Nat, NEW fee \in Nat, NEW proxy \in Proxies,
         AddOrigin(o, limit, fee, proxy)
  PROVE  TablesInv'
<1>1. PICK d : /\ d = Replayed(Len(log))
               /\ Good(d, feesCharged)
               /\ UpToDate(d, outstandingDebt, origins)
  BY LastTables
<1>2. PICK x : x = [kind |-> "OriginAdded", origin |-> o, maxDebt |-> limit,
                    bridgeFee |-> fee, proxyBridge |-> proxy]
  OBVIOUS
<1>3. x \in Event /\ Emit(<<x>>)
  BY <1>2 DEF Event, AddOrigin
<1>4. PICK c : c = Indexed(d, x)
  OBVIOUS
<1>5. /\ TablesOK(c) /\ Balanced(c) /\ c.pool = d.pool
      /\ DOMAIN c.origins = DOMAIN d.origins \cup {o}
      /\ \A z \in DOMAIN d.origins \ {o} : c.origins[z] = d.origins[z]
      /\ c.origins[o].maxDebt = limit
      /\ c.origins[o].bridgeFee = BridgeFeeInBps(fee)
      /\ c.origins[o].currentOutstandingDebt =
           IF o \in DOMAIN d.origins THEN d.origins[o].currentOutstandingDebt ELSE 0
  BY <1>1, <1>2, <1>4, OriginAddedEvent DEF Good
<1>6. /\ UNCHANGED <<outstandingDebt, messages, feeVars, arrived, waiting>>
      /\ DOMAIN origins' = DOMAIN origins \cup {o}
      /\ \A z \in DOMAIN origins \ {o} : origins'[z] = origins[z]
      /\ origins'[o] = [maxDebt |-> limit, bridgeFee |-> fee, proxyBridge |-> proxy,
             outstandingDebt |-> IF o \in DOMAIN origins
                                 THEN origins[o].outstandingDebt ELSE 0]
      /\ origins' = [z \in DOMAIN origins' |-> origins'[z]]
  BY DEF AddOrigin
<1>7. origins'[o] \in Settings
  BY <1>6 DEF TablesInv, ChainOK, Settings
<1>8. ChainOK'
  BY <1>6, <1>7 DEF TablesInv, ChainOK, feeVars
<1>9. Good(c, feesCharged')
  BY <1>1, <1>5, <1>6 DEF Good, feeVars
<1>10. UpToDate(c, outstandingDebt', origins')
  <2>1. c.pool.outstandingDebt = outstandingDebt' /\ DOMAIN c.origins = DOMAIN origins'
    BY <1>1, <1>5, <1>6 DEF UpToDate
  <2>2. ASSUME NEW z \in DOMAIN origins', z # o
        PROVE  /\ c.origins[z].maxDebt = origins'[z].maxDebt
               /\ c.origins[z].bridgeFee = BridgeFeeInBps(origins'[z].bridgeFee)
               /\ c.origins[z].currentOutstandingDebt = origins'[z].outstandingDebt
    BY <1>1, <1>5, <1>6, <2>2 DEF UpToDate
  <2>3. /\ c.origins[o].maxDebt = origins'[o].maxDebt
        /\ c.origins[o].bridgeFee = BridgeFeeInBps(origins'[o].bridgeFee)
        /\ c.origins[o].currentOutstandingDebt = origins'[o].outstandingDebt
    BY <1>1, <1>5, <1>6 DEF UpToDate
  <2>4. QED
    BY <2>1, <2>2, <2>3 DEF UpToDate
<1>11. feesCharged <= feesCharged'
  BY <1>6 DEF TablesInv, ChainOK, feeVars
<1>12. QED
  BY <1>1, <1>3, <1>4, <1>8, <1>9, <1>10, <1>11, OneEventKeepsTables

LEMMA DisableOriginKeepsTables ==
  ASSUME TablesInv, db' = db, NEW o, DisableOrigin(o)
  PROVE  TablesInv'
<1>1. PICK d : /\ d = Replayed(Len(log))
               /\ Good(d, feesCharged)
               /\ UpToDate(d, outstandingDebt, origins)
  BY LastTables
<1>2. PICK x : x = [kind |-> "OriginDisabled", origin |-> o]
  OBVIOUS
<1>3. /\ o \in DOMAIN origins /\ o \in Origins /\ o \in DOMAIN d.origins
      /\ x \in Event /\ Emit(<<x>>)
  BY <1>1, <1>2 DEF Event, DisableOrigin, TablesInv, ChainOK, UpToDate
<1>4. PICK c : c = Indexed(d, x)
  OBVIOUS
<1>5. /\ TablesOK(c) /\ Balanced(c) /\ c.pool = d.pool
      /\ c.origins = [d.origins EXCEPT ![o].maxDebt = 0]
  BY <1>1, <1>2, <1>3, <1>4, OriginDisabledEvent DEF Good
<1>6. /\ UNCHANGED <<outstandingDebt, messages, feeVars, arrived, waiting>>
      /\ origins' = [origins EXCEPT ![o].maxDebt = 0]
  BY DEF DisableOrigin
<1>7. ChainOK'
  BY <1>3, <1>6 DEF TablesInv, ChainOK, Settings, feeVars
<1>8. Good(c, feesCharged')
  BY <1>1, <1>5, <1>6 DEF Good, feeVars
<1>9. UpToDate(c, outstandingDebt', origins')
  <2>1. c.pool.outstandingDebt = outstandingDebt' /\ DOMAIN c.origins = DOMAIN origins'
    BY <1>1, <1>5, <1>6 DEF UpToDate
  <2>2. ASSUME NEW z \in DOMAIN origins
        PROVE  /\ c.origins[z].maxDebt = origins'[z].maxDebt
               /\ c.origins[z].bridgeFee = BridgeFeeInBps(origins'[z].bridgeFee)
               /\ c.origins[z].currentOutstandingDebt = origins'[z].outstandingDebt
    <3>1. origins[z] \in Settings /\ d.origins[z] \in Row
      BY <1>1 DEF UpToDate, TablesInv, ChainOK, Good, TablesOK
    <3>2. /\ d.origins[z].maxDebt = origins[z].maxDebt
          /\ d.origins[z].bridgeFee = BridgeFeeInBps(origins[z].bridgeFee)
          /\ d.origins[z].currentOutstandingDebt = origins[z].outstandingDebt
          /\ z \in DOMAIN d.origins
      BY <1>1 DEF UpToDate
    <3>3. CASE z = o
      BY <1>5, <1>6, <3>1, <3>2, <3>3 DEF Settings, Row
    <3>4. CASE z # o
      BY <1>5, <1>6, <3>2, <3>4
    <3>5. QED
      BY <3>3, <3>4
  <2>3. DOMAIN origins' = DOMAIN origins
    BY <1>6
  <2>4. QED
    BY <2>1, <2>2, <2>3 DEF UpToDate
<1>10. feesCharged <= feesCharged'
  BY <1>6 DEF TablesInv, ChainOK, feeVars
<1>11. QED
  BY <1>1, <1>3, <1>4, <1>7, <1>8, <1>9, <1>10, OneEventKeepsTables

\* One change of the debts, in the tables and in the contract.
LEMMA DebtsUpToDate ==
  ASSUME NEW d, TablesOK(d), NEW total, NEW pool, UpToDate(d, total, pool),
         \A z \in DOMAIN pool : pool[z] \in Settings,
         NEW o \in DOMAIN pool, NEW x \in Nat, NEW y,
         NEW c, c.pool.outstandingDebt = y,
         c.origins = [d.origins EXCEPT ![o].currentOutstandingDebt = x]
  PROVE  UpToDate(c, y, [pool EXCEPT ![o].outstandingDebt = x])
<1> DEFINE after == [pool EXCEPT ![o].outstandingDebt = x]
<1>1. DOMAIN after = DOMAIN pool /\ DOMAIN c.origins = DOMAIN after
  BY DEF UpToDate
<1>2. ASSUME NEW z \in DOMAIN pool
      PROVE  /\ c.origins[z].maxDebt = after[z].maxDebt
             /\ c.origins[z].bridgeFee = BridgeFeeInBps(after[z].bridgeFee)
             /\ c.origins[z].currentOutstandingDebt = after[z].outstandingDebt
  <2>1. pool[z] \in Settings /\ d.origins[z] \in Row /\ z \in DOMAIN d.origins
    BY DEF UpToDate, TablesOK
  <2>2. /\ d.origins[z].maxDebt = pool[z].maxDebt
        /\ d.origins[z].bridgeFee = BridgeFeeInBps(pool[z].bridgeFee)
        /\ d.origins[z].currentOutstandingDebt = pool[z].outstandingDebt
    BY DEF UpToDate
  <2>3. CASE z = o
    BY <2>1, <2>2, <2>3 DEF Settings, Row
  <2>4. CASE z # o
    BY <2>2, <2>4
  <2>5. QED
    BY <2>3, <2>4
<1>3. QED
  BY <1>1, <1>2 DEF UpToDate

LEMMA DebtEventType ==
  ASSUME NEW o \in Origins, NEW x \in Nat, NEW y \in Nat
  PROVE  DebtChanged(o, x, y) \in Event
BY DEF DebtChanged, Event

\* What an origin of the contract and its row say of each other.
LEMMA LastRow ==
  ASSUME TablesInv, NEW d, Good(d, feesCharged), UpToDate(d, outstandingDebt, origins),
         NEW o \in DOMAIN origins
  PROVE  /\ o \in Origins /\ o \in DOMAIN d.origins
         /\ origins[o] \in Settings
         /\ d.origins[o].currentOutstandingDebt = origins[o].outstandingDebt
         /\ d.origins[o].bridgeFee = BridgeFeeInBps(origins[o].bridgeFee)
         /\ d.pool.outstandingDebt = outstandingDebt
         /\ outstandingDebt \in Nat
         /\ origins[o].outstandingDebt \in Nat
         /\ origins[o].bridgeFee \in Nat
         /\ origins[o].proxyBridge \in Proxies
         /\ origins[o].outstandingDebt <= outstandingDebt
<1>1. /\ o \in Origins /\ o \in DOMAIN d.origins /\ origins[o] \in Settings
      /\ outstandingDebt \in Nat
      /\ d.origins[o].currentOutstandingDebt = origins[o].outstandingDebt
      /\ d.origins[o].bridgeFee = BridgeFeeInBps(origins[o].bridgeFee)
      /\ d.pool.outstandingDebt = outstandingDebt
  BY DEF TablesInv, ChainOK, UpToDate
<1>2. d.origins[o].currentOutstandingDebt <= d.pool.outstandingDebt
  BY <1>1, DebtOfOrigin DEF Good
<1>3. QED
  BY <1>1, <1>2 DEF Settings

LEMMA HandleKeepsTables ==
  ASSUME TablesInv, db' = db, NEW m \in Messages, Handle(m)
  PROVE  TablesInv'
<1>1. PICK d : /\ d = Replayed(Len(log))
               /\ Good(d, feesCharged)
               /\ UpToDate(d, outstandingDebt, origins)
  BY LastTables
<1>2. PICK o : o = From[m]
  OBVIOUS
<1>3. PICK amount \in Nat : amount = Amount[m]
  BY OriginIndexerAssumption
<1>4. PICK debt : debt = origins[o].outstandingDebt + amount
  OBVIOUS
<1>5. PICK total : total = outstandingDebt + amount
  OBVIOUS
<1>6. o \in DOMAIN origins
  BY <1>2 DEF Handle
<1>7. /\ o \in Origins /\ o \in DOMAIN d.origins /\ origins[o] \in Settings
      /\ d.origins[o].currentOutstandingDebt = origins[o].outstandingDebt
      /\ d.origins[o].bridgeFee = BridgeFeeInBps(origins[o].bridgeFee)
      /\ d.pool.outstandingDebt = outstandingDebt
      /\ outstandingDebt \in Nat /\ origins[o].outstandingDebt \in Nat
      /\ origins[o].bridgeFee \in Nat
  BY <1>1, <1>6, LastRow
<1>8. debt \in Nat /\ total \in Nat
  BY <1>3, <1>4, <1>5, <1>7
<1>9. /\ origins' = [origins EXCEPT ![o].outstandingDebt = debt]
      /\ origins'[o].outstandingDebt = debt
      /\ outstandingDebt' = total
      /\ feesCharged' = feesCharged + FeeOf(amount, origins[o].bridgeFee)
      /\ pendingBridgeFees' = pendingBridgeFees + FeeOf(amount, origins[o].bridgeFee)
      /\ messages' = messages \cup {m} /\ UNCHANGED <<arrived, waiting>>
  BY <1>2, <1>3, <1>4, <1>5, <1>6, <1>7 DEF Handle, Settings
<1>10. PICK x : x = DebtChanged(o, debt, total)
  OBVIOUS
<1>11. PICK y : y = [kind |-> "LoanEmitted", origin |-> o, amount |-> amount]
  OBVIOUS
<1>12. Emit(<<x, y>>)
  BY <1>2, <1>3, <1>9, <1>10, <1>11 DEF Handle
<1>13. x \in Event /\ y \in Event
  <2>1. x \in Event
    BY <1>7, <1>8, <1>10, DebtEventType
  <2>2. y \in Event
    BY <1>3, <1>7, <1>11 DEF Event
  <2>3. QED
    BY <2>1, <2>2
<1>14. PICK fee : fee = (amount * origins[o].bridgeFee) \div FRACTIONAL_BPS_DENOMINATOR
  OBVIOUS
<1>15. /\ fee \in Nat /\ feesCharged \in Nat /\ feesCharged' = feesCharged + fee
       /\ pendingBridgeFees' \in Nat
  <2>1. fee \in Nat /\ fee = FeeOf(amount, origins[o].bridgeFee)
    BY <1>3, <1>7, <1>14, FeeOfBps DEF FeeOf
  <2>2. feesCharged \in Nat /\ pendingBridgeFees \in Nat
    BY DEF TablesInv, ChainOK
  <2> HIDE DEF FeeOf
  <2>3. QED
    BY <1>9, <2>1, <2>2
<1>16. PICK b : b = Indexed(d, x)
  OBVIOUS
<1>17. total = d.pool.outstandingDebt - d.origins[o].currentOutstandingDebt + debt
  BY <1>3, <1>4, <1>5, <1>7
<1>18. /\ TablesOK(b) /\ Balanced(b)
       /\ b.pool.totalBridgeFees = d.pool.totalBridgeFees
       /\ b.pool.outstandingDebt = total
       /\ b.origins = [d.origins EXCEPT ![o].currentOutstandingDebt = debt]
  <2>1. TablesOK(d) /\ Balanced(d) /\ b = Indexed(d, DebtChanged(o, debt, total))
    BY <1>1, <1>10, <1>16 DEF Good
  <2>2. QED
    BY <1>7, <1>8, <1>17, <2>1, DebtChangedEvent
<1>19. UpToDate(b, total, origins')
  BY <1>1, <1>6, <1>8, <1>9, <1>18, DebtsUpToDate DEF Good, TablesInv, ChainOK
<1>20. PICK c : c = Indexed(b, y)
  OBVIOUS
<1>21. o \in DOMAIN b.origins /\ b.origins[o].bridgeFee = BridgeFeeInBps(origins[o].bridgeFee)
  BY <1>7, <1>18
<1>22. /\ TablesOK(c) /\ Balanced(c) /\ c.origins = b.origins
       /\ c.pool.outstandingDebt = b.pool.outstandingDebt
       /\ c.pool.totalBridgeFees <= b.pool.totalBridgeFees + fee
  <2>1. c = Indexed(b, [kind |-> "LoanEmitted", origin |-> o, amount |-> amount])
    BY <1>11, <1>20
  <2>2. PICK rate \in Nat : rate = origins[o].bridgeFee
    BY <1>7
  <2>3. fee = (amount * rate) \div FRACTIONAL_BPS_DENOMINATOR
    BY <1>14, <2>2
  <2>4. b.origins[o].bridgeFee = BridgeFeeInBps(rate)
    BY <1>21, <2>2
  <2>5. /\ TablesOK(b) /\ Balanced(b) /\ o \in DOMAIN b.origins
        /\ amount \in Nat /\ rate \in Nat
    BY <1>18, <1>21
  <2>6. /\ TablesOK(c) /\ Balanced(c) /\ c.origins = b.origins
        /\ c.pool.outstandingDebt = b.pool.outstandingDebt
        /\ c.pool.totalBridgeFees <=
             b.pool.totalBridgeFees + (amount * rate) \div FRACTIONAL_BPS_DENOMINATOR
    BY <2>1, <2>4, <2>5, LoanEmittedEvent
  <2>7. QED
    BY <2>3, <2>6
<1>23. Good(b, feesCharged') /\ Good(c, feesCharged')
  <2>1. d.pool.totalBridgeFees \in Nat /\ c.pool.totalBridgeFees \in Nat
    BY <1>1, <1>22 DEF Good, TablesOK
  <2>2. QED
    BY <1>1, <1>15, <1>18, <1>22, <2>1 DEF Good
<1>24. UpToDate(c, outstandingDebt', origins')
  BY <1>9, <1>18, <1>19, <1>22 DEF UpToDate
<1>25. ChainOK'
  <2>1. \A z \in DOMAIN origins' : origins'[z] \in Settings
    BY <1>8, <1>9 DEF TablesInv, ChainOK, Settings
  <2>2. DOMAIN origins' = DOMAIN origins /\ origins' = [z \in DOMAIN origins' |-> origins'[z]]
    BY <1>9 DEF TablesInv, ChainOK
  <2>3. origins' \in [DOMAIN origins' -> Settings]
    BY <2>1, <2>2
  <2>4. QED
    BY <1>8, <1>9, <1>15, <2>2, <2>3 DEF TablesInv, ChainOK
<1>26. QED
  BY <1>1, <1>12, <1>13, <1>15, <1>16, <1>20, <1>23, <1>24, <1>25, TwoEventsKeepTables

\* The settings of the other origins stay.
LEMMA DebtKeepsChainOK ==
  ASSUME ChainOK, NEW o \in DOMAIN origins, NEW x \in Nat,
         origins' = [origins EXCEPT ![o].outstandingDebt = x],
         outstandingDebt' \in Nat, pendingBridgeFees' \in Nat, feesCharged' \in Nat,
         messages' \subseteq Messages, arrived' = arrived,
         waiting' \in [Proxies -> Nat]
  PROVE  ChainOK'
<1>1. \A z \in DOMAIN origins' : origins'[z] \in Settings
  BY DEF ChainOK, Settings
<1>2. DOMAIN origins' = DOMAIN origins /\ origins' = [z \in DOMAIN origins' |-> origins'[z]]
  BY DEF ChainOK
<1>3. origins' \in [DOMAIN origins' -> Settings]
  BY <1>1, <1>2
<1>4. QED
  BY <1>2, <1>3 DEF ChainOK

\* What is claimed is what waits, at most the debt.
LEMMA ClaimedType ==
  ASSUME NEW balance \in Nat, NEW debt \in Nat
  PROVE  Claimed(balance, debt) \in Nat /\ Claimed(balance, debt) <= balance
         /\ Claimed(balance, debt) <= debt
BY DEF Claimed

LEMMA WaitingLess ==
  ASSUME waiting \in [Proxies -> Nat], NEW p \in Proxies, NEW n \in Nat, n <= waiting[p]
  PROVE  [waiting EXCEPT ![p] = @ - n] \in [Proxies -> Nat]
OBVIOUS

LEMMA ClaimKeepsTables ==
  ASSUME TablesInv, db' = db, NEW o, Claim(o)
  PROVE  TablesInv'
<1>1. PICK d : /\ d = Replayed(Len(log))
               /\ Good(d, feesCharged)
               /\ UpToDate(d, outstandingDebt, origins)
  BY LastTables
<1>2. o \in DOMAIN origins
  BY DEF Claim
<1>3. /\ o \in Origins /\ o \in DOMAIN d.origins /\ origins[o] \in Settings
      /\ d.origins[o].currentOutstandingDebt = origins[o].outstandingDebt
      /\ d.pool.outstandingDebt = outstandingDebt
      /\ outstandingDebt \in Nat /\ origins[o].outstandingDebt \in Nat
      /\ origins[o].proxyBridge \in Proxies
      /\ origins[o].outstandingDebt <= outstandingDebt
  BY <1>1, <1>2, LastRow
<1>4. waiting \in [Proxies -> Nat] /\ feesCharged \in Nat /\ messages \subseteq Messages
      /\ pendingBridgeFees \in Nat /\ ChainOK
  BY DEF TablesInv, ChainOK
<1>5. PICK p \in Proxies : p = origins[o].proxyBridge
  BY <1>3
<1>6. PICK amount : amount = ToClaim(o) /\ amount = Claimed(waiting[p], origins[o].outstandingDebt)
  BY <1>5 DEF ToClaim
<1>7. amount \in Nat /\ amount <= waiting[p] /\ amount <= origins[o].outstandingDebt
  <2>1. waiting[p] \in Nat /\ origins[o].outstandingDebt \in Nat
    BY <1>3, <1>4
  <2>2. /\ Claimed(waiting[p], origins[o].outstandingDebt) \in Nat
        /\ Claimed(waiting[p], origins[o].outstandingDebt) <= waiting[p]
        /\ Claimed(waiting[p], origins[o].outstandingDebt) <= origins[o].outstandingDebt
    BY <2>1, ClaimedType
  <2>3. QED
    BY <1>6, <2>2
<1>8. PICK debt : debt = origins[o].outstandingDebt - amount
  OBVIOUS
<1>9. PICK total : total = outstandingDebt - amount
  OBVIOUS
<1>10. debt \in Nat /\ total \in Nat
  BY <1>3, <1>7, <1>8, <1>9
<1>11. /\ origins' = [origins EXCEPT ![o].outstandingDebt = debt]
       /\ origins'[o].outstandingDebt = debt
       /\ outstandingDebt' = total
       /\ waiting' = [waiting EXCEPT ![p] = @ - amount]
       /\ UNCHANGED <<messages, feesCharged, arrived>>
       /\ pendingBridgeFees' = pendingBridgeFees - ToRelease(o) /\ ToRelease(o) <= pendingBridgeFees
       /\ Emit(<<DebtChanged(o, origins'[o].outstandingDebt, outstandingDebt')>>)
  BY <1>2, <1>3, <1>5, <1>6, <1>8, <1>9 DEF Claim, Settings
<1>12. PICK x : x = DebtChanged(o, debt, total)
  OBVIOUS
<1>13. x \in Event /\ Emit(<<x>>)
  BY <1>3, <1>10, <1>11, <1>12, DebtEventType
<1>14. PICK c : c = Indexed(d, x)
  OBVIOUS
<1>15. total = d.pool.outstandingDebt - d.origins[o].currentOutstandingDebt + debt
  BY <1>3, <1>7, <1>8, <1>9
<1>16. /\ TablesOK(c) /\ Balanced(c)
       /\ c.pool.totalBridgeFees = d.pool.totalBridgeFees
       /\ c.pool.outstandingDebt = total
       /\ c.origins = [d.origins EXCEPT ![o].currentOutstandingDebt = debt]
  <2>1. TablesOK(d) /\ Balanced(d) /\ c = Indexed(d, DebtChanged(o, debt, total))
    BY <1>1, <1>12, <1>14 DEF Good
  <2>2. QED
    BY <1>3, <1>10, <1>15, <2>1, DebtChangedEvent
<1>17. UpToDate(c, outstandingDebt', origins')
  BY <1>1, <1>2, <1>10, <1>11, <1>16, DebtsUpToDate DEF Good, TablesInv, ChainOK
<1>18. Good(c, feesCharged')
  BY <1>1, <1>11, <1>16 DEF Good
<1>19. waiting' \in [Proxies -> Nat]
  BY <1>4, <1>7, <1>11, WaitingLess
<1>20. ChainOK'
  <2>1. ToRelease(o) \in Nat
    <3>1. origins[o].bridgeFee \in Nat
      BY <1>3 DEF Settings
    <3>2. FeeOf(amount, origins[o].bridgeFee) \in Nat
      BY <1>7, <3>1, FeeOfBps DEF FeeOf
    <3>3. QED
      BY <1>6, <3>2 DEF ToRelease
  <2>2. pendingBridgeFees' \in Nat
    BY <1>4, <1>11, <2>1
  <2>3. QED
    BY <1>2, <1>4, <1>10, <1>11, <1>19, <2>2, DebtKeepsChainOK
<1>21. feesCharged <= feesCharged'
  BY <1>4, <1>11
<1>22. QED
  BY <1>1, <1>13, <1>14, <1>17, <1>18, <1>20, <1>21, OneEventKeepsTables

LEMMA ProcessFailedHandlerKeepsTables ==
  ASSUME TablesInv, db' = db, NEW m \in Messages, ProcessFailedHandler(m)
  PROVE  TablesInv'
<1>1. PICK d : /\ d = Replayed(Len(log))
               /\ Good(d, feesCharged)
               /\ UpToDate(d, outstandingDebt, origins)
  BY LastTables
<1>2. PICK o : o = From[m]
  OBVIOUS
<1>3. PICK loan \in Nat : loan = Amount[m]
  BY OriginIndexerAssumption
<1>4. o \in DOMAIN origins
  BY <1>2 DEF ProcessFailedHandler
<1>5. /\ o \in Origins /\ o \in DOMAIN d.origins /\ origins[o] \in Settings
      /\ d.origins[o].currentOutstandingDebt = origins[o].outstandingDebt
      /\ d.pool.outstandingDebt = outstandingDebt
      /\ outstandingDebt \in Nat /\ origins[o].outstandingDebt \in Nat
      /\ origins[o].proxyBridge \in Proxies
      /\ origins[o].outstandingDebt <= outstandingDebt
  BY <1>1, <1>4, LastRow
<1>6. /\ waiting \in [Proxies -> Nat] /\ feesCharged \in Nat /\ pendingBridgeFees \in Nat
      /\ messages \subseteq Messages /\ ChainOK
  BY DEF TablesInv, ChainOK
<1>7. PICK p \in Proxies : p = origins[o].proxyBridge
  BY <1>5
<1>8. PICK high : high = origins[o].outstandingDebt + loan
  OBVIOUS
<1>9. PICK amount : amount = Claimed(waiting[p], high)
  OBVIOUS
<1>10. high \in Nat /\ amount \in Nat /\ amount <= waiting[p] /\ amount <= high
  <2>1. high \in Nat
    BY <1>3, <1>5, <1>8
  <2>2. QED
    BY <1>6, <1>9, <2>1, ClaimedType
<1>11. PICK debt : debt = high - amount
  OBVIOUS
<1>12. PICK risen : risen = outstandingDebt + loan
  OBVIOUS
<1>13. PICK total : total = outstandingDebt + loan - amount
  OBVIOUS
<1>14. debt \in Nat /\ risen \in Nat /\ total \in Nat
  BY <1>3, <1>5, <1>8, <1>10, <1>11, <1>12, <1>13
<1>15. /\ origins' = [origins EXCEPT ![o].outstandingDebt = debt]
       /\ outstandingDebt' = total
       /\ waiting' = [waiting EXCEPT ![p] = @ - amount]
       /\ messages' = messages \cup {m}
       /\ UNCHANGED <<feeVars, arrived>>
       /\ Emit(<<DebtChanged(o, high, risen), DebtChanged(o, debt, total)>>)
  BY <1>2, <1>3, <1>7, <1>8, <1>9, <1>11, <1>12, <1>13 DEF ProcessFailedHandler
<1>16. PICK x : x = DebtChanged(o, high, risen)
  OBVIOUS
<1>17. PICK y : y = DebtChanged(o, debt, total)
  OBVIOUS
<1>18. x \in Event /\ y \in Event /\ Emit(<<x, y>>)
  BY <1>5, <1>10, <1>14, <1>15, <1>16, <1>17, DebtEventType
<1>19. PICK b : b = Indexed(d, x)
  OBVIOUS
<1>20. risen = d.pool.outstandingDebt - d.origins[o].currentOutstandingDebt + high
  BY <1>3, <1>5, <1>8, <1>12
<1>21. /\ TablesOK(b) /\ Balanced(b)
       /\ b.pool.totalBridgeFees = d.pool.totalBridgeFees
       /\ b.pool.outstandingDebt = risen
       /\ b.origins = [d.origins EXCEPT ![o].currentOutstandingDebt = high]
  <2>1. TablesOK(d) /\ Balanced(d) /\ b = Indexed(d, DebtChanged(o, high, risen))
    BY <1>1, <1>16, <1>19 DEF Good
  <2>2. QED
    BY <1>5, <1>10, <1>14, <1>20, <2>1, DebtChangedEvent
<1>22. PICK pool : pool = [origins EXCEPT ![o].outstandingDebt = high]
  OBVIOUS
<1>23. UpToDate(b, risen, pool)
  BY <1>1, <1>4, <1>10, <1>21, <1>22, DebtsUpToDate DEF Good, TablesInv, ChainOK
<1>24. /\ o \in DOMAIN b.origins /\ b.origins[o].currentOutstandingDebt = high
       /\ DOMAIN pool = DOMAIN origins
       /\ \A z \in DOMAIN pool : pool[z] \in Settings
  <2>1. o \in DOMAIN b.origins /\ DOMAIN pool = DOMAIN origins
    BY <1>5, <1>21, <1>22
  <2>2. b.origins[o].currentOutstandingDebt = high
    BY <1>1, <1>5, <1>21 DEF Good, TablesOK, Row
  <2>3. \A z \in DOMAIN pool : pool[z] \in Settings
    BY <1>6, <1>10, <1>22 DEF ChainOK, Settings
  <2>4. QED
    BY <2>1, <2>2, <2>3
<1>25. PICK c : c = Indexed(b, y)
  OBVIOUS
<1>26. total = b.pool.outstandingDebt - b.origins[o].currentOutstandingDebt + debt
  BY <1>3, <1>5, <1>10, <1>11, <1>12, <1>13, <1>21, <1>24
<1>27. /\ TablesOK(c) /\ Balanced(c)
       /\ c.pool.totalBridgeFees = b.pool.totalBridgeFees
       /\ c.pool.outstandingDebt = total
       /\ c.origins = [b.origins EXCEPT ![o].currentOutstandingDebt = debt]
  <2>1. c = Indexed(b, DebtChanged(o, debt, total))
    BY <1>17, <1>25
  <2>2. TablesOK(b) /\ Balanced(b) /\ o \in DOMAIN b.origins /\ debt \in Nat /\ total \in Nat
    BY <1>14, <1>21, <1>24
  <2>3. QED
    BY <1>26, <2>1, <2>2, DebtChangedEvent
<1>28. UpToDate(c, total, [pool EXCEPT ![o].outstandingDebt = debt])
  BY <1>4, <1>14, <1>21, <1>23, <1>24, <1>27, DebtsUpToDate
<1>29. [pool EXCEPT ![o].outstandingDebt = debt] = origins'
  BY <1>5, <1>15, <1>22 DEF Settings
<1>30. UpToDate(c, outstandingDebt', origins')
  BY <1>15, <1>28, <1>29
<1>31. Good(b, feesCharged') /\ Good(c, feesCharged')
  BY <1>1, <1>15, <1>21, <1>27 DEF Good, feeVars
<1>32. ChainOK'
  <2>1. waiting' \in [Proxies -> Nat]
    BY <1>6, <1>10, <1>15, WaitingLess
  <2>2. pendingBridgeFees' \in Nat /\ feesCharged' \in Nat
    BY <1>6, <1>15 DEF feeVars
  <2>3. QED
    BY <1>4, <1>6, <1>14, <1>15, <2>1, <2>2, DebtKeepsChainOK
<1>33. feesCharged <= feesCharged'
  BY <1>6, <1>15 DEF feeVars
<1>34. QED
  BY <1>1, <1>18, <1>19, <1>25, <1>30, <1>31, <1>32, <1>33, TwoEventsKeepTables

LEMMA ArriveKeepsTables ==
  ASSUME TablesInv, db' = db, NEW m \in Messages, Arrive(m)
  PROVE  TablesInv'
<1>1. UNCHANGED <<origins, outstandingDebt, messages, pendingBridgeFees, feesCharged, log, db>>
  BY DEF Arrive, feeVars
<1>2. Destination[From[m]] \in Proxies /\ Amount[m] \in Nat
  BY OriginIndexerAssumption
<1>3. waiting' \in [Proxies -> Nat] /\ arrived' \subseteq Messages
  BY <1>2 DEF Arrive, TablesInv, ChainOK
<1>4. ChainOK'
  BY <1>1, <1>3 DEF TablesInv, ChainOK
<1>5. QED
  BY <1>1, <1>4 DEF TablesInv, Replayed

LEMMA StepKeepsTables ==
  ASSUME TablesInv, [Next]_vars
  PROVE  TablesInv'
<1>1. CASE UNCHANGED <<poolVars, log, db>>
  BY <1>1 DEF TablesInv, ChainOK, Replayed, poolVars, feeVars
<1>2. CASE PoolStep
  <2>1. db' = db
    BY <1>2 DEF PoolStep
  <2>2. ASSUME NEW o \in Origins, OwnerStep(o) \/ Claim(o) PROVE TablesInv'
    <3>1. ASSUME NEW limit \in Limits, NEW fee \in Fees, NEW proxy \in Configured[o],
                 AddOrigin(o, limit, fee, proxy)
          PROVE  TablesInv'
      <4>1. limit \in Nat /\ fee \in Nat /\ proxy \in Proxies
        BY OriginIndexerAssumption
      <4>2. QED
        BY <2>1, <3>1, <4>1, AddOriginKeepsTables
    <3>2. QED
      BY <2>1, <2>2, <3>1, DisableOriginKeepsTables, ClaimKeepsTables DEF OwnerStep
  <2>3. ASSUME NEW m \in Messages, Handle(m) \/ ProcessFailedHandler(m) \/ Arrive(m)
        PROVE  TablesInv'
    BY <2>1, <2>3, HandleKeepsTables, ProcessFailedHandlerKeepsTables, ArriveKeepsTables
  <2>4. QED
    BY <1>2, <2>2, <2>3 DEF PoolStep
<1>3. CASE Index
  BY <1>3, IndexKeepsTables
<1>4. CASE JobStep
  <2>1. ASSUME NEW o \in Origins, RelayClaim(o) PROVE TablesInv'
    BY <2>1, ClaimKeepsTables DEF RelayClaim
  <2>2. QED
    BY <1>1, <1>4, <2>1 DEF JobStep, ReadOrigins, AbortRun, CheckOrigin, DropClaim
<1>5. QED
  BY <1>1, <1>2, <1>3, <1>4 DEF Next, vars

LEMMA TablesStart == Init => TablesInv
<1> SUFFICES ASSUME Init PROVE TablesInv
  OBVIOUS
<1>1. log \in Seq(Event) /\ Len(log) = 0
  BY DEF Init
<1>2. Replayed(0) = db
  BY AfterNone DEF Replayed
<1>3. DOMAIN origins = {} /\ origins \in [DOMAIN origins -> Settings]
  BY DEF Init
<1>4. ChainOK
  BY <1>3 DEF Init, ChainOK
<1>5. /\ db = [pool |-> db.pool, origins |-> db.origins]
      /\ db.pool = [outstandingDebt |-> 0, totalBridgeFees |-> 0]
      /\ DOMAIN db.origins = {} /\ db.origins \in [DOMAIN db.origins -> Row]
  BY DEF Init
<1>6. TablesOK(db)
  BY <1>5 DEF TablesOK
<1>7. Balanced(db)
  <2>1. \A y \in {} : [o \in DOMAIN db.origins |-> db.origins[o].currentOutstandingDebt][y] = 0
    OBVIOUS
  <2>2. QED
    BY <1>5, <2>1, SumOverZero DEF Balanced
<1>8. db.pool.totalBridgeFees <= feesCharged /\ UpToDate(db, outstandingDebt, origins)
  BY <1>3, <1>5 DEF Init, UpToDate
<1>9. QED
  BY <1>1, <1>2, <1>4, <1>6, <1>7, <1>8 DEF TablesInv

LEMMA TablesInvariant == Spec => []TablesInv
<1>1. TablesInv /\ [Next]_vars => TablesInv'
  BY StepKeepsTables
<1>2. QED
  BY <1>1, TablesStart, PTL DEF Spec

\* The tables there are.
LEMMA FirstTables ==
  ASSUME TablesInv
  PROVE  Good(db, feesCharged)
<1>1. 0 \in 0 .. Len(log)
  BY DEF TablesInv
<1>2. Replayed(0) = db
  BY AfterNone DEF Replayed
<1>3. QED
  BY <1>1, <1>2 DEF TablesInv, Good

\* The job has read origins of the tables, and requests are about those.
JobInv ==
  /\ \A x \in todo : x.origin \in Origins
  /\ requests \subseteq Origins

LEMMA StepKeepsJob ==
  ASSUME TablesInv, JobInv, [Next]_vars
  PROVE  JobInv'
<1>1. CASE UNCHANGED <<todo, requests>>
  BY <1>1 DEF JobInv
<1>2. CASE ReadOrigins
  <2>1. DOMAIN db.origins \subseteq Origins
    BY FirstTables DEF Good, TablesOK
  <2>2. QED
    BY <1>2, <2>1 DEF ReadOrigins, JobInv
<1>3. ASSUME NEW x \in todo, CheckOrigin(x) PROVE JobInv'
  BY <1>3 DEF CheckOrigin, JobInv
<1>4. QED
  BY <1>1, <1>2, <1>3 DEF Next, PoolStep, Index, JobStep, AbortRun, RelayClaim, DropClaim,
       vars, jobVars, JobInv

\* The tables and the pool keep their types: no debt and no balance is ever
\* negative, because a claim takes no more than waits and than is owed, and
\* the pool owes at least what each of its origins does.
THEOREM OriginIndexerTypes == Spec => []OriginIndexerTypeOK
<1>1. TablesInv /\ JobInv => OriginIndexerTypeOK
  BY FirstTables DEF TablesInv, ChainOK, JobInv, Good, TablesOK, OriginIndexerTypeOK
<1>2. Init => JobInv
  BY DEF Init, JobInv
<1>3. TablesInv /\ JobInv /\ [Next]_vars => JobInv'
  BY StepKeepsJob
<1>4. QED
  BY <1>1, <1>2, <1>3, TablesInvariant, PTL DEF Spec

\* The fees in the table never exceed those charged: the basis points of an
\* origin are rounded down, and the row of a loan has, when the loan is indexed,
\* the rate the loan was made at.
THEOREM FeesNotOverstated == Spec => []FeesAreNotOverstated
<1>1. TablesInv => FeesAreNotOverstated
  BY FirstTables DEF Good, FeesAreNotOverstated
<1>2. QED
  BY <1>1, TablesInvariant, PTL

\* However far the indexer is behind, and between the events of a transaction
\* too, the debt of the pool is the sum over its origins: the sum over those the
\* check asks about differs from it exactly when a disabled one has a debt.
THEOREM DebtCheckExact == Spec => []DebtCheckReportsDisabled
<1>1. ASSUME TablesInv PROVE DebtCheckReportsDisabled
  <2> DEFINE S == DOMAIN db.origins
             T == {o \in S : db.origins[o].maxDebt > 0}
             f == [o \in S |-> db.origins[o].currentOutstandingDebt]
  <2>1. TablesOK(db) /\ db.pool.outstandingDebt = SumOver(f, S)
    BY <1>1, FirstTables DEF Good, Balanced
  <2>2. IsFiniteSet(S) /\ T \subseteq S /\ \A o \in S : f[o] \in Nat
    BY <2>1, DebtsType DEF Debts
  <2> HIDE DEF S, T, f
  <2>3. ASSUME NEW x \in S \ T, f[x] > 0 PROVE SumOver(f, S) # SumOver(f, T)
    <3>1. IsFiniteSet(S \ {x}) /\ T \subseteq S \ {x}
      BY <2>2, FS_RemoveElement
    <3>2. SumOver(f, T) <= SumOver(f, S \ {x})
      BY <2>2, <3>1, SumOverSubset
    <3>3. SumOver(f, S) = SumOver(f, S \ {x}) + f[x]
      BY <2>2, SumOverSplit
    <3>4. IsFiniteSet(T) /\ SumOver(f, T) \in Nat /\ SumOver(f, S \ {x}) \in Nat
      <4>1. IsFiniteSet(T)
        BY <2>2, FS_Subset
      <4>2. QED
        BY <2>2, <3>1, <4>1, SumOverType
    <3>5. QED
      BY <2>2, <2>3, <3>2, <3>3, <3>4
  <2>4. ASSUME \A x \in S \ T : ~ (f[x] > 0) PROVE SumOver(f, S) = SumOver(f, T)
    <3>1. \A x \in S \ T : f[x] = 0
      BY <2>2, <2>4
    <3>2. QED
      BY <2>2, <3>1, SumOverSupport
  <2>5. QED
    BY <2>1, <2>3, <2>4 DEF DebtCheckReportsDisabled, S, T, f
<1>2. QED
  BY <1>1, TablesInvariant, PTL

-----------------------------------------------------------------------------
(* The tables mirror the contract *)

Truth(total, pool) ==
  [debt |-> total,
   origins |-> [o \in DOMAIN pool |-> <<pool[o].maxDebt, pool[o].outstandingDebt>>]]

Pending(d, events) == [n \in 1 .. Len(events) |-> Shown(After(d, events, n))]

LEMMA ShownTruth ==
  ASSUME NEW d, NEW total, NEW pool, UpToDate(d, total, pool)
  PROVE  Shown(d) = Truth(total, pool)
BY DEF UpToDate, Shown, Truth

LEMMA PrefixOf ==
  ASSUME NEW S, NEW s \in Seq(S), NEW t \in Seq(S), Len(s) <= Len(t),
         \A i \in 1 .. Len(s) : s[i] = t[i]
  PROVE  IsPrefix(s, t)
<1>1. Len(s) \in Nat /\ Len(t) \in Nat
  OBVIOUS
<1>2. SubSeq(s, 1, Len(s)) = SubSeq(t, 1, Len(s))
  BY <1>1
<1>3. QED
  BY <1>2 DEF IsPrefix

LEMMA PendingSeq ==
  ASSUME NEW d, NEW S, NEW events \in Seq(S)
  PROVE  /\ Len(Pending(d, events)) = Len(events)
         /\ Pending(d, events) \in Seq(Range(Pending(d, events)))
         /\ \A n \in 1 .. Len(events) : Pending(d, events)[n] = Shown(After(d, events, n))
<1>1. Len(events) \in Nat /\ DOMAIN Pending(d, events) = 1 .. Len(events)
  BY DEF Pending
<1>2. QED
  BY <1>1 DEF Pending, Range

\* A transaction appends its events.
Grows == Len(log') > Len(log) /\ \A i \in 1 .. Len(log) : log'[i] = log[i]

LEMMA EmitGrows ==
  ASSUME log \in Seq(Event), NEW x, NEW y, Emit(<<x>>) \/ Emit(<<x, y>>)
  PROVE  Grows
<1>1. PICK S : log \in Seq(S) /\ x \in S /\ y \in S
  <2>1. log \in Seq(Event \cup {x, y})
    OBVIOUS
  <2>2. QED
    BY <2>1
<1>2. CASE Emit(<<x>>)
  BY <1>1, <1>2 DEF Emit, Grows
<1>3. CASE Emit(<<x, y>>)
  BY <1>1, <1>3 DEF Emit, Grows
<1>4. QED
  BY <1>2, <1>3

LEMMA PoolEmits ==
  ASSUME log \in Seq(Event),
         NEW o, NEW m, NEW limit, NEW fee, NEW proxy,
         \/ AddOrigin(o, limit, fee, proxy) \/ DisableOrigin(o) \/ Claim(o)
         \/ Handle(m) \/ ProcessFailedHandler(m) \/ Arrive(m)
  PROVE  Grows \/ UNCHANGED <<origins, outstandingDebt, log>>
<1>1. CASE AddOrigin(o, limit, fee, proxy)
  BY <1>1, EmitGrows DEF AddOrigin
<1>2. CASE DisableOrigin(o)
  BY <1>2, EmitGrows DEF DisableOrigin
<1>3. CASE Claim(o)
  BY <1>3, EmitGrows DEF Claim
<1>4. CASE Handle(m)
  BY <1>4, EmitGrows DEF Handle
<1>5. CASE ProcessFailedHandler(m)
  BY <1>5, EmitGrows DEF ProcessFailedHandler
<1>6. CASE Arrive(m)
  BY <1>6 DEF Arrive
<1>7. QED
  BY <1>1, <1>2, <1>3, <1>4, <1>5, <1>6

LEMMA MirrorState ==
  /\ Mirror!Change <=>
       /\ Pending(db, log)' # Pending(db, log)
       /\ IsPrefix(Pending(db, log), Pending(db, log)')
       /\ Truth(outstandingDebt, origins)' = Last(Pending(db, log)')
       /\ UNCHANGED Shown(db)
  /\ Mirror!Follow <=>
       /\ Pending(db, log) # <<>>
       /\ Shown(db)' = Head(Pending(db, log))
       /\ Pending(db, log)' = Tail(Pending(db, log))
       /\ UNCHANGED Truth(outstandingDebt, origins)
  /\ Mirror!MirrorInit <=>
       Shown(db) = Truth(outstandingDebt, origins) /\ Pending(db, log) = <<>>
<1>1. Mirror!Change <=>
       /\ Pending(db, log)' # Pending(db, log)
       /\ IsPrefix(Pending(db, log), Pending(db, log)')
       /\ Truth(outstandingDebt, origins)' = Last(Pending(db, log)')
       /\ UNCHANGED Shown(db)
  BY DEF Mirror!Change, Mirror!IsPrefix, IsPrefix, Mirror!Last, Last, Truth, Pending, Replayed
<1>2. Mirror!Follow <=>
       /\ Pending(db, log) # <<>>
       /\ Shown(db)' = Head(Pending(db, log))
       /\ Pending(db, log)' = Tail(Pending(db, log))
       /\ UNCHANGED Truth(outstandingDebt, origins)
  BY DEF Mirror!Follow, Truth, Pending, Replayed
<1>3. Mirror!MirrorInit <=>
       Shown(db) = Truth(outstandingDebt, origins) /\ Pending(db, log) = <<>>
  BY DEF Mirror!MirrorInit, Truth, Pending, Replayed
<1>4. QED
  BY <1>1, <1>2, <1>3

LEMMA PoolMirrors ==
  ASSUME TablesInv, TablesInv', db' = db, Grows
  PROVE  Mirror!Change
<1>1. PICK n \in Nat : n = Len(log)
  BY DEF TablesInv
<1>2. PICK last \in Nat : last = Len(log') /\ last > n
  BY <1>1 DEF TablesInv, Grows
<1>3. PICK r : r = Pending(db, log)
  OBVIOUS
<1>4. PICK s : s = Pending(db', log')
  OBVIOUS
<1>5. Len(r) = n /\ r \in Seq(Range(r)) /\ \A i \in 1 .. n : r[i] = Shown(After(db, log, i))
  BY <1>1, <1>3, PendingSeq DEF TablesInv
<1>6. Len(s) = last /\ s \in Seq(Range(s)) /\ \A i \in 1 .. last : s[i] = Shown(After(db', log', i))
  BY <1>2, <1>4, PendingSeq DEF TablesInv
<1>7. ASSUME NEW i \in 1 .. n PROVE r[i] = s[i]
  <2>1. i \in Nat /\ \A j \in 1 .. i : log'[j] = log[j]
    BY <1>1 DEF Grows
  <2>2. After(db, log', i) = After(db, log, i)
    BY <2>1, AfterSame
  <2>3. i \in 1 .. last
    BY <1>2
  <2>4. QED
    BY <1>5, <1>6, <2>2, <2>3
<1>8. IsPrefix(r, s)
  <2> DEFINE S == Range(r) \cup Range(s)
  <2>1. r \in Seq(S) /\ s \in Seq(S)
    BY <1>5, <1>6
  <2> HIDE DEF S
  <2>2. QED
    BY <1>2, <1>5, <1>6, <1>7, <2>1, PrefixOf
<1>9. s # r
  BY <1>2, <1>5, <1>6
<1>10. Last(s) = Truth(outstandingDebt', origins')
  <2>1. Last(s) = Shown(After(db', log', last))
    BY <1>2, <1>6 DEF Last
  <2>2. UpToDate(After(db', log', last), outstandingDebt', origins')
    BY <1>2 DEF TablesInv, Replayed
  <2>3. QED
    BY <2>1, <2>2, ShownTruth
<1>11. QED
  BY <1>3, <1>4, <1>8, <1>9, <1>10, MirrorState

LEMMA IndexMirrors ==
  ASSUME TablesInv, Index
  PROVE  Mirror!Follow
<1>1. /\ Len(log) \in Nat /\ Len(log') = Len(log) - 1 /\ Len(log') \in Nat
      /\ log' \in Seq(Event)
      /\ \A i \in 0 .. Len(log') : After(db', log', i) = After(db, log, i + 1)
  BY IndexReplays DEF TablesInv, Replayed
<1>2. PICK n \in Nat : n = Len(log')
  BY <1>1
<1>3. PICK r : r = Pending(db, log)
  OBVIOUS
<1>4. PICK s : s = Pending(db', log')
  OBVIOUS
<1>5. /\ Len(r) = n + 1 /\ r \in Seq(Range(r))
      /\ \A i \in 1 .. n + 1 : r[i] = Shown(After(db, log, i))
  BY <1>1, <1>2, <1>3, PendingSeq DEF TablesInv
<1>6. Len(s) = n /\ s \in Seq(Range(s)) /\ \A i \in 1 .. n : s[i] = Shown(After(db', log', i))
  BY <1>1, <1>2, <1>4, PendingSeq
<1>7. r # <<>> /\ Head(r) = r[1]
  BY <1>5
<1>8. Shown(db') = r[1]
  <2>1. After(db', log', 0) = After(db, log, 1)
    BY <1>1
  <2>2. After(db', log', 0) = db'
    BY AfterNone
  <2>3. QED
    BY <1>5, <2>1, <2>2
<1>9. s = Tail(r)
  <2>1. Len(Tail(r)) = n /\ \A i \in 1 .. n : Tail(r)[i] = r[i + 1]
    BY <1>5, <1>7
  <2>2. ASSUME NEW i \in 1 .. n PROVE s[i] = r[i + 1]
    <3>1. After(db', log', i) = After(db, log, i + 1)
      BY <1>1, <1>2
    <3>2. i + 1 \in 1 .. n + 1
      OBVIOUS
    <3>3. QED
      BY <1>5, <1>6, <3>1, <3>2
  <2>3. Tail(r) \in Seq(Range(r))
    BY <1>5, <1>7
  <2>4. QED
    BY <1>6, <2>1, <2>2, <2>3
<1>10. UNCHANGED <<origins, outstandingDebt>>
  BY DEF Index, poolVars
<1>11. QED
  BY <1>3, <1>4, <1>7, <1>8, <1>9, <1>10, MirrorState

LEMMA StepMirrors ==
  ASSUME TablesInv, TablesInv', [Next]_vars
  PROVE  [Mirror!Change \/ Mirror!Follow]_(Mirror!mirrorVars)
<1>1. CASE UNCHANGED <<origins, outstandingDebt, log, db>>
  BY <1>1 DEF Mirror!mirrorVars, Replayed
<1>2. ASSUME db' = db, Grows \/ UNCHANGED <<origins, outstandingDebt, log>>
      PROVE  [Mirror!Change \/ Mirror!Follow]_(Mirror!mirrorVars)
  BY <1>1, <1>2, PoolMirrors
<1>3. CASE PoolStep
  <2>1. db' = db /\ log \in Seq(Event)
    BY <1>3 DEF PoolStep, TablesInv
  <2>2. Grows \/ UNCHANGED <<origins, outstandingDebt, log>>
    BY <1>3, <2>1, PoolEmits DEF PoolStep, OwnerStep
  <2>3. QED
    BY <1>2, <2>1, <2>2
<1>4. CASE Index
  BY <1>4, IndexMirrors
<1>5. CASE JobStep
  <2>1. ASSUME NEW o \in Origins, RelayClaim(o)
        PROVE  db' = db /\ (Grows \/ UNCHANGED <<origins, outstandingDebt, log>>)
    BY <2>1, PoolEmits DEF RelayClaim, TablesInv
  <2>2. QED
    BY <1>1, <1>2, <1>5, <2>1 DEF JobStep, ReadOrigins, AbortRun, CheckOrigin, DropClaim, poolVars
<1>6. QED
  BY <1>1, <1>3, <1>4, <1>5 DEF Next, vars, poolVars

LEMMA MirrorStart == Init => Mirror!MirrorInit
<1> SUFFICES ASSUME Init PROVE Mirror!MirrorInit
  OBVIOUS
<1>1. TablesInv
  BY TablesStart
<1>2. log = <<>> /\ Len(log) = 0
  BY DEF Init
<1>3. Pending(db, log) = <<>>
  BY <1>2 DEF Pending
<1>4. Replayed(0) = db
  BY AfterNone DEF Replayed
<1>5. UpToDate(db, outstandingDebt, origins)
  BY <1>1, <1>2, <1>4 DEF TablesInv
<1>6. QED
  BY <1>3, <1>5, ShownTruth, MirrorState

\* Debts and limits in the tables are those the contract went through, one
\* after the other: a transaction extends what is pending, its last table is
\* the state of the contract, and an indexed event shows the next one.
THEOREM TablesImplementMirror == Spec => ImplementsMirror
<1>1. TablesInv /\ TablesInv' /\ [Next]_vars
        => [Mirror!Change \/ Mirror!Follow]_(Mirror!mirrorVars)
  BY StepMirrors
<1>2. QED
  BY <1>1, MirrorStart, TablesInvariant, PTL DEF Spec, ImplementsMirror, Mirror!MirrorSpec

\* What holds of Spec holds of the two specifications that are run: the indexer
\* without the job, and all of it under fairness.
LEMMA RunsAreOfSpec == (IndexSpec => Spec) /\ (FairSpec => Spec)
<1>1. [PoolStep \/ Index]_vars => [Next]_vars
  BY DEF Next
<1>2. IndexSpec => Spec
  BY <1>1, PTL DEF IndexSpec, Spec
<1>3. FairSpec => Spec
  BY PTL DEF FairSpec
<1>4. QED
  BY <1>2, <1>3

=============================================================================
