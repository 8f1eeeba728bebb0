---------------------------- MODULE ServerProofs ----------------------------
(***************************************************************************)
(* Proofs about Server and ServerLifecycle for any set of requests, any    *)
(* bodies and any limits.  ShutdownInv follows runHTTPServer: a result nil *)
(* is returned only through a shutdown that found no handler at work, and  *)
(* none begins after it.  RowsInv and TimeInv say what the results of a    *)
(* batch and the time it had to wait amount to so far.                     *)
(***************************************************************************)
EXTENDS Server, TLAPS

NothingCut == \A r \in Requests : requests[r] # "cut"
NothingActive == \A r \in Requests : requests[r] # "active"

ShutdownInv ==
  /\ inShutdown => main \notin {"select", "call"}
  /\ main \in {"shutdown", "close", "receive"} => inShutdown
  /\ serveErrors = "closed" => inShutdown
  /\ main \in {"select", "call", "shutdown"} => NothingCut /\ shutdownErr = "none"
  /\ main = "close" => shutdownErr # "none"
  /\ main = "receive" /\ shutdownErr = "none" => NothingCut /\ NothingActive
  /\ main \in {"returned", "exited"} /\ result = "nil" => inShutdown /\ NothingCut /\ NothingActive

(* One result for every row so far, of its kind; a batch that is read had  *)
(* a client all the time.                                                  *)
BatchInv(r) ==
  /\ Len(results[r]) <= Len(body[r].rows) /\ Len(results[r]) <= MaxStops
  /\ requests[r] = "absent" => results[r] = <<>>
  /\ \A i \in 1..Len(results[r]) :
       /\ results[r][i] = "empty" <=> body[r].rows[i] = "blank"
       /\ connected[r] => results[r][i] # "canceled"
  /\ requests[r] \in {"answered", "late"} => connected[r]
  /\ status[r] = "200 OK" => Len(results[r]) = Len(body[r].rows)

RowsInv == \A r \in Requests : BatchInv(r)

(* Alone, a batch waits for its body and one turn for each of its rows. *)
Alone(r) == \A q \in Requests \ {r} : results[q] = <<>>

TimeInv ==
  \A r \in Requests : Alone(r) => elapsed[r] <= ReadTimeout + Len(results[r]) * TurnTime

SInv == ServerTypeOK /\ ShutdownInv /\ RowsInv /\ TimeInv /\ LateOnlyBehindOthers

(* What results may hold, as a sequence. *)
LEMMA ResultsAreSeqs ==
  ASSUME NEW s
  PROVE  s \in UNION {[1..n -> RowResults] : n \in 0..MaxStops}
         <=> s \in Seq(RowResults) /\ Len(s) \in 0..MaxStops
<1>1. ASSUME s \in Seq(RowResults), Len(s) \in 0..MaxStops
      PROVE  s \in UNION {[1..n -> RowResults] : n \in 0..MaxStops}
  <2>1. s \in [1..Len(s) -> RowResults]
    BY <1>1
  <2> QED
    BY <1>1, <2>1
<1>2. ASSUME NEW n \in 0..MaxStops, s \in [1..n -> RowResults]
      PROVE  s \in Seq(RowResults) /\ Len(s) \in 0..MaxStops
  BY <1>2, LimitsAssumption
<1> QED
  BY <1>1, <1>2

LEMMA BatchTypes ==
  ASSUME ServerTypeOK, NEW r \in Requests
  PROVE  /\ MaxStops \in Nat /\ ReadTimeout \in Nat /\ WriteTimeout \in Nat /\ TurnTime \in Nat
         /\ body[r] \in Bodies
         /\ body[r].rows \in Seq({"address", "blank"}) /\ Len(body[r].rows) \in Nat
         /\ results[r] \in Seq(RowResults) /\ Len(results[r]) \in 0..MaxStops /\ Len(results[r]) \in Nat
         /\ DOMAIN results[r] = 1..Len(results[r])
         /\ elapsed[r] \in 0..WriteTimeout + 1 /\ elapsed[r] \in Nat
<1>1. MaxStops \in Nat /\ ReadTimeout \in Nat /\ WriteTimeout \in Nat /\ TurnTime \in Nat
  BY LimitsAssumption
<1>2. /\ body[r] \in Bodies
      /\ results[r] \in UNION {[1..m -> RowResults] : m \in 0..MaxStops}
      /\ elapsed[r] \in 0..WriteTimeout + 1
  BY DEF ServerTypeOK
<1>3. results[r] \in Seq(RowResults) /\ Len(results[r]) \in 0..MaxStops
  BY <1>2, ResultsAreSeqs
<1>4. body[r].rows \in Seq({"address", "blank"})
  BY <1>2, BodiesAssumption
<1>5. Len(body[r].rows) \in Nat
  BY <1>4
<1>6. Len(results[r]) \in Nat /\ DOMAIN results[r] = 1..Len(results[r]) /\ elapsed[r] \in Nat
  BY <1>1, <1>2, <1>3
<1> QED
  BY <1>1, <1>2, <1>3, <1>4, <1>5, <1>6

(* Every step of runHTTPServer, of the serve goroutine and of the signal   *)
(* keeps what is known of the shutdown and of the batches.                 *)
LEMMA ProcessStep == SInv /\ Process /\ UNCHANGED hvars => SInv'
<1> SUFFICES ASSUME SInv, Process, UNCHANGED hvars PROVE SInv'
  OBVIOUS
<1>a. /\ UNCHANGED <<body, connected, results, status, elapsed>>
      /\ \A r \in Requests : \/ requests'[r] = requests[r]
                             \/ requests[r] = "active" /\ requests'[r] = "cut"
  BY DEF hvars, Process, Main, SelectError, SelectSignal, CallShutdown, ShutdownReturns, ShutdownExpires,
         Close, Receive, Exit, Listen, ServeCloses, ServeBreaks, ServeReturns, Signal, CutOff, Active,
         SInv, ServerTypeOK, TypeOK
<1>b. RowsInv'
  <2> SUFFICES ASSUME NEW q \in Requests PROVE BatchInv(q)'
    BY DEF RowsInv
  <2>1. BatchInv(q)
    BY DEF SInv, RowsInv
  <2>2. \/ requests'[q] = requests[q]
        \/ requests'[q] = "cut"
    BY <1>a
  <2> QED
    BY <1>a, <2>1, <2>2 DEF BatchInv
<1>c. TimeInv'
  BY <1>a DEF SInv, TimeInv, Alone
<1>d. LateOnlyBehindOthers'
  BY <1>a DEF SInv, LateOnlyBehindOthers
<1>e. TypeOK /\ ShutdownInv
  BY DEF SInv, ServerTypeOK
<1>f. TypeOK' /\ ShutdownInv'
  <2> USE <1>e DEF TypeOK, ShutdownInv, NothingCut, NothingActive, Errors, Ends
  <2>1. CASE SelectError
    BY <2>1 DEF SelectError
  <2>2. CASE SelectSignal
    BY <2>2 DEF SelectSignal
  <2>3. CASE CallShutdown
    BY <2>3 DEF CallShutdown
  <2>4. CASE ShutdownReturns
    BY <2>4 DEF ShutdownReturns, Active
  <2>5. CASE ShutdownExpires
    BY <2>5 DEF ShutdownExpires, Active
  <2>6. CASE Close
    BY <2>6 DEF Close, CutOff, Active
  <2>7. CASE Receive
    BY <2>7 DEF Receive, Outcome
  <2>8. CASE Exit
    BY <2>8 DEF Exit, CutOff, Active
  <2>9. CASE Listen
    BY <2>9 DEF Listen
  <2>10. CASE ServeCloses
    BY <2>10 DEF ServeCloses, ServeReturns
  <2>11. CASE ServeBreaks
    BY <2>11 DEF ServeBreaks, ServeReturns
  <2>12. CASE Signal
    BY <2>12 DEF Signal
  <2> QED
    BY <2>1, <2>2, <2>3, <2>4, <2>5, <2>6, <2>7, <2>8, <2>9, <2>10, <2>11, <2>12 DEF Process, Main
<1>g. ServerTypeOK'
  BY <1>a, <1>f DEF SInv, ServerTypeOK, Ends
<1> QED
  BY <1>b, <1>c, <1>d, <1>f, <1>g DEF SInv

(* Handlers do not touch what belongs to the process. *)
LEMMA HandlersKeepShutdown ==
  ASSUME TypeOK, ShutdownInv, NEW r \in Requests, NEW end \in Ends, Accept(r) \/ HandlerReturns(r, end)
  PROVE  TypeOK' /\ ShutdownInv'
<1> USE DEF TypeOK, ShutdownInv, NothingCut, NothingActive, Errors, Ends
<1>1. CASE Accept(r)
  BY <1>1 DEF Accept
<1>2. CASE HandlerReturns(r, end)
  BY <1>2 DEF HandlerReturns
<1> QED
  BY <1>1, <1>2

LEMMA OneTurnMore ==
  ASSUME NEW t \in Nat, NEW u \in Nat, NEW n \in Nat, NEW a \in Nat, NEW b \in Nat,
         t <= a + n * b, u <= t + b
  PROVE  u <= a + (n + 1) * b
<1>1. (n + 1) * b = n * b + b /\ n * b \in Nat
  OBVIOUS
<1> QED
  BY <1>1

(* A batch is read row by row: what is recorded for the next row fits it,  *)
(* and everybody waits at most one turn more.                              *)
LEMMA RecordKeeps ==
  ASSUME SInv, NEW r \in Requests, NEW found \in RowResults, NEW kind \in {"blank", "address"},
         AtRow(r, kind), Record(r, found),
         found = "empty" <=> kind = "blank", found = "canceled" => ~connected[r],
         elapsed' \in [Requests -> 0..WriteTimeout + 1],
         elapsed'[r] <= elapsed[r] + TurnTime,
         UNCHANGED <<vars, body, connected, status>>
  PROVE  SInv'
<1> DEFINE n == Len(results[r])
<1>1. /\ results[r] \in Seq(RowResults) /\ n \in 0..MaxStops /\ n \in Nat
      /\ body[r].rows \in Seq({"address", "blank"}) /\ Len(body[r].rows) \in Nat
      /\ MaxStops \in Nat
  BY BatchTypes DEF SInv
<1>2. /\ Len(body[r].rows) \in 1..MaxStops /\ n + 1 \in 1..Len(body[r].rows)
      /\ body[r].rows[n + 1] = kind /\ requests[r] = "active"
  <2>1. /\ Len(body[r].rows) \in 1..MaxStops /\ requests[r] = "active"
        /\ n + 1 \in DOMAIN body[r].rows /\ body[r].rows[n + 1] = kind
    BY DEF AtRow, Refusal
  <2> QED
    BY <1>1, <2>1
<1>3. results' = [results EXCEPT ![r] = Append(results[r], found)]
  BY DEF Record
<1>4. /\ results'[r] = Append(results[r], found)
      /\ \A q \in Requests \ {r} : results'[q] = results[q]
  BY <1>3 DEF SInv, ServerTypeOK
<1>5. /\ Len(results'[r]) = n + 1 /\ results'[r][n + 1] = found
      /\ \A i \in 1..n : results'[r][i] = results[r][i]
      /\ results'[r] \in Seq(RowResults) /\ results'[r] # <<>>
  BY <1>1, <1>4
<1>6. ServerTypeOK' /\ ShutdownInv'
  <2>1. results'[r] \in UNION {[1..m -> RowResults] : m \in 0..MaxStops}
    <3>1. Len(results'[r]) \in 0..MaxStops
      BY <1>1, <1>2, <1>5, LimitsAssumption
    <3> QED
      BY <1>5, <3>1, ResultsAreSeqs
  <2>2. results' \in [Requests -> UNION {[1..m -> RowResults] : m \in 0..MaxStops}]
    BY <1>3, <1>4, <2>1 DEF SInv, ServerTypeOK
  <2>3. TypeOK' /\ ShutdownInv'
    BY DEF SInv, ServerTypeOK, TypeOK, ShutdownInv, NothingCut, NothingActive, vars
  <2> QED
    BY <2>2, <2>3 DEF SInv, ServerTypeOK, vars
<1>7. RowsInv'
  <2> SUFFICES ASSUME NEW q \in Requests PROVE BatchInv(q)'
    BY DEF RowsInv
  <2>1. BatchInv(q)
    BY DEF SInv, RowsInv
  <2>2. CASE q # r
    <3>1. results'[q] = results[q]
      BY <1>4, <2>2
    <3> QED
      BY <2>1, <3>1 DEF BatchInv, vars
  <2>3. CASE q = r
    <3>1. status[r] = "none"
      BY <1>2 DEF SInv, ServerTypeOK, Ends
    <3>2. ASSUME NEW i \in 1..n + 1
          PROVE  /\ results'[r][i] = "empty" <=> body[r].rows[i] = "blank"
                 /\ connected[r] => results'[r][i] # "canceled"
      <4>1. CASE i = n + 1
        BY <1>2, <1>5, <4>1
      <4>2. CASE i \in 1..n
        <5>1. results'[r][i] = results[r][i]
          BY <1>5, <4>2
        <5>2. /\ results[r][i] = "empty" <=> body[r].rows[i] = "blank"
              /\ connected[r] => results[r][i] # "canceled"
          BY <2>1, <2>3, <4>2 DEF BatchInv
        <5> QED
          BY <5>1, <5>2
      <4> QED
        BY <1>1, <4>1, <4>2
    <3>3. n + 1 <= Len(body[r].rows) /\ n + 1 <= MaxStops
      BY <1>1, <1>2
    <3> QED
      BY <1>2, <1>5, <2>3, <3>1, <3>2, <3>3 DEF BatchInv, vars
  <2> QED
    BY <2>2, <2>3
<1>8. TimeInv'
  <2> SUFFICES ASSUME NEW q \in Requests, Alone(q)'
               PROVE  elapsed'[q] <= ReadTimeout + Len(results'[q]) * TurnTime
    BY DEF TimeInv
  <2>1. q = r
    BY <1>5 DEF Alone
  <2>2. Alone(r)
    BY <1>4, <2>1 DEF Alone
  <2>3. elapsed[r] <= ReadTimeout + n * TurnTime
    BY <2>2 DEF SInv, TimeInv
  <2>4. elapsed[r] \in Nat /\ elapsed'[r] \in Nat /\ ReadTimeout \in Nat /\ TurnTime \in Nat
    BY LimitsAssumption DEF SInv, ServerTypeOK
  <2>5. elapsed'[r] <= ReadTimeout + (n + 1) * TurnTime
    BY <1>1, <2>3, <2>4, OneTurnMore
  <2> QED
    BY <1>5, <2>1, <2>5
<1>9. LateOnlyBehindOthers'
  <2>1. \A q \in Requests : results[q] # <<>> => results'[q] # <<>>
    BY <1>4, <1>5
  <2>2. \A q \in Requests : requests'[q] = "late" => requests[q] = "late" /\ results'[q] = results[q]
    BY <1>2, <1>4 DEF vars
  <2> QED
    BY <2>1, <2>2 DEF SInv, LateOnlyBehindOthers
<1> QED
  BY <1>6, <1>7, <1>8, <1>9 DEF SInv

LEMMA AfterIsTime ==
  ASSUME NEW t \in 0..WriteTimeout + 1, NEW d \in Nat
  PROVE  /\ After(t, d) \in 0..WriteTimeout + 1
         /\ After(t, d) <= t + d
BY LimitsAssumption DEF After

LEMMA ArriveStep == ASSUME SInv, NEW r \in Requests, Arrive(r) PROVE SInv'
<1>1. /\ requests[r] = "absent" /\ requests' = [requests EXCEPT ![r] = "active"]
      /\ UNCHANGED <<connected, results, status>>
  BY DEF Arrive, Accept
<1>2. PICK b \in Bodies : body' = [body EXCEPT ![r] = b]
  BY DEF Arrive
<1>3. /\ requests'[r] = "active" /\ results[r] = <<>>
      /\ \A q \in Requests \ {r} : body'[q] = body[q] /\ requests'[q] = requests[q]
  BY <1>1, <1>2 DEF SInv, ServerTypeOK, TypeOK, RowsInv, BatchInv
<1>4. TypeOK' /\ ShutdownInv'
  BY HandlersKeepShutdown DEF Arrive, SInv, ServerTypeOK, Ends
<1>5. PICK d \in 0..ReadTimeout : elapsed' = [elapsed EXCEPT ![r] = After(0, d)]
  BY DEF Arrive
<1>6. /\ elapsed'[r] \in 0..WriteTimeout + 1 /\ elapsed'[r] <= ReadTimeout
      /\ \A q \in Requests \ {r} : elapsed'[q] = elapsed[q]
  <2>1. WriteTimeout \in Nat /\ ReadTimeout \in Nat
    BY LimitsAssumption
  <2>2. After(0, d) \in 0..WriteTimeout + 1 /\ After(0, d) <= d
    BY <2>1, AfterIsTime
  <2> QED
    BY <1>5, <2>1, <2>2 DEF SInv, ServerTypeOK
<1>7. ServerTypeOK'
  BY <1>1, <1>2, <1>3, <1>4, <1>5, <1>6 DEF SInv, ServerTypeOK, Ends
<1>8. RowsInv'
  <2> SUFFICES ASSUME NEW q \in Requests PROVE BatchInv(q)'
    BY DEF RowsInv
  <2>1. BatchInv(q)
    BY DEF SInv, RowsInv
  <2>2. CASE q # r
    <3>1. /\ body'[q] = body[q] /\ requests'[q] = requests[q] /\ connected'[q] = connected[q]
          /\ results'[q] = results[q] /\ status'[q] = status[q]
      BY <1>1, <1>3, <2>2
    <3> QED
      BY <2>1, <3>1 DEF BatchInv
  <2>3. CASE q = r
    <3>1. status[r] = "none"
      BY <1>1 DEF SInv, ServerTypeOK, Ends
    <3>2. body'[r] \in Bodies
      BY <1>7 DEF ServerTypeOK
    <3>3. Len(body'[r].rows) \in Nat /\ MaxStops \in Nat
      <4>1. body'[r].rows \in Seq({"address", "blank"})
        BY <3>2, BodiesAssumption
      <4> QED
        BY <4>1, LimitsAssumption
    <3> QED
      BY <1>1, <1>3, <2>3, <3>1, <3>3 DEF BatchInv
  <2> QED
    BY <2>2, <2>3
<1>9. TimeInv'
  <2> SUFFICES ASSUME NEW q \in Requests, Alone(q)'
               PROVE  elapsed'[q] <= ReadTimeout + Len(results'[q]) * TurnTime
    BY DEF TimeInv
  <2>1. CASE q = r
    <3>1. Len(results'[r]) = 0
      BY <1>1, <1>3
    <3> QED
      BY <1>6, <2>1, <3>1, LimitsAssumption
  <2>2. CASE q # r
    BY <1>1, <1>6, <2>2 DEF SInv, TimeInv, Alone
  <2> QED
    BY <2>1, <2>2
<1>10. LateOnlyBehindOthers'
  BY <1>1, <1>3 DEF SInv, LateOnlyBehindOthers
<1> QED
  BY <1>4, <1>7, <1>8, <1>9, <1>10 DEF SInv

LEMMA LeaveStep == ASSUME SInv, NEW r \in Requests, Leave(r) PROVE SInv'
<1>1. /\ requests[r] = "active" /\ connected' = [connected EXCEPT ![r] = FALSE]
      /\ UNCHANGED <<vars, body, results, status, elapsed>>
  BY DEF Leave
<1>2. \A q \in Requests : \/ connected'[q] = connected[q]
                          \/ connected'[q] = FALSE /\ requests[q] = "active"
  BY <1>1 DEF SInv, ServerTypeOK
<1>3. TypeOK' /\ ShutdownInv'
  BY <1>1 DEF SInv, ServerTypeOK, TypeOK, ShutdownInv, NothingCut, NothingActive, vars
<1>4. ServerTypeOK'
  BY <1>1, <1>3 DEF SInv, ServerTypeOK, vars
<1>5. RowsInv'
  <2> SUFFICES ASSUME NEW q \in Requests PROVE BatchInv(q)'
    BY DEF RowsInv
  <2>1. BatchInv(q)
    BY DEF SInv, RowsInv
  <2> QED
    BY <1>1, <1>2, <2>1 DEF BatchInv, vars
<1>6. TimeInv' /\ LateOnlyBehindOthers'
  BY <1>1 DEF SInv, TimeInv, Alone, LateOnlyBehindOthers, vars
<1> QED
  BY <1>3, <1>4, <1>5, <1>6 DEF SInv

LEMMA TimeIsNat == ASSUME NEW a \in Nat, NEW n \in Nat, NEW b \in Nat PROVE a + n * b \in Nat
OBVIOUS

LEMMA Beyond == ASSUME NEW t \in Nat, NEW m \in Nat, NEW w \in Nat, t <= m, t > w PROVE m > w
OBVIOUS

(* What is written and how it fares: the deadline of the connection is     *)
(* missed because of others, or because its own rows took too long.        *)
LEMMA WriteStep ==
  ASSUME SInv, NEW r \in Requests, NEW code \in Statuses \ {"none"}, Write(r, code),
         code = "200 OK" => Len(results[r]) = Len(body[r].rows)
  PROVE  SInv'
<1>1. /\ requests[r] = "active" /\ requests' = [requests EXCEPT ![r] = Fate(r)]
      /\ status' = [status EXCEPT ![r] = code]
      /\ UNCHANGED <<body, connected, results, elapsed>>
  BY DEF Write, HandlerReturns
<1>2. /\ requests'[r] = Fate(r) /\ status'[r] = code
      /\ \A q \in Requests \ {r} : requests'[q] = requests[q] /\ status'[q] = status[q]
  BY <1>1 DEF SInv, ServerTypeOK, TypeOK
<1>3. Fate(r) \in Ends /\ (Fate(r) \in {"answered", "late"} => connected[r])
  BY DEF Fate, Ends
<1>4. TypeOK' /\ ShutdownInv'
  BY <1>3, HandlersKeepShutdown DEF Write, SInv, ServerTypeOK
<1>5. ServerTypeOK'
  <2>1. \A q \in Requests : requests'[q] \in Ends <=> status'[q] # "none"
    BY <1>2, <1>3 DEF SInv, ServerTypeOK
  <2> QED
    BY <1>1, <1>4, <2>1 DEF SInv, ServerTypeOK
<1>6. RowsInv'
  <2> SUFFICES ASSUME NEW q \in Requests PROVE BatchInv(q)'
    BY DEF RowsInv
  <2>1. BatchInv(q)
    BY DEF SInv, RowsInv
  <2>2. CASE q # r
    <3>1. /\ body'[q] = body[q] /\ requests'[q] = requests[q] /\ connected'[q] = connected[q]
          /\ results'[q] = results[q] /\ status'[q] = status[q]
      BY <1>1, <1>2, <2>2
    <3> QED
      BY <2>1, <3>1 DEF BatchInv
  <2>3. CASE q = r
    <3>1. /\ requests'[q] # "absent"
          /\ requests'[q] \in {"answered", "late"} => connected[q]
          /\ status'[q] = "200 OK" => Len(results[q]) = Len(body[q].rows)
      BY <1>2, <1>3, <2>3 DEF Ends
    <3> QED
      BY <1>1, <2>1, <3>1 DEF BatchInv
  <2> QED
    BY <2>2, <2>3
<1>7. TimeInv'
  BY <1>1 DEF SInv, TimeInv, Alone
<1>8. Fate(r) = "late" /\ Alone(r) => ReadTimeout + Len(results[r]) * TurnTime > WriteTimeout
  <2>1. /\ elapsed[r] \in Nat /\ WriteTimeout \in Nat
        /\ Len(results[r]) \in Nat /\ TurnTime \in Nat /\ ReadTimeout \in Nat
    BY BatchTypes DEF SInv
  <2>2. Alone(r) => elapsed[r] <= ReadTimeout + Len(results[r]) * TurnTime
    BY DEF SInv, TimeInv
  <2>3. Fate(r) = "late" => elapsed[r] > WriteTimeout
    BY DEF Fate
  <2>4. ReadTimeout + Len(results[r]) * TurnTime \in Nat
    BY <2>1, TimeIsNat
  <2> HIDE DEF Alone, Fate
  <2> QED
    BY <2>1, <2>2, <2>3, <2>4, Beyond
<1>9. LateOnlyBehindOthers'
  BY <1>1, <1>2, <1>8 DEF SInv, LateOnlyBehindOthers, Alone
<1> QED
  BY <1>4, <1>5, <1>6, <1>7, <1>9 DEF SInv

LEMMA LookupStep == ASSUME SInv, NEW r \in Requests, Lookup(r) PROVE SInv'
<1>1. PICK found \in LookupResults(r) : Record(r, found)
  BY DEF Lookup
<1>2. /\ found \in RowResults /\ found # "empty"
      /\ found = "canceled" => ~connected[r]
  BY DEF LookupResults, RowResults
<1>3. /\ AtRow(r, "address") /\ UNCHANGED <<vars, body, connected, status>>
      /\ \E d \in 0..TurnTime : Wait(d)
  BY DEF Lookup
<1>4. elapsed' \in [Requests -> 0..WriteTimeout + 1] /\ elapsed'[r] <= elapsed[r] + TurnTime
  <2>1. PICK d \in 0..TurnTime : Wait(d)
    BY <1>3
  <2>2. \A q \in Requests : elapsed[q] \in 0..WriteTimeout + 1
    BY DEF SInv, ServerTypeOK
  <2>3. /\ elapsed' = [q \in Requests |-> elapsed'[q]]
        /\ \A q \in Requests : elapsed'[q] \in {elapsed[q], After(elapsed[q], d)}
    BY <2>1 DEF Wait
  <2>4. WriteTimeout \in Nat /\ TurnTime \in Nat /\ d \in Nat /\ d <= TurnTime
    BY LimitsAssumption
  <2>5. \A q \in Requests : elapsed'[q] \in 0..WriteTimeout + 1 /\ elapsed'[q] <= elapsed[q] + TurnTime
    BY <2>2, <2>3, <2>4, AfterIsTime
  <2> QED
    BY <2>3, <2>5
<1> QED
  BY <1>1, <1>2, <1>3, <1>4, RecordKeeps

LEMMA ServerStep == SInv /\ [Next]_<<vars, hvars>> => SInv'
<1> SUFFICES ASSUME SInv, [Next]_<<vars, hvars>> PROVE SInv'
  OBVIOUS
<1>1. CASE Process /\ UNCHANGED hvars
  BY <1>1, ProcessStep
<1>2. ASSUME NEW r \in Requests, Arrive(r) PROVE SInv'
  BY <1>2, ArriveStep
<1>3. ASSUME NEW r \in Requests, Leave(r) PROVE SInv'
  BY <1>3, LeaveStep
<1>4. ASSUME NEW r \in Requests, Refuse(r) PROVE SInv'
  <2>1. Refusal(body[r]) \in Statuses \ {"none", "200 OK"}
    BY <1>4 DEF Refuse, Refusal, Statuses
  <2> QED
    BY <1>4, <2>1, WriteStep DEF Refuse
<1>5. ASSUME NEW r \in Requests, Blank(r) PROVE SInv'
  <2>1. elapsed \in [Requests -> 0..WriteTimeout + 1] /\ elapsed[r] <= elapsed[r] + TurnTime
    BY LimitsAssumption DEF SInv, ServerTypeOK
  <2>2. "empty" \in RowResults
    BY DEF RowResults
  <2>3. /\ AtRow(r, "blank") /\ Record(r, "empty") /\ elapsed' = elapsed
        /\ UNCHANGED <<vars, body, connected, status>>
    BY <1>5 DEF Blank
  <2> QED
    BY <2>1, <2>2, <2>3, RecordKeeps
<1>6. ASSUME NEW r \in Requests, Lookup(r) PROVE SInv'
  BY <1>6, LookupStep
<1>7. ASSUME NEW r \in Requests, Reply(r) PROVE SInv'
  BY <1>7, WriteStep DEF Reply, Statuses
<1>8. CASE UNCHANGED <<vars, hvars>>
  <2>1. ServerTypeOK'
    BY <1>8 DEF vars, hvars, SInv, ServerTypeOK, TypeOK
  <2>2. ShutdownInv'
    BY <1>8 DEF vars, SInv, ShutdownInv, NothingCut, NothingActive
  <2>3. RowsInv'
    BY <1>8 DEF vars, hvars, SInv, RowsInv, BatchInv
  <2>4. TimeInv' /\ LateOnlyBehindOthers'
    BY <1>8 DEF vars, hvars, SInv, TimeInv, Alone, LateOnlyBehindOthers
  <2> QED
    BY <2>1, <2>2, <2>3, <2>4 DEF SInv
<1> QED
  BY <1>1, <1>2, <1>3, <1>4, <1>5, <1>6, <1>7, <1>8 DEF Next

LEMMA ServerInvariant == Spec => []SInv
<1>1. ServerInit => SInv
  <2> SUFFICES ASSUME ServerInit PROVE SInv
    OBVIOUS
  <2>1. \A r \in Requests : body[r] \in Bodies
    BY BodiesAssumption DEF ServerInit
  <2>2. \A r \in Requests : Len(body[r].rows) \in Nat
    <3>1. \A b \in Bodies : b.rows \in Seq({"address", "blank"})
      BY BodiesAssumption
    <3>2. \A b \in Bodies : Len(b.rows) \in Nat
      BY <3>1
    <3> QED
      BY <2>1, <3>2
  <2>3. /\ \A r \in Requests : results[r] = <<>> /\ status[r] = "none" /\ elapsed[r] = 0
                               /\ requests[r] = "absent"
        /\ MaxStops \in Nat /\ WriteTimeout \in Nat /\ ReadTimeout \in Nat /\ TurnTime \in Nat
    BY LimitsAssumption DEF ServerInit, Init
  <2>4. <<>> \in UNION {[1..n -> RowResults] : n \in 0..MaxStops}
    BY <2>3, ResultsAreSeqs
  <2>5. TypeOK /\ ShutdownInv
    BY DEF ServerInit, Init, TypeOK, ShutdownInv, NothingCut, NothingActive, Errors, Ends
  <2>6. ServerTypeOK
    <3>1. body \in [Requests -> Bodies] /\ connected \in [Requests -> BOOLEAN]
      BY <2>1 DEF ServerInit
    <3>2. results \in [Requests -> UNION {[1..n -> RowResults] : n \in 0..MaxStops}]
      BY <2>4 DEF ServerInit
    <3>3. status \in [Requests -> Statuses] /\ elapsed \in [Requests -> 0..WriteTimeout + 1]
      BY <2>3 DEF ServerInit, Statuses
    <3> QED
      BY <2>3, <2>5, <3>1, <3>2, <3>3 DEF ServerTypeOK, Ends
  <2>7. RowsInv
    <3> SUFFICES ASSUME NEW r \in Requests PROVE BatchInv(r)
      BY DEF RowsInv
    <3>1. Len(body[r].rows) \in Nat
      BY <2>2
    <3>2. results[r] = <<>> /\ status[r] = "none" /\ requests[r] = "absent" /\ MaxStops \in Nat
      BY <2>3
    <3>3. Len(results[r]) = 0
      BY <3>2
    <3> QED
      BY <3>1, <3>2, <3>3 DEF BatchInv
  <2>8. TimeInv /\ LateOnlyBehindOthers
    <3>1. \A r \in Requests : Len(results[r]) = 0
      BY <2>3
    <3> QED
      BY <2>3, <3>1 DEF TimeInv, LateOnlyBehindOthers
  <2> QED
    BY <2>5, <2>6, <2>7, <2>8 DEF SInv
<1> QED
  BY <1>1, ServerStep, PTL DEF Spec

THEOREM ServerTypes == Spec => []ServerTypeOK
<1>1. SInv => ServerTypeOK
  BY DEF SInv
<1> QED
  BY <1>1, ServerInvariant, PTL

(* Success of the process means that no handler was cut off: the result    *)
(* nil of runHTTPServer is only reached through a Shutdown that returned   *)
(* without an error, and it accepts nothing after that.                    *)
THEOREM SuccessIsClean == Spec => []SuccessMeansAnswered
<1>1. SInv => SuccessMeansAnswered
  BY DEF SInv, ShutdownInv, NothingCut, SuccessMeansAnswered
<1> QED
  BY <1>1, ServerInvariant, PTL

(* Whoever reads a reply 200 finds one result for each row of the batch,   *)
(* however many batches run beside it.                                     *)
THEOREM RepliesAreComplete == Spec => []EveryRowReported
<1>1. SInv => EveryRowReported
  <2> SUFFICES ASSUME SInv, NEW r \in Requests, requests[r] \in {"answered", "late"}, status[r] = "200 OK"
               PROVE  /\ Len(results[r]) = Len(body[r].rows)
                      /\ \A i \in DOMAIN results[r] :
                           /\ results[r][i] = "empty" <=> body[r].rows[i] = "blank"
                           /\ results[r][i] # "canceled"
    BY DEF EveryRowReported
  <2>1. DOMAIN results[r] = 1..Len(results[r])
    BY BatchTypes DEF SInv
  <2> QED
    BY <2>1 DEF SInv, RowsInv, BatchInv
<1> QED
  BY <1>1, ServerInvariant, PTL

(* A batch that misses the deadline of its connection waited for rows of   *)
(* others, or its own rows, one turn each, do not fit in it: whatever the  *)
(* limits and the timeouts of the configuration, and for any number of     *)
(* batches.                                                                *)
THEOREM DeadlinesMissedForOthers == Spec => []LateOnlyBehindOthers
<1>1. SInv => LateOnlyBehindOthers
  BY DEF SInv
<1> QED
  BY <1>1, ServerInvariant, PTL
=============================================================================
